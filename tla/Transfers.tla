----------------------------- MODULE Transfers ------------------------------
(***************************************************************************)
(* POST /transfers and POST /accounts: the handlers createTransfer and     *)
(* createAccount, the store's TransferTx and CreateAccountTx, and the      *)
(* PostgreSQL behaviour they rely on (READ COMMITTED, row locks held to    *)
(* the end of the transaction, a unique index, pg_notify at commit).       *)
(*                                                                         *)
(* A request is a process: one action per statement it sends to the        *)
(* database, with the handler's own computation attached to the statement  *)
(* before it.  Between two statements any other request may run, and the   *)
(* request's context may end (Fail).  A transaction's writes are kept in   *)
(* tx[r] and reach the tables only when it commits.                        *)
(***************************************************************************)
EXTENDS Integers, FiniteSets, FiniteSetsExt

CONSTANTS
  Accounts,        \* account ids; their order is the order of the UUID strings
  Users,
  Currencies,
  Owner,           \* owner and currency of the account with a given id: no
  Currency,        \*   statement of the program ever updates either column
  Keys,            \* idempotency keys
  Requests,        \* HTTP requests, one TransferTx call at most each
  Intents,         \* the request bodies, with the authenticated caller
  MaxSafe,         \* currency.MaxSafeMinorUnits
  MaxPerTransfer,  \* config.TransferLimits, by currency; 0 is no limit
  DailyLimit,
  OpeningLimit,    \* config.AccountOpeningLimits, by currency
  Deposits,        \* the opening balances asked for
  PoolSize,        \* connections of the pgx pool
  Window,          \* the trailing window of the daily limit (24 hours)
  MaxTime,         \* bound on the clock
  None

\* Refusals that depend on balances or on earlier transfers, and so can
\* change from one attempt to the next.
MutableRefusals == {"insufficient_balance", "balance_limit_exceeded", "daily_limit_exceeded"}

Replies == MutableRefusals \union
  {"ok", "failed", "amount_too_large", "transfer_limit_exceeded", "same_account_transfer",
   "not_found", "currency_mismatch", "forbidden", "idempotency_conflict"}

Intent == [caller : Users, from : Accounts, to : Accounts,
           amount : Nat \ {0}, currency : Currencies, key : Keys]

\* What a limit of the configuration can be; a currency without one has 0.
Limit == 0 .. MaxSafe

ASSUME AccountsAssumption == Accounts \subseteq Nat
ASSUME TablesAssumption ==
  /\ Owner \in [Accounts -> Users]
  /\ Currency \in [Accounts -> Currencies]
ASSUME LimitsAssumption ==
  /\ MaxSafe \in Nat \ {0}
  /\ MaxPerTransfer \in [Currencies -> Limit]
  /\ DailyLimit \in [Currencies -> Limit]
  /\ OpeningLimit \in [Currencies -> Limit]
  /\ Deposits \subseteq Nat
ASSUME ClockAssumption == Window \in Nat /\ MaxTime \in Nat
ASSUME PoolAssumption == PoolSize \in Nat \ {0}
ASSUME IntentsAssumption == Intents \subseteq Intent
ASSUME NoneAssumption == None \notin Requests \union Replies

VARIABLES
  now,             \* clock_timestamp()
  open,            \* accounts: the ids that have a row ...
  balance,         \*   ... and their committed balances
  transfers,       \* the committed rows of the tables of the same name
  entries,
  notifications,
  wakeups,         \* the NOTIFYs delivered on channel balance_notifications
  lock,            \* the transaction that holds each account's row lock
  pc,              \* the statement each request is about to run
  req,             \* its body
  began,           \* the start of its transaction: now() in SQL
  toRow,           \* the balance in the destination row it read under lock
  existing,        \* the transfer row its lookup outside the locks returned
  tx,              \* its transaction's uncommitted writes
  reply,           \* the answer it was given, and
  answer           \*   the id of the transfer in it

tables == <<open, balance, transfers, entries, notifications, wakeups>>
locals == <<req, began, toRow, existing, answer>>
vars == <<now, tables, lock, pc, locals, tx, reply>>

-----------------------------------------------------------------------------
(* Rows and transactions.                                                  *)

NoWrite == -1

TransferRow == [id : Requests, from : Accounts, to : Accounts,
                amount : 1 .. MaxSafe, key : Keys, created : Nat]
Entry == [by : Requests \union {None}, account : Accounts, amount : Int]
Note == [transfer : Requests, account : Accounts,
         direction : {"sent", "received"}, balance : 0 .. MaxSafe]
Wakeup == [transfer : Requests, owner : Users]
Tx == [transfers : SUBSET TransferRow, entries : SUBSET Entry, notes : SUBSET Note,
       notify : SUBSET Wakeup, balance : [Accounts -> (0 .. MaxSafe) \union {NoWrite}]]

EmptyTx == [transfers |-> {}, entries |-> {}, notes |-> {}, notify |-> {},
            balance |-> [a \in Accounts |-> NoWrite]]

\* A statement sees its own transaction's writes and otherwise what is
\* committed when it starts.
Visible(r, a) == IF tx[r].balance[a] = NoWrite THEN balance[a] ELSE tx[r].balance[a]

SameKey(t, i) == t.from = i.from /\ t.key = i.key
Committed(i) == {t \in transfers : SameKey(t, i)}

\* SumOutgoingTransfersSince
Outgoing(a, since) == {t \in transfers : t.from = a /\ t.created >= since}
Amount(t) == t.amount
Total(S) == MapThenSumSet(Amount, S)
SumOutgoingTransfersSince(a) == Min({Total(Outgoing(a, now - Window)), MaxSafe})

\* Defect: the source is locked first, whatever the order of the ids.
FirstIsSource(i) == i.from

First(i) == IF i.from < i.to THEN i.from ELSE i.to
Second(i) == IF First(i) = i.from THEN i.to ELSE i.from

\* A transaction keeps its connection from Begin until it ends; a statement
\* outside a transaction needs one for as long as it runs.
InTx == {"lockFirst", "lockSecond", "relookup", "limit", "insert", "entries",
         "debit", "credit", "notify", "commit"}
ConnectionFree == Cardinality({r \in Requests : pc[r] \in InTx}) < PoolSize

Goto(r, label) == pc' = [pc EXCEPT ![r] = label]

Answer(r, code) ==
  /\ Goto(r, "done")
  /\ reply' = [reply EXCEPT ![r] = code]

\* The transaction of r ends: its writes are dropped (or were just applied)
\* and its row locks are released.
EndTx(r) ==
  /\ tx' = [tx EXCEPT ![r] = EmptyTx]
  /\ lock' = [a \in Accounts |-> IF lock[a] = r THEN None ELSE lock[a]]

Refuse(r, code) == Answer(r, code) /\ UNCHANGED <<now, tables, lock, locals, tx>>
Rollback(r, code) == Answer(r, code) /\ EndTx(r) /\ UNCHANGED <<now, tables, locals>>

-----------------------------------------------------------------------------
(* createAccount and CreateAccountTx.  The new row is invisible until the  *)
(* transaction commits, so the two inserts are one step.                   *)

CreateAccount(a, deposit) ==
  /\ ConnectionFree
  /\ a \notin open
  /\ deposit <= MaxSafe
  /\ deposit <= OpeningLimit[Currency[a]]
  /\ \A b \in open : <<Owner[b], Currency[b]>> # <<Owner[a], Currency[a]>>
  /\ open' = open \union {a}
  /\ balance' = [balance EXCEPT ![a] = deposit]
  /\ entries' = entries \union
       {e \in {[by |-> None, account |-> a, amount |-> deposit]} : deposit # 0}
  /\ UNCHANGED <<now, transfers, notifications, wakeups, lock, pc, locals, tx, reply>>

-----------------------------------------------------------------------------
(* createTransfer: the checks at the API's edge.                           *)

Pass == "pass"

EdgeVerdict(i) ==
  CASE i.amount > MaxSafe -> "amount_too_large"
    [] MaxPerTransfer[i.currency] > 0 /\ i.amount > MaxPerTransfer[i.currency]
         -> "transfer_limit_exceeded"
    [] i.from = i.to -> "same_account_transfer"
    [] OTHER -> Pass

Arrive(r, i) ==
  /\ pc[r] = "idle"
  /\ req' = [req EXCEPT ![r] = i]
  /\ \/ EdgeVerdict(i) # Pass /\ Answer(r, EdgeVerdict(i))
     \/ EdgeVerdict(i) = Pass /\ Goto(r, "source") /\ UNCHANGED reply
  /\ UNCHANGED <<now, tables, lock, began, toRow, existing, answer, tx>>

\* validAccount, then authorizeOwner for the source only.
AccountVerdict(a, i) ==
  CASE a \notin open -> "not_found"
    [] Currency[a] # i.currency -> "currency_mismatch"
    [] OTHER -> Pass

\* Defect: the source's owner is not compared with the caller.
SourceVerdictAnyCaller(i) == AccountVerdict(i.from, i)

SourceVerdict(i) ==
  CASE AccountVerdict(i.from, i) # Pass -> AccountVerdict(i.from, i)
    [] Owner[i.from] # i.caller -> "forbidden"
    [] OTHER -> Pass

Proceed(r, label) == Goto(r, label) /\ UNCHANGED <<now, tables, lock, locals, tx, reply>>

CheckSource(r) ==
  /\ pc[r] = "source" /\ ConnectionFree
  /\ \/ SourceVerdict(req[r]) # Pass /\ Refuse(r, SourceVerdict(req[r]))
     \/ SourceVerdict(req[r]) = Pass /\ Proceed(r, "destination")

CheckDestination(r) ==
  /\ pc[r] = "destination" /\ ConnectionFree
  /\ \/ AccountVerdict(req[r].to, req[r]) # Pass
        /\ Refuse(r, AccountVerdict(req[r].to, req[r]))
     \/ AccountVerdict(req[r].to, req[r]) = Pass /\ Proceed(r, "lookup")

-----------------------------------------------------------------------------
(* TransferTx.                                                             *)

\* Defect: the replayed transfer's amount is not compared with the request's.
ReplayMatchesAnyAmount(t, i) ==
  t.from = i.from /\ t.to = i.to /\ Currency[t.from] = i.currency

\* transferReplay: a stored transfer answers the request it was made for.
ReplayMatches(t, i) ==
  /\ t.from = i.from /\ t.to = i.to /\ t.amount = i.amount
  /\ Currency[t.from] = i.currency /\ Currency[t.to] = i.currency

\* The lookup on the fast path, and the one after a unique violation.
Lookup(r) ==
  /\ pc[r] \in {"lookup", "resolve"} /\ ConnectionFree
  /\ \/ \E t \in Committed(req[r]) :
          /\ existing' = [existing EXCEPT ![r] = t]
          /\ Goto(r, "replay")
          /\ UNCHANGED <<now, tables, lock, req, began, toRow, answer, tx, reply>>
     \/ /\ Committed(req[r]) = {}
        /\ IF pc[r] = "lookup" THEN Proceed(r, "begin") ELSE Refuse(r, "not_found")

\* replayTransfer: the two reads take no lock and change nothing.
Replay(r) ==
  /\ pc[r] = "replay" /\ ConnectionFree
  /\ \/ /\ ReplayMatches(existing[r], req[r])
        /\ Answer(r, "ok")
        /\ answer' = [answer EXCEPT ![r] = existing[r].id]
        /\ UNCHANGED <<now, tables, lock, req, began, toRow, existing, tx>>
     \/ ~ReplayMatches(existing[r], req[r]) /\ Refuse(r, "idempotency_conflict")

Begin(r) ==
  /\ pc[r] = "begin" /\ ConnectionFree
  /\ began' = [began EXCEPT ![r] = now]
  /\ Goto(r, "lockFirst")
  /\ UNCHANGED <<now, tables, lock, req, toRow, existing, answer, tx, reply>>

\* Defect: a plain SELECT instead of FOR NO KEY UPDATE.
GetAccountUnlocked(r, a, label) ==
  /\ toRow' = [toRow EXCEPT ![r] = IF a = req[r].to THEN balance[a] ELSE @]
  /\ Goto(r, label)
  /\ UNCHANGED <<now, tables, lock, req, began, existing, answer, tx, reply>>

\* GetAccountForUpdate waits for the row's lock and reads the committed row.
GetAccountForUpdate(r, a, label) ==
  /\ lock[a] = None
  /\ IF a \notin open THEN Rollback(r, "not_found") ELSE
       /\ lock' = [lock EXCEPT ![a] = r]
       /\ toRow' = [toRow EXCEPT ![r] = IF a = req[r].to THEN balance[a] ELSE @]
       /\ Goto(r, label)
       /\ UNCHANGED <<now, tables, req, began, existing, answer, tx, reply>>

LockFirst(r) ==
  pc[r] = "lockFirst" /\ GetAccountForUpdate(r, First(req[r]), "lockSecond")

LockSecond(r) ==
  pc[r] = "lockSecond" /\ GetAccountForUpdate(r, Second(req[r]), "relookup")

LockedVerdict(r) ==
  LET i == req[r] IN
  CASE Currency[i.from] # i.currency \/ Currency[i.to] # i.currency -> "currency_mismatch"
    [] i.amount > MaxSafe \/ toRow[r] > MaxSafe - i.amount -> "balance_limit_exceeded"
    [] OTHER -> Pass

\* Defect: no second lookup; a same-key winner is left to the unique index.
RelookupSkipped(r) ==
  /\ pc[r] = "relookup"
  /\ IF LockedVerdict(r) # Pass THEN Rollback(r, LockedVerdict(r)) ELSE Proceed(r, "limit")

\* The second lookup, under the locks, then the checks on the locked rows.
Relookup(r) ==
  /\ pc[r] = "relookup"
  /\ \/ \E t \in Committed(req[r]) :
          \/ /\ ReplayMatches(t, req[r])
             /\ Answer(r, "ok")
             /\ answer' = [answer EXCEPT ![r] = t.id]
             /\ EndTx(r)
             /\ UNCHANGED <<now, tables, req, began, toRow, existing>>
          \/ ~ReplayMatches(t, req[r]) /\ Rollback(r, "idempotency_conflict")
     \/ /\ Committed(req[r]) = {}
        /\ \/ LockedVerdict(r) # Pass /\ Rollback(r, LockedVerdict(r))
           \/ LockedVerdict(r) = Pass /\ Proceed(r, "limit")

WithinDailyLimit(i) ==
  \/ DailyLimit[i.currency] = 0
  \/ /\ i.amount <= DailyLimit[i.currency]
     /\ SumOutgoingTransfersSince(i.from) <= DailyLimit[i.currency] - i.amount

CheckDailyLimit(r) ==
  /\ pc[r] = "limit"
  /\ \/ WithinDailyLimit(req[r]) /\ Proceed(r, "insert")
     \/ ~WithinDailyLimit(req[r]) /\ Rollback(r, "daily_limit_exceeded")

Row(r) == [id |-> r, from |-> req[r].from, to |-> req[r].to,
           amount |-> req[r].amount, key |-> req[r].key, created |-> began[r]]

\* The unique index on (from_account_id, idempotency_key): an insert waits
\* for a concurrent transaction that inserted the same pair, and fails when
\* the pair is committed.
CreateTransfer(r) ==
  /\ pc[r] = "insert"
  /\ \A q \in Requests \ {r} : \A t \in tx[q].transfers : ~SameKey(t, req[r])
  /\ IF Committed(req[r]) # {}
       THEN Goto(r, "resolve") /\ EndTx(r) /\ UNCHANGED <<now, tables, locals, reply>>
       ELSE /\ tx' = [tx EXCEPT ![r].transfers = {Row(r)}]
            /\ Goto(r, "entries")
            /\ UNCHANGED <<now, tables, lock, locals, reply>>

CreateEntries(r) ==
  /\ pc[r] = "entries"
  /\ tx' = [tx EXCEPT ![r].entries =
              {[by |-> r, account |-> req[r].from, amount |-> -req[r].amount],
               [by |-> r, account |-> req[r].to, amount |-> req[r].amount]}]
  /\ Goto(r, "debit")
  /\ UNCHANGED <<now, tables, lock, locals, reply>>

\* Defect: the UPDATE lacks its range guard.
AddAccountBalanceUnguarded(r, a, amount, label) ==
  /\ lock[a] \in {r, None}
  /\ tx' = [tx EXCEPT ![r].balance[a] = Visible(r, a) + amount]
  /\ lock' = [lock EXCEPT ![a] = r]
  /\ Goto(r, label)
  /\ UNCHANGED <<now, tables, locals, reply>>

\* The UPDATE waits for the row lock unless the transaction holds it; no row
\* passes the guard when the new balance is out of range.
AddAccountBalance(r, a, amount, label) ==
  /\ lock[a] \in {r, None}
  /\ IF Visible(r, a) + amount \notin 0 .. MaxSafe
       THEN Rollback(r, "insufficient_balance")
       ELSE /\ tx' = [tx EXCEPT ![r].balance[a] = Visible(r, a) + amount]
            /\ lock' = [lock EXCEPT ![a] = r]
            /\ Goto(r, label)
            /\ UNCHANGED <<now, tables, locals, reply>>

\* Defect: the debit runs on the pool instead of on the transaction.
DebitOutsideTx(r) ==
  /\ pc[r] = "debit"
  /\ balance[req[r].from] >= req[r].amount
  /\ balance' = [balance EXCEPT ![req[r].from] = @ - req[r].amount]
  /\ Goto(r, "credit")
  /\ UNCHANGED <<now, open, transfers, entries, notifications, wakeups, lock, locals, tx, reply>>

Debit(r) ==
  pc[r] = "debit" /\ AddAccountBalance(r, req[r].from, -req[r].amount, "credit")

Credit(r) ==
  pc[r] = "credit" /\ AddAccountBalance(r, req[r].to, req[r].amount, "notify")

\* Defect: the notifications record the balances read under the locks.
CreateNotificationsFromSnapshot(r) ==
  LET i == req[r] IN
  /\ pc[r] = "notify"
  /\ tx' = [tx EXCEPT
       ![r].notes = {[transfer |-> r, account |-> i.from, direction |-> "sent",
                      balance |-> balance[i.from]],
                     [transfer |-> r, account |-> i.to, direction |-> "received",
                      balance |-> toRow[r]]},
       ![r].notify = {[transfer |-> r, owner |-> Owner[i.from]],
                      [transfer |-> r, owner |-> Owner[i.to]]}]
  /\ Goto(r, "commit")
  /\ UNCHANGED <<now, tables, lock, locals, reply>>

\* CreateNotification and PublishNotification for both sides.
CreateNotifications(r) ==
  LET i == req[r] IN
  /\ pc[r] = "notify"
  /\ tx' = [tx EXCEPT
       ![r].notes = {[transfer |-> r, account |-> i.from, direction |-> "sent",
                      balance |-> Visible(r, i.from)],
                     [transfer |-> r, account |-> i.to, direction |-> "received",
                      balance |-> Visible(r, i.to)]},
       ![r].notify = {[transfer |-> r, owner |-> Owner[i.from]],
                      [transfer |-> r, owner |-> Owner[i.to]]}]
  /\ Goto(r, "commit")
  /\ UNCHANGED <<now, tables, lock, locals, reply>>

\* COMMIT publishes the transaction's rows and its NOTIFYs and releases its
\* locks.
ApplyTx(r) ==
  /\ balance' = [a \in Accounts |-> Visible(r, a)]
  /\ transfers' = transfers \union tx[r].transfers
  /\ entries' = entries \union tx[r].entries
  /\ notifications' = notifications \union tx[r].notes
  /\ wakeups' = wakeups \union tx[r].notify
  /\ EndTx(r)
  /\ UNCHANGED <<now, open, req, began, toRow, existing>>

Commit(r) ==
  /\ pc[r] = "commit"
  /\ ApplyTx(r)
  /\ Answer(r, "ok")
  /\ answer' = [answer EXCEPT ![r] = r]

\* The commit took effect but its acknowledgement did not reach the server in
\* time: the caller is told that the request failed.
CommitUnacknowledged(r) ==
  /\ pc[r] = "commit"
  /\ ApplyTx(r)
  /\ Answer(r, "failed")
  /\ UNCHANGED answer

\* The 30 s request timeout, a cancelled context, a lost connection or a
\* crash: whatever was not committed is rolled back.
Fail(r) ==
  /\ pc[r] \notin {"idle", "done"}
  /\ Rollback(r, "failed")

-----------------------------------------------------------------------------
Tick ==
  /\ now < MaxTime
  /\ now' = now + 1
  /\ UNCHANGED <<tables, lock, pc, locals, tx, reply>>

\* Every request has been answered.
Quiescent ==
  /\ \A r \in Requests : pc[r] = "done"
  /\ UNCHANGED vars

Init ==
  /\ now = 0
  /\ open = {}
  /\ balance = [a \in Accounts |-> 0]
  /\ transfers = {} /\ entries = {} /\ notifications = {} /\ wakeups = {}
  /\ lock = [a \in Accounts |-> None]
  /\ pc = [r \in Requests |-> "idle"]
  /\ req = [r \in Requests |-> None]
  /\ began = [r \in Requests |-> 0]
  /\ toRow = [r \in Requests |-> 0]
  /\ existing = [r \in Requests |-> None]
  /\ tx = [r \in Requests |-> EmptyTx]
  /\ reply = [r \in Requests |-> None]
  /\ answer = [r \in Requests |-> None]

\* What the server does for a request that has arrived, failures aside.
Step(r) ==
  \/ CheckSource(r) \/ CheckDestination(r) \/ Lookup(r) \/ Replay(r)
  \/ Begin(r) \/ LockFirst(r) \/ LockSecond(r) \/ Relookup(r)
  \/ CheckDailyLimit(r) \/ CreateTransfer(r) \/ CreateEntries(r)
  \/ Debit(r) \/ Credit(r) \/ CreateNotifications(r)
  \/ Commit(r) \/ CommitUnacknowledged(r)

Next ==
  \/ \E a \in Accounts, deposit \in Deposits : CreateAccount(a, deposit)
  \/ \E r \in Requests : \E i \in Intents : Arrive(r, i)
  \/ \E r \in Requests : Step(r)
  \/ \E r \in Requests : Fail(r)
  \/ Tick
  \/ Quiescent

Spec == Init /\ [][Next]_vars

\* The server keeps running the requests it accepted, and PostgreSQL grants a
\* free row lock.  No fairness is put on Fail: no request needs its timeout.
FairSpec == Spec /\ \A r \in Requests : WF_vars(Step(r))
-----------------------------------------------------------------------------
(* Properties.                                                             *)

Labels == InTx \union {"idle", "source", "destination", "lookup", "resolve",
                       "replay", "begin", "done"}

\* How far a request is: past validation, holding both row locks, past the
\* second lookup, with its rows inserted, debited, and credited.
Checked == InTx \union {"lookup", "resolve", "replay", "begin"}
Locked == InTx \ {"lockFirst", "lockSecond"}
Decided == Locked \ {"relookup"}
Inserted == Decided \ {"limit", "insert"}
Debited == {"credit", "notify", "commit"}
Credited == {"notify", "commit"}

\* The state is well typed: in particular no committed balance, and no
\* balance a transaction is about to commit, leaves 0 .. MaxSafe.
TypeOK ==
  /\ now \in Nat
  /\ open \subseteq Accounts
  /\ balance \in [Accounts -> 0 .. MaxSafe]
  /\ transfers \subseteq TransferRow
  /\ entries \subseteq Entry
  /\ notifications \subseteq Note
  /\ wakeups \subseteq Wakeup
  /\ lock \in [Accounts -> Requests \union {None}]
  /\ pc \in [Requests -> Labels]
  /\ req \in [Requests -> Intents \union {None}]
  /\ \A r \in Requests : pc[r] # "idle" => req[r] \in Intents
  /\ began \in [Requests -> Nat]
  /\ toRow \in [Requests -> 0 .. MaxSafe]
  /\ existing \in [Requests -> TransferRow \union {None}]
  /\ tx \in [Requests -> Tx]
  /\ reply \in [Requests -> Replies \union {None}]
  /\ answer \in [Requests -> Requests \union {None}]

\* Every balance is the sum of the account's entries, the opening entry of
\* CreateAccountTx included: no debit, credit or opening goes unrecorded.
EntryAmount(e) == e.amount
LedgerMatches ==
  \A a \in open :
    balance[a] = MapThenSumSet(EntryAmount, {e \in entries : e.account = a})

\* The transfers table explains every balance: opening deposit plus what came
\* in minus what went out.  Money is neither made nor lost, and no committed
\* transfer moved it twice or half.
TransfersExplainBalances ==
  \A a \in open :
    balance[a] =
      MapThenSumSet(EntryAmount, {e \in entries : e.account = a /\ e.by = None})
        + Total({t \in transfers : t.to = a}) - Total({t \in transfers : t.from = a})

\* The balances, the entries and the transfers tell one story, whatever
\* attempts fail between two statements.
BooksBalance == LedgerMatches /\ TransfersExplainBalances

\* At every instant the transfers committed out of an account in the trailing
\* window stay within its daily limit, although created_at is the time the
\* transaction began and concurrent requests check the same history.
DailyCap ==
  \A a \in open :
    DailyLimit[Currency[a]] > 0 =>
      Total(Outgoing(a, now - Window)) <= DailyLimit[Currency[a]]

\* From the checks under the locks to COMMIT, a request's source has no
\* committed transfer with its key and no other transaction is past the locks
\* for that source: TransferTx never meets the unique violation, and the
\* balances it checked are the ones it changes.
DecidedUnderLock ==
  \A r \in Requests :
    pc[r] \in Decided =>
      /\ Committed(req[r]) = {}
      /\ toRow[r] = balance[req[r].to]
      /\ \A q \in Requests \ {r} :
           pc[q] \in Locked =>
             {req[q].from, req[q].to} \cap {req[r].from, req[r].to} = {}

\* A request is told "ok" only for a committed transfer that is exactly the
\* one it asked for, made by itself or by an earlier attempt.
ReplyTruth ==
  \A r \in Requests :
    reply[r] = "ok" =>
      \E t \in Committed(req[r]) :
        /\ t.id = answer[r] /\ t.to = req[r].to /\ t.amount = req[r].amount
        /\ Currency[t.from] = req[r].currency /\ Currency[t.to] = req[r].currency

\* At most one transfer for a source account and a key (the unique index is
\* never what prevents the second one: see DecidedUnderLock).
OncePerKey ==
  \A t, u \in transfers : t.from = u.from /\ t.key = u.key => t = u

\* Both: a key moves money once because the lock of its source decides.
OnceUnderLock == OncePerKey /\ DecidedUnderLock

\* Whatever was committed obeyed the policy of the edge: its caller owned the
\* source, both accounts hold the currency the caller named, and the amount
\* was within the per-transfer ceiling.
PolicyObeyed ==
  \A t \in transfers :
    LET i == req[t.id] IN
    /\ i.caller = Owner[t.from] /\ {t.from, t.to} \subseteq open
    /\ Currency[t.from] = i.currency /\ Currency[t.to] = i.currency
    /\ MaxPerTransfer[i.currency] > 0 => t.amount <= MaxPerTransfer[i.currency]

\* A refusal is final for the attempt that got it: it left no transfer.
RefusedMovesNothing ==
  \A t \in transfers : reply[t.id] \in {"ok", "failed"}

\* The caller can rely on a definite answer, be it "ok" or a refusal.
AnswersHold == ReplyTruth /\ RefusedMovesNothing

\* What keeps the properties above true from step to step: a request that is
\* past a check still satisfies it, because the row locks freeze the balances
\* and the keys of its accounts, and its uncommitted writes are exactly those
\* of the statements it has run.
RequestInv(r) ==
  LET i == req[r] IN
  /\ pc[r] = "idle" => reply[r] = None
  /\ pc[r] \in Labels \ {"idle", "done"} =>
       reply[r] = None /\ i.from # i.to /\ i.amount <= MaxSafe
  /\ pc[r] = "destination" => i.from \in open /\ Currency[i.from] = i.currency
  /\ pc[r] \in Checked =>
       /\ {i.from, i.to} \subseteq open
       /\ Currency[i.from] = i.currency /\ Currency[i.to] = i.currency
  /\ pc[r] = "replay" => existing[r] \in Committed(i)
  /\ pc[r] = "lockSecond" =>
       lock[First(i)] = r /\ (First(i) = i.to => toRow[r] = balance[i.to])
  /\ pc[r] \in Locked =>
       lock[i.from] = r /\ lock[i.to] = r /\ toRow[r] = balance[i.to]
  /\ pc[r] \in Decided =>
       Committed(i) = {} /\ balance[i.to] + i.amount <= MaxSafe
  /\ pc[r] \in Debited => balance[i.from] >= i.amount
  /\ tx[r].transfers = IF pc[r] \in Inserted THEN {Row(r)} ELSE {}
  /\ \A a \in Accounts :
       tx[r].balance[a] =
         IF pc[r] \in Debited /\ a = i.from THEN balance[a] - i.amount
         ELSE IF pc[r] \in Credited /\ a = i.to THEN balance[a] + i.amount
         ELSE NoWrite

InductiveInv ==
  /\ TypeOK
  /\ \A r \in Requests : RequestInv(r)
  /\ \A t \in transfers : pc[t.id] = "done"
  /\ OncePerKey /\ RefusedMovesNothing /\ ReplyTruth

\* A retry is never refused for lack of funds or headroom once the transfer it
\* repeats has been committed: the replay comes before the mutable checks.
RetryNeverRefused ==
  [][\A r \in Requests :
       reply[r] = None /\ reply'[r] \in MutableRefusals => Committed(req[r]) = {}]_vars

\* A notification appears together with its transfer and records the balance
\* the account has at that very moment; both parties get one, and each is
\* announced in the same step.
NotificationsMatchCommit ==
  [][/\ \A n \in notifications' \ notifications :
          /\ n.balance = balance'[n.account]
          /\ [transfer |-> n.transfer, owner |-> Owner[n.account]] \in wakeups'
     /\ \A t \in transfers' \ transfers :
          \E s, d \in notifications' \ notifications :
            /\ s.transfer = t.id /\ s.account = t.from /\ s.direction = "sent"
            /\ d.transfer = t.id /\ d.account = t.to /\ d.direction = "received"
     /\ \A w \in wakeups' : \E t \in transfers' : t.id = w.transfer]_vars

\* Every accepted request is answered, without any timeout: opposing transfers
\* do not deadlock on the row locks, and no transaction waits for a pool
\* connection that only waiting transactions hold.
EveryRequestAnswered == \A r \in Requests : pc[r] = "source" ~> pc[r] = "done"

\* The abstract ledger sees the committed rows only.
Moved == {[from |-> t.from, key |-> t.key, to |-> t.to, amount |-> t.amount] : t \in transfers}
L == INSTANCE Ledger WITH moved <- Moved

\* TransferTx with its locks, retries, failures and lost acknowledgements
\* implements a ledger in which a transfer is one indivisible step that
\* happens at most once for a key.
ImplementsLedger == L!LedgerSpec
=============================================================================
