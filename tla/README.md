# A formal model of simplebank

This directory specifies the core logic of simplebank in TLA+: what happens to
money, sessions and notifications when requests interleave, fail half-way, are
retried, or arrive late. TLC checks the modules on small instances; the proof
modules establish the most important results for every value of the constants.
Every definition is translated from the Go, SQL, TypeScript and Svelte sources;
`PROJECT.json` maps each definition to the lines it stands for.

## 1. The system

simplebank is one Go binary (API server, River worker, notification listener)
over PostgreSQL, and a Svelte single-page client.

| Component | Sources | State it keeps | Operations |
|---|---|---|---|
| Transfers and accounts | `internal/db/transfer_tx.go`, `account_tx.go`, `internal/api/transfer.go`, `account.go` | accounts, transfers, entries, notification rows, row locks | open an account, transfer with an idempotency key, replay, list |
| Sessions and tokens | `internal/db/session_tx.go`, `internal/api/user.go`, `session_cookie.go`, `internal/token` | sessions (refresh-token digest, expiry, blocked), the browser's cookie | login, renew (rotation), logout |
| Browser authentication | `frontend/src/lib/stores/auth.svelte.ts`, `lib/api/client.ts` | access token in memory, session generation, the single in-flight refresh | login, refresh, logout, retry of a 401 |
| Notification delivery | `internal/notification/hub.go`, `listener.go`, `internal/api/notification.go` | LISTEN connection, subscribers and their 16-slot buffers, open SSE streams | publish, subscribe, stream, reconnect, stop |
| Notification store | `frontend/src/lib/stores/notifications.svelte.ts`, `lib/api/sse.ts` | items, unread count, cursor, toasts, queue of mutations, reconciliation | reconcile, page, mark read, mark all read, stream loop |
| Notification queries | `internal/db/notification_tx.go`, `query/notifications.sql` | notification rows, advisory owner lock | list page with count, mark one, mark all |
| Registration and e-mail verification | `internal/db/user_tx.go`, `verify_email_tx.go`, `internal/worker`, `internal/api/user.go` | users, verify_emails, River jobs | register, send code (retried job), verify, resend |
| Transfer form | `frontend/src/lib/pages/TransferPage.svelte` | idempotency key, the intent bound to it, the promise it waits for | open, submit, retry, change the form, leave |
| Account inventory | `frontend/src/lib/stores/accounts.svelte.ts` | items, load state, request sequence | load, create, reset |
| Process lifecycle | `cmd/app/main.go` | database pool and who closes it, running services | build, start, signal, ordered shutdown |
| Configuration, mail, presentation | `internal/config`, `internal/mail`, `internal/password`, Svelte components | none that changes | parse, format, render |

How they interact. The client calls the API with an access token; a 401 makes it
renew the session once and retry. `TransferTx` inserts two notification rows and
two `pg_notify` messages in the money-moving transaction; PostgreSQL delivers
them at commit to the listener, which publishes them to the hub, which wakes the
owner's SSE streams; the client answers a wake-up by re-reading the
notification page. Registration inserts a River job in the transaction that
inserts the user; the worker sends the code.

What is hard, and what must be true in spite of it:

* **Transfers.** Concurrent attempts with one key, opposing transfers, a daily
  cap read while others spend, a commit whose acknowledgement is lost, a request
  that times out between two statements. The books must balance, a key must move
  money at most once, a retry must be answered with the original transfer, no
  limit may be jointly exceeded, and nobody may wait for ever.
* **Sessions.** Two tabs renewing with one cookie, a logout racing a renewal, a
  renewal whose response is lost or arrives after the logout's. A refresh token
  must be redeemable once, and a logged-out session must stay dead.
* **Notification delivery.** A commit while a stream is being opened, a full
  subscriber buffer, a lost LISTEN connection, a stopping process. A committed
  notification must eventually be re-read by a connected client.
* **Notification store.** Reads and mutations answered out of order, an account
  switch in mid-request, a roll-back of an optimistic mark.
* **Registration.** A job that runs twice leaves two valid codes; a code must be
  usable once and before its expiry, and a registered user must get one. Two
  registrations of one address meet: only an owner may be told of the other.
* **Transfer form.** A response is lost, the user submits again, edits, goes away
  and comes back. An intent must move its money once however often it is
  submitted, and no submission may be answered with another's transfer.
* **Account inventory.** Loads begun by a page, by a receipt and by a
  notification overtake each other while an account is created. What is shown at
  rest must be what the database holds.
* **Lifecycle.** A failure half-way through start-up; a signal during it; a
  service outliving its pool; the close of the pool waiting for a connection.

## 2. Modules

| Module | What it is | Models |
|---|---|---|
| `Ledger` | abstract: accounts, indivisible transfers, at most one per source and key | what `Transfers` promises |
| `Transfers` | `createTransfer`, `TransferTx`, `createAccount`, `CreateAccountTx`, and the PostgreSQL behaviour they use | one process per request, one action per SQL statement |
| `Sessions` | login, renewal and logout against an arbitrary client | one process per call; row lock, digest, expiry |
| `BrowserAuth` | extends `Sessions` with the browser's tabs, its one cookie, and the auth store and client of the SPA | calls are the HTTP requests of `Sessions` |
| `Service` | abstract: what a start/stop service promises its caller | the contract `Lifecycle` relies on |
| `Listener` | `notification.Listener`: `Start`, its goroutine, `Stop` | implements `Service` |
| `Lifecycle` | `buildApp`, `runServe`, `runServices`, `startService` of `cmd/app` | two instances of `Service` (listener and River), HTTP server, pool |
| `Delivery` | NOTIFY, LISTEN, hub, SSE stream, the client's stream loop and reconciliation | one owner, several tabs and replicas |
| `Registration` | registration, the notice to an address that is taken, verification codes, resend, and River's work on the jobs | calls and jobs over one clock |
| `Notifications` | the history of one owner on the server and one tab's store over it | reconciliation, `loadMore`, the queue of marks, two mark transactions |
| `Inventory` | extends `Ledger`, as the server, with `AccountsStore` and what calls it | loads, a creation, the reconciliation's load |
| `TransferForm` | extends `Inventory` with the transfer page | composes form, inventory and server |
| `TransfersProofs`, `ListenerProofs`, `LifecycleProofs`, `DeliveryProofs`, `RegistrationProofs`, `TransferFormProofs`, `NotificationsProofs` | theorems of the module they extend | |
| `BrowserAuthProofs` | theorems of `Sessions`, for any client, and of `BrowserAuth`, which extends it | |
| `MC...` | constants, inputs and symmetry for TLC | |

A handler is a process: its program counter names the statement or the network
step it is about to take, and everything the code does up to the next such step
belongs to the action. Between two actions any other process may run. Failures
(an expired context, a lost connection, a crash) are actions of their own,
enabled at every step at which the code can meet them.

### Transfers

`pc[r]` walks through the handler (`CheckSource`, `CheckDestination`: reads
without lock) and through `TransferTx` (`Lookup` and `Replay` of the fast path,
`Begin`, `LockFirst`, `LockSecond`, `Relookup` with the checks that follow it,
`CheckDailyLimit`, `CreateTransfer`, `CreateEntries`, `Debit`, `Credit`,
`CreateNotifications`, `Commit`). `tx[r]` holds what the transaction has written
and not committed; `lock` is PostgreSQL's row lock, held to the end of the
transaction; the unique index makes an insert wait for an uncommitted equal key.
`Fail` is the 30 s timeout, a cancelled context or a crash: roll-back.
`CommitUnacknowledged` is the commit whose answer is lost. `created_at` is the
start of the transaction while the daily sum uses `clock_timestamp()`, so the
two are different variables (`began[r]`, `now`). `CreateAccountTx` is a single
action: its two inserts are invisible until its commit. An account id stands
for the row's immutable owner and currency.

`Moved` maps the committed rows to `Ledger`: every `Commit` is a `Move`, every
`CreateAccount` an `OpenAccount`, and all else stutters.

### Sessions and BrowserAuth

`Sessions` keeps the session rows, the refresh tokens ever issued and the calls
in progress. Its client is open: it may present any token, also one it should
no longer have. `arg.Now` is taken before the wait for the row lock, so expiry
is decided by an earlier clock than the update. The nonce of the token makes two
issued tokens different. The branch of a renewal for an unverified user and the
not-found branch of a logout are dead in the present code (a verification is
never withdrawn and sessions are never deleted) and are left out.

`BrowserAuth` closes the client: tabs share the cookie, each has its access
token, its session generation and one refresh attempt at a time; a request that
meets a 401 joins or begins the attempt and is retried once. `Faults` names what
may go wrong in an instance (`failure`, `loss`, `expiry`, `reload`). The store's
listeners for an ended session and the router are left out. Resuming a request
after its refresh is a step of its own; this allows more orders than the
microtask queue does.

### Listener, Service and Lifecycle

`Lifecycle` follows `buildApp` (`OpenPool`, `Migrate`, `Build`, `Built`: the pool
is closed by `buildApp` unless it was handed over, `kept`), `runServe`
(`Assemble`) and then the services. Every step of start-up may fail. `held` says
who has a connection of the pool in use: the worker (`worker.NewClient` gives River the
pool) and the requests (`store.New`); the listener dials its own. `pool.Close`
(`ClosePool`, `PoolClosed`) hands out none any more and waits, without a deadline,
until all have come back. That a worker which is over holds none is part of what
is assumed of River.

The listener's mutex makes the sections of `Start`, `Stop` and of the
goroutine's exit atomic; dialling, `LISTEN` and waiting are steps between which
others run. `Service` says what a caller may rely on: `Stop` returns only when
what it found running no longer runs, and a start is refused while one is up.
`Lifecycle` is built on that contract alone, once for the listener and once for
the River client, for which it is an assumption.

### Delivery

A wake-up carries an id which the client does not use, so queues, channels and
the stream are counts. `Publish` drops at a full channel; `Outage` loses the
LISTEN connection with everything queued for it; `Crash` and `Boot` are
restarts; `Deadline` ends a stream with its access token. On the client,
`Reconcile` starts a reconciliation or records one queued reason, and the loop's
exit is atomic with the reset of `reconciliation` because no `await` separates
them. `missed` is a history variable: the tabs whose replica was not listening
at a commit. What the pages hold is in `Notifications`.

### Notifications

The client's store is three processes over shared fields: the reconciliation
(`round`, with the one `queued` reason), `loadMore` (`more`) and the head of the
queue of mutations (`mark`, `todo`). A request is a step to be served and a step
to be answered, so that answers overtake each other; what runs between two
`await`s is one action. The code compares epochs; here a process remembers
that a mutation succeeded (`mutated`) or a round began (`superseded`) since its
request was sent, which is the same comparison. On the server a mark is the
owner's advisory lock and the update, the count, and the commit, each under its
own snapshot. A mark whose request fails may have been rolled back, be
committed, or go on without its client; `tx["other"]` is that transaction or
another tab's. A row is its rank in `(created_at, id)`, which need not be the order
of the commits. What is shown is a set of rows: a gap between pages is
found, an order of the list other than by rank is not modelled. Two history variables say what nobody tells the tab:
`elsewhere`, rows first marked by another, and `regressed`, that the count was
replaced by an older answer (see section 5). A process that waits for the
reconciliation resumes in a step of its own, which allows more orders than the
microtask queue does. The account activity of a toast, its timer and the reset
at a change of session are left out.

### Registration

A call is a process as in `Sessions`; a job walks through its stages by River's
rules: fetched, worked, completed, or failed at any point (also after its mail
was accepted, which is how a second valid code comes to exist) and tried again
until `MaxAttempts`. `Insert` is River's unique insert: a job with the same
arguments and period is dropped unless the earlier one was discarded. `inbox`
holds the codes whose link was mailed, the only codes anyone can present; a
code that was stored and never mailed is forgotten with its attempt. One clock
is assumed for River, which cuts the periods, and PostgreSQL, which dates the
codes: with the periods of this code, both fifteen minutes, `DuplicateCovered`
holds with nothing to spare.

An insert that meets an uncommitted row of the same name or address waits for
that transaction's end (`InsertWaits`), which is what keeps a notice from being
queued for an address that nobody owns after all (`NoticeToOwner`). The job of a
notice changes no table, so it is worked in one step; a discarded one is as good
as none, for River's unique insert lets another in.

### Inventory and TransferForm

The server is `Ledger`: a request is served by one indivisible transfer or
replay, which is what `Transfers` is shown to implement. `load` and `post` are
slots for requests: sent, served and answered are three steps, so answers
overtake each other, and a request whose page or session is gone is still served
or never arrives. `newest` is the load to which `#loadSequence` belongs.
`reconciling` is the load a notification's reconciliation awaits; the page and
the notification store each decide whether to begin one, and that is all the
inventory sees of them. A refusal by the server looks to the client like a
request that failed and never arrived, so it is one. One creation is under way
at a time. This is a bound of the model: a mounted `NewAccountPage` keeps to it
(`submitting`), but a user who leaves the page and returns can create a second
account while the first creation is under way.

`form` is the page: its key, the intent the key is bound to, and what
`handleSubmit` awaits, the transfer or the load after its receipt. A request
keeps whose promise it is: this page's, a page's that was left (it still loads
the inventory when its receipt comes), or nobody's. `randomUUID` numbers the
keys. Three history variables: `attempt` counts what the user would call a new
transfer (after a receipt, with another intent, on another page), `sent` is what
was sent in which attempt, and `unsure` says that something happened of which the
store was not told, or a creation crossed a load, and no load has begun since.
The checks of the input fields and the wording of errors are left out.

## 3. Runs

| Run | Question | States | Bounds |
|---|---|---|---|
| `transfers_race` | do money, keys, replies, notifications stay consistent and does `Transfers` implement `Ledger`? | 269 000 | 3 requests, 2 accounts, 3 intents, clock 0..2, window 1 |
| `transfers_edge` | are only authorised and matching transfers committed, is an answer reliable, and is every request answered without its timeout? | 61 000 | 2 requests, 4 accounts, 9 intents |
| `browser_tabs` | does a tab ever show another identity's data, can a token be redeemed twice, a blocked session renewed, or an answered sign-out undone? | 852 000 | 2 tabs, 2 users, 2 calls, 3 tokens, generation 2, reloads |
| `browser_faults` | does a tab lose its session by its own doing, revive one signed out, or leave a request waiting for nothing? | 1 070 000 | 2 tabs, 1 user, 2 tokens, all faults |
| `listener` | one connection, contract kept, `Stop` returns, a lost connection replaced | 17 000 | 3 `Start`, 2 `Stop` |
| `lifecycle_order` | is the pool closed, last and once, in whatever way start-up fails or is interrupted, and does a signal end the process, or what keeps it? | 760 | none: the system is fixed |
| `lifecycle_shutdown` | the claim that shutdown stops every service before the pool | violated | none |
| `delivery` | is a tab that is behind about to be told, and does it read everything in the end? | 59 000 | 1 tab, 2 replicas, channel 1, 2 commits |
| `registration` | is a registered user sent a code, a code good once, and only an owner told of an attempt on his address? | 731 000 | 2 names, 1 address, 2 calls, 2 periods, 2 attempts |
| `notifications` | once nothing is under way, does the tab show what the database holds, has it shown each toast once, and does it come to rest? | 1 015 000 | 3 rows, pages of one, 3 inputs |
| `notifications_count` | the claim that the unread count does not regress | violated | 2 rows, 2 inputs |
| `transfer_form` | does an attempt move its money once, and is what is shown at rest what the ledger holds? | 1 836 000 | 1 account to open, 1 of another's, 2 intents, 2 keys, 2 loads, 2 posts |

`Sessions` has no run of its own: `browser_tabs` checks its properties with the
browser as the client, and its theorems hold for any client.

Why the bounds are enough. Two requests suffice for every conflict on a key, a
row lock or a token, and a third stands for what happens meanwhile (another
debit, a retry after a lost acknowledgement, a logout during two renewals). Two
accounts give both lock orders; four give every refusal. A window of one and a
clock of two put a transfer inside, on and outside the boundary. A channel of
one overflows at the second wake-up, as one of sixteen does at the seventeenth;
two replicas let a tab reconnect to another one. One address for two names makes
registrations collide; two periods and two attempts put a retry on both sides
of the boundary that lets a resend through. Three rows on pages of one have a
first, a middle and a last page, and three inputs are a commit, a mark and one
more of either while both are under way. Two posts and two loads are one that is
late and one that is not; two keys and two intents are an attempt after a
receipt, an edit and a way back. What a theorem of section 4
covers holds whatever these numbers are. Bounds on counters (`MaxTime`,
`MaxTokens`, `MaxGen`, `MaxCommits`, `MaxInputs`) are guards named as bounds in the
modules; in `TransferForm` the supply of `Keys` is the bound.

Deadlock is checked where a system at rest is described by an action
(`Quiescent`) or never rests. `CHECK_DEADLOCK FALSE` is set where calls are one-shot
(`Listener`), where the process ends (`Lifecycle`), and where the bound on
tokens or generations ends the run (`browser_tabs`).

Fairness and why the code has it:

* `Transfers`: weak fairness of each request's own steps. The Go runtime runs
  its goroutines and PostgreSQL grants a free lock. None on `Fail`: a request
  does not need its timeout to end.
* `Listener`: goroutines run and a cancelled wait returns; a database dialled
  again and again answers in the end (strong, for `ListensAgain` only).
* `Lifecycle`: the 10 s deadlines expire, and the main goroutine runs once
  signalled: dialling and the migrations end with their context. A request gives
  its connection back: it has a timeout of 30 s (`api/server.go:71-76`), and the one
  without, the stream, uses no connection. Without a signal nothing need happen.
  Nothing is assumed of a service that hangs, and so not that the worker gives its
  connection back: `SignalEnds` names this case (`HeldUp`) instead.
* `Registration`: River works its jobs. Every attempt may fail.
* `Delivery`: processes are restarted, access tokens expire, a request repeated
  while a replica is up is answered in the end. Nothing is assumed of LISTEN.
* `Notifications`: a request is served and answered or fails, a transaction
  ends, a wake-up is delivered. Nothing makes a request succeed.

Every property of a passing run has a mutant in `PROJECT.json`: a definition
altered as a slip in the code would alter it, under which TLC finds that very
property violated.

## 4. Proofs

The theorems hold for every value of the constants allowed by the named
assumptions (`AccountsAssumption`, `LimitsAssumption`, ... in the module that
declares them).

* **Transfers.** The invariants the runs check are not inductive alone: that a
  key is used once rests on what a request in mid-transaction has seen.
  `InductiveInv` adds, for every request, what its `pc` implies: past the locks
  it holds them, past the second lookup no committed transfer has its key, the
  destination row is as it was read, and its writes are those of the statements
  it has run. From it follow `TypeCorrect` (no balance leaves `0 .. MaxSafe`),
  `KeysSpentOnce`, `AnswersAreReliable`, `RetriesAreReplayed` and `Refinement`
  (every step is a `Ledger` step or stutters). `KeysSpentOnce` also shows that the
  unique-violation branch of `TransferTx` is not reached: the row lock of the
  source serialises the attempts first.
  The books rest on a second invariant, `BooksInv`, proved on top of the first:
  what a transaction has staged is what its request asked for, the transfers of
  the day leave room for the one that was checked for as long as its source is
  locked, and what is recorded is what was committed. The sums over rows need no
  induction over data: a set of finite sets that is not empty has a minimal
  member, so a function that sums every subset exists (`SumsExist`), it agrees
  with the fold the properties use, and it does not depend on the order in which
  the fold takes the rows (`SumsTake`). A commit then adds
  one transfer and two entries. From it: `BooksAlwaysBalance`, `DailyCapKept`,
  `PolicyKept` and `NotesMatchCommit`, the last an action property: a transfer,
  its notes and its wake-ups are published together or not at all.
* **Sessions.** `SessionsInv` says that the tokens of a session form a chain and
  that the holder of a row lock sees the row it checked. From it:
  `TokensRedeemedOnce`, `TokensFormChains` and `SignOutEndsSession`: an answered
  sign-out blocks the session, and a blocked session stays so.
* **BrowserAuth.** No property of the client is inductive alone, for a tab's
  fields say little until the calls in flight are counted in. `BrowserInv` has
  three layers. *Identity*: a call that was started under the tab's present
  generation is about its present user; one such renewal exists at most, and it
  is the tab's attempt; a sign-in under way has no other beside it; who waits
  for an attempt does so under the generation of the attempt. From it
  `OnlyOwnDataShown`, `WaitersAreCovered` and, as an action property,
  `SignedOutStaysSo`. *Cookies*: a token in a response that the browser has not
  seen is the last of its session, and neither the jar nor any request holds it.
  From it `JarStaysRenewable`. *Renewals*: an outdated renewal of a tab does not
  hold the cookie with which the tab would renew now; a token that a page has
  redeemed is not the cookie, unless the response that replaces it is on its way
  to a renewal of that very page or was lost. From it `OwnTokenIsSpentOnce`.
  `BrowserRefinesSessions` shows that tabs, network and reloads are one of the
  clients `Sessions` allows, so `BrowserTokensChain` and `BrowserSignOutIsFinal`
  follow from the theorems about the server alone.
* **Listener.** `ListenerInv` ties the fields under the mutex to the goroutines.
  From it: `ListenerTypes` (no channel closed twice), `SingleConnection`,
  `QuietAfterStop` and `Refinement` of `Service`.
* **Lifecycle.** `ShutdownOrder` says nothing of a service that is coming up or
  being stopped, so it is not inductive. `LifecycleInv` adds three things. What
  `Service` keeps of one start and its stops (`Contract`): a run that was not
  stopped goes on, and a stop that returned found nothing or saw the end. And what
  the place of `runServices` implies for each service: not begun while the app is
  built; running from the end of its own start to its own stop; from then on
  *left*, that is never spawned, over, given up, or stopped before it began. The
  last case must be named: such a start can still come up, which is the
  disagreement of section 5. A third part says that a worker with a connection
  is alive, so that only a worker the order excuses can hold up the pool. From it `ServicesGivenUpInOrder`. The steps of a
  service are treated once, as relations between values (`Begins`, `Works`,
  `Proceeds`, `Stopping`), and used for the listener and the worker.
* **Delivery.** `DeliveryInv` adds to `WakeUpComing` that reads are served in
  the order of the commits. From it: `NoWakeUpLost`, `ChannelsBounded`, and
  `ShownGrows`, that a tab's view never goes back.
* **Registration.** `RegistrationInv` has a part for each table that calls and
  jobs share. An insert under way has its name and address for itself; of the
  calls that present a code one at a time is past the lock of its row, and that
  one has seen the row unused; a job has made the code it is about to mail, and
  no other job mails it. That a dropped duplicate deprives nobody of a code
  needs that the code of a completed job outlives the period in which duplicates
  are dropped: `Period <= Lifetime`, assumed as `LifetimeAssumption` and satisfied by
  the code with equality. From it: `MailIsOwed` and `CodeIsRedeemedOnce`.
* **Notifications.** That a tab at rest shows the truth is a statement about the
  end of a long story: pages lag behind the database all the time. So
  `NotificationsInv` says of every page, whether it is in a reply, in the rows a
  round has gathered or on the screen, that its rows are below one another
  without a gap, *or* something under way will see to it: for missing rows a
  wake-up, a queued round or a round that still reads; for a missing flag the
  answer to the mark, or a round that starts after it; for the count the same,
  or one of the two exceptions `CountTrue` names. A reply that is to be dropped
  (`mutated`, `superseded`) need not be current, and every other reply of
  `loadMore` was asked for at the cursor that is shown. `NewestUpward` and
  `NewestLeavesOlder` prove of `ListNotifications` what pagination rests on: the
  rows of a page are the newest of those below its cursor, and a next cursor means that
  older ones exist. `PagesReadOn` then joins the pages of a round into one. From
  it: `HistoryIsTrue`, `CountsAreUnderTheLock`, `RowsAreToastedOnce`.
* **TransferForm.** `FormInv` has three parts. About the store: either the items,
  or the answer the store will accept when it comes, are those of the ledger,
  unless `unsure`; and an account under creation is the one difference allowed.
  About the page: it waits for one promise at most. About keys: the key in hand
  belongs to the present attempt, and keys, attempts and intents determine each
  other in what was sent, so a second movement for an attempt would be a second
  one for a key, which `Ledger` does not make. From it: `AttemptsMoveOnce` and
  `ShownAtRestIsTrue`, for any number of loads and posts.

Model-checked only: everything under fairness (`EveryRequestAnswered`,
`StopReturns`, `ListensAgain`, `SignalEnds`, `EventuallySeen`, `CodeArrives`,
`ComesToRest`), which the provers do not reach. Every invariant, action property
and refinement that a run of section 3 expects to hold is a theorem.

## 5. Findings

* **A service started by a signalled process** (`lifecycle_shutdown`). ADR-0007
  lines 30-31 says that shutdown stops HTTP, River and the listener and then
  closes the pool. When the signal arrives after `startService` has spawned the
  goroutine of `Start` and before its first step, `Stop` finds nothing to stop,
  the context with which the code would wait for `Start` is already cancelled,
  and `runServices` may return while `Start` brings the service up on a pool
  that is being closed.
* **An unread count older than the rows beside it** (`notifications_count`). The
  answer of `markRead` replaces the count unconditionally
  (`notifications.svelte.ts:280`). If a row arrived after that answer was counted
  and a newer page with that row was shown before the answer came, the count
  loses the row, and stays wrong until something else causes a read. The audit
  (`docs/audits/go-backend-svelte-frontend.md:146`) asks that "global metadata
  must not regress behind a newer snapshot" and lists the item as done. Rows and
  flags are right all the same (`HistoryTrue`, whose part on the count excepts
  exactly this case and the marks of another tab).

A signal does not always end the process. `pool.Close`, deferred by `runServe`
(`main.go:197-200`), has no deadline and waits for every connection in use. A worker
that ignored `Stop` and `StopAndCancel`, or that came up after a `Stop` that found
nothing, may keep one, and then the process hangs in the close until it is
killed. `SignalEnds` shows that nothing else keeps it: without this exception TLC
finds the property violated in either of the two cases, and with weak fairness of
`Release("worker")` it holds without the exception. No document claims the contrary:
ADR-0006, lines 18-20 and 38, bounds the time River is given, not the close of the
pool.

Two comments describe a mechanism that never acts, though what they promise
holds: ADR-0005 and `transfer_tx.go:163` say that the loser of a race on a key
meets the unique violation, but the source row lock makes it find the winner
in its second lookup. A browser tab that loses a race of two tabs to renew one
cookie is signed out, which is stated nowhere and is what the code does.

ADR-0005, lines 51-52, says that the client "holds one key stable across retries
and rotates it only after a confirmed receipt". The form also rotates it when the
intent changes (`TransferPage.svelte:123`) and draws another when the page is
opened again. So a transfer whose response was lost is made a second time if the
user edits the form, submits, and goes back to the first intent, or leaves the
page and comes back; the late answer of an account creation takes him away from it
too (`NewAccountPage.svelte:111`). `RetriesAreSafe` states what the code does
promise: once per attempt, an attempt ending at a receipt, at another intent or
with the page. The audit, line 242, knows of the page and calls it no violation.

By design, and worth knowing: when a verification mail is lost after the mail
server accepted it, a resend within the same fifteen minutes answers 202 and
sends nothing (`DuplicateCovered` counts the lost mail's code as available), and
a verification whose response is lost shows "invalid link" on its retry although
the address is verified. When a creation of an account crosses a load of the
inventory, the account may be shown twice, or not until the next load: the items
of the load replace the appended one or are appended to (`unsure` in
`InventoryTrue`). The dashboard adds up what the store holds and uses the
account's id as the key of its list.

## 6. Not modelled, and why

* **The account activity, the five seconds of a toast and the reset at a change of
  session** in the notification store. The first is a number that makes an open
  history page read again, the second a timer that removes a shown toast, and the
  third follows the generation counter that `BrowserAuth` has; together they
  multiply the states of `Notifications`, which has a million already.
* **Liveness of the browser's requests.** A request ends when `fetch` does, which
  would be the assumption and the conclusion; `WaitersCovered` checks the part
  that is the code's, that no request waits for a refresh that is over.
* **The input fields** of the forms: what they let through is the set of intents.
* **Listings** of accounts and entries: read-only queries of committed rows.
* **Passwords, secrets and signatures** are ideal: a password is right or wrong,
  a token or code cannot be guessed. Parsing, configuration, SMTP, rendering,
  routing and formatting keep no state that a property here is about.
* **PostgreSQL, River, Echo and the browser** are modelled from how the code
  uses them (`external` in `PROJECT.json`): row locks, unique indexes, NOTIFY at
  commit, unique jobs with retries, `fetch`, the cookie jar.

## 7. Plan

Done, in this order: `Ledger`, `Transfers`; `Sessions`, `BrowserAuth`;
`Service`, `Listener`, `Lifecycle`; `Delivery`; `Registration`; `Notifications`;
the notice in `Registration` and the building of the process in `Lifecycle`;
`Inventory`, `TransferForm` and their proofs; the proofs about `Registration`,
the books of `Transfers`, `BrowserAuth`, `Notifications` and `Lifecycle`.

1. `Notifications`: the account activity and the reset at a change of session.
