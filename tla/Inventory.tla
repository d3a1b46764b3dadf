------------------------------ MODULE Inventory ------------------------------
(***************************************************************************)
(* AccountsStore: the accounts the single-page application shows its user. *)
(* It is read by the pages, by the reconciliation that follows a           *)
(* notification and after a transfer, and a new account is appended to it. *)
(* The server is Ledger.                                                   *)
(*                                                                         *)
(* A request is sent, served and answered in separate steps, so that        *)
(* answers overtake each other; what runs between two awaits is one action. *)
(***************************************************************************)
EXTENDS Ledger, Sequences

CONSTANTS
  None,
  Own,         \* the user's accounts, one for each currency
  Opened,      \* the accounts that exist at the start
  Deposit,     \* the deposit with which another is opened
  Incoming,    \* the transfers others may make to the user
  Loads        \* what bounds the loads under way at a time

ASSUME InventoryAssumption ==
  /\ Own \subseteq Accounts /\ Opened \subseteq Accounts /\ MaxSafe \in Nat
  /\ Deposit \in 0 .. MaxSafe
  /\ Incoming \subseteq Movement /\ None \notin Loads \union Own

VARIABLES
  store,        \* items, loading, error, loaded
  load,         \* the requests of load()
  newest,       \* the load that #loadSequence belongs to, None when it ended
  creation,     \* the request of create()
  wake,         \* a notification is on its way to the client
  reconciling,  \* the load that the notifications' reconciliation awaits
  unsure        \* history: something happened that the store is not told of,
                \* and no load has begun since

storeVars == <<store, load, newest, creation, wake, reconciling, unsure>>

\* An account is shown as often as it is in items, each time with a balance.
Items == [Own -> Seq(0 .. MaxSafe)]

NoItems == [a \in Own |-> <<>>]

EmptyStore == [items |-> NoItems, loading |-> FALSE, error |-> FALSE, loaded |-> FALSE]

NoLoad == [stage |-> "idle", items |-> NoItems]
NoCreation == [account |-> None, stage |-> "idle", heard |-> FALSE]

\* listAccounts
Listing == [a \in Own |-> IF a \in open THEN <<balance[a]>> ELSE <<>>]

-----------------------------------------------------------------------------
(* load()                                                                  *)

StartLoad(l) ==
  /\ load[l].stage = "idle"
  /\ load' = [load EXCEPT ![l] = [stage |-> "sent", items |-> NoItems]]
  /\ newest' = l
  /\ store' = [store EXCEPT !.loading = TRUE, !.error = FALSE]
  /\ unsure' = (creation # NoCreation)

\* A page is opened that needs the inventory, or the user asks for it again.
LoadForPage(l) ==
  /\ ~store.loaded \/ store.error
  /\ StartLoad(l)
  /\ UNCHANGED <<ledgerVars, creation, wake, reconciling>>

ServeLoad(l) ==
  /\ load[l].stage = "sent"
  /\ load' = [load EXCEPT ![l] = [stage |-> "served", items |-> Listing]]
  /\ UNCHANGED <<ledgerVars, store, newest, creation, wake, reconciling, unsure>>

\* Defect: an answer is accepted whichever load it belongs to.
AnyLoad(l) == TRUE

Newest(l) == l = newest

\* The load is answered, or its request fails.
EndLoad(l) ==
  /\ load[l].stage # "idle"
  /\ \/ load[l].stage = "served" /\ store' = IF Newest(l)
          THEN [store EXCEPT !.items = load[l].items, !.loaded = TRUE, !.loading = FALSE]
          ELSE store
     \/ store' = IF Newest(l) THEN [store EXCEPT !.error = TRUE, !.loading = FALSE] ELSE store
  /\ load' = [load EXCEPT ![l] = NoLoad]
  /\ newest' = IF newest = l THEN None ELSE newest
  /\ reconciling' = IF reconciling = l THEN None ELSE reconciling
  /\ UNCHANGED <<ledgerVars, creation, wake, unsure>>

-----------------------------------------------------------------------------
(* The reconciliation of the notifications, seen from here.                *)

\* It has read its page and loads the accounts ...
Reconcile(l) ==
  /\ wake /\ reconciling = None
  /\ StartLoad(l)
  /\ wake' = FALSE /\ reconciling' = l
  /\ UNCHANGED <<ledgerVars, creation>>

\* ... or it never comes to that: the wake-up was lost, or the page not read.
LoseWake ==
  /\ wake
  /\ wake' = FALSE /\ unsure' = TRUE
  /\ UNCHANGED <<ledgerVars, store, load, newest, creation, reconciling>>

\* A transfer by another user, of which both are notified.
Receive(m) ==
  /\ m \in Incoming
  /\ Move(m)
  /\ wake' = TRUE
  /\ UNCHANGED <<store, load, newest, creation, reconciling, unsure>>

-----------------------------------------------------------------------------
(* create()                                                                *)

\* The form is disabled while the inventory is not ready, and offers the
\* currencies the user has no account in.  One creation at a time is a bound: the
\* code keeps to it while one page stays mounted.
SubmitAccount(a) ==
  /\ store.loaded /\ ~store.loading /\ ~store.error
  /\ creation = NoCreation
  /\ store.items[a] = <<>>
  /\ creation' = [account |-> a, stage |-> "sent", heard |-> TRUE]
  /\ UNCHANGED <<ledgerVars, store, load, newest, wake, reconciling, unsure>>

\* The client that gave up will not hear of the account.
ServeCreation ==
  /\ creation.stage = "sent"
  /\ OpenAccount(creation.account, Deposit)
  /\ creation' = IF creation.heard THEN [creation EXCEPT !.stage = "opened"] ELSE NoCreation
  /\ unsure' = (unsure \/ ~creation.heard)
  /\ UNCHANGED <<store, load, newest, wake, reconciling>>

EndCreation ==
  /\ creation.stage = "opened"
  /\ store' = [store EXCEPT !.items[creation.account] = Append(@, Deposit)]
  /\ creation' = NoCreation
  /\ UNCHANGED <<ledgerVars, load, newest, wake, reconciling, unsure>>

\* Nobody waits for the request any more: it matters until it was served.
Unheard == IF creation.stage = "sent" THEN [creation EXCEPT !.heard = FALSE] ELSE NoCreation

\* The client sees an error: a refusal, or a request that may yet be served.
LoseCreation ==
  /\ creation.heard
  /\ creation' = Unheard
  /\ unsure' = (unsure \/ creation.stage = "opened")
  /\ UNCHANGED <<ledgerVars, store, load, newest, wake, reconciling>>

\* A request nobody waits for is refused, or never arrives.
DropCreation ==
  /\ creation.stage = "sent" /\ ~creation.heard
  /\ creation' = NoCreation
  /\ UNCHANGED <<ledgerVars, store, load, newest, wake, reconciling, unsure>>

-----------------------------------------------------------------------------
\* The session ends and the user signs in again: reset(), what was asked for
\* before is ignored, and the notifications begin with a reconciliation.
Reset ==
  /\ store' = EmptyStore
  /\ newest' = None /\ reconciling' = None /\ wake' = TRUE
  /\ creation' = Unheard
  /\ unsure' = (unsure \/ creation.stage = "opened")
  /\ UNCHANGED <<ledgerVars, load>>

InventoryInit ==
  /\ open = Opened
  /\ balance = [a \in Accounts |-> IF a \in Opened THEN Deposit ELSE 0]
  /\ moved = {}
  /\ store = EmptyStore
  /\ load = [l \in Loads |-> NoLoad]
  /\ newest = None
  /\ creation = NoCreation
  /\ wake = TRUE
  /\ reconciling = None
  /\ unsure = FALSE

InventoryTypeOK ==
  /\ open \subseteq Accounts
  /\ balance \in [Accounts -> 0 .. MaxSafe]
  /\ moved \subseteq Movement
  /\ store \in [items : Items, loading : BOOLEAN, error : BOOLEAN, loaded : BOOLEAN]
  /\ load \in [Loads -> [stage : {"idle", "sent", "served"}, items : Items]]
  /\ creation \in [account : Own \union {None}, stage : {"idle", "sent", "opened"},
                   heard : BOOLEAN]
  /\ wake \in BOOLEAN /\ unsure \in BOOLEAN
  /\ store.loading <=> newest # None
  /\ \A l \in {newest, reconciling} \ {None} : l \in Loads /\ load[l].stage # "idle"

\* When nothing is under way and nothing failed, every account of the user is
\* shown once with its balance, in whatever order loads were answered: unless
\* a notification or the answer to a creation was lost, or a creation
\* overlapped a load, and no load has begun since.
InventoryTrue ==
  store.loaded /\ ~store.loading /\ ~store.error /\ ~wake /\ ~unsure /\ creation = NoCreation
    => store.items = Listing
=============================================================================
