---------------------------- MODULE TransferForm -----------------------------
(***************************************************************************)
(* The transfer form of the single-page application: an idempotency key and *)
(* the intent it is bound to, over the inventory it shows and refreshes.   *)
(*                                                                         *)
(* A request can be lost on its way, be served although its client has     *)
(* given up, or be answered to a page that was left.  The server is the    *)
(* indivisible transfer of Ledger, which Transfers implements.             *)
(***************************************************************************)
EXTENDS Inventory

CONSTANTS
  Intents,     \* what the user may wish to transfer
  Posts        \* what bounds the requests for a transfer under way at a time

Intent == [from : Own, to : Accounts, amount : 1 .. MaxSafe]

ASSUME FormAssumption ==
  /\ Keys \subseteq Nat /\ None \notin Keys /\ None \notin Intents
  /\ Intents \subseteq Intent
  /\ \A i \in Intents : i.from # i.to
  /\ \A m \in Incoming : m.from \notin Own

VARIABLES
  form,        \* the state of TransferPage
  post,        \* the requests for a transfer
  drawn,       \* how many keys randomUUID has returned: they are numbered
  attempt,     \* history: the user's present attempt: its number and intent
  sent         \* history: what was sent under which key in which attempt

vars == <<ledgerVars, storeVars, form, post, drawn, attempt, sent>>
formVars == <<form, post, drawn, attempt, sent>>

Form == [key : Keys \union {None},         \* idempotencyKey, None: not on this page
         keyed : Intents \union {None},    \* keyedIntent
         submitting : BOOLEAN,
         wait : Loads \union {None}]       \* the load that follows a receipt

LeftForm == [key |-> None, keyed |-> None, submitting |-> FALSE, wait |-> None]

Post == [stage : {"idle", "sent", "ok", "conflict"},
         intent : Intents \union {None}, key : Keys \union {None},
         page : {"this", "left", "gone"}]  \* whose promise it is

NoPost == [stage |-> "idle", intent |-> None, key |-> None, page |-> "gone"]

\* randomUUID: a key never drawn before.
NewKey(k) == k = drawn + 1 /\ drawn' = k

\* history: a receipt, another intent or another page begins another attempt.
NextAttempt(i) == attempt' = [number |-> attempt.number + 1, intent |-> i]

-----------------------------------------------------------------------------
\* The page is opened.  It loads the inventory if there is none to show.
OpenForm(k, l) ==
  /\ form.key = None
  /\ NewKey(k)
  /\ form' = [LeftForm EXCEPT !.key = k]
  /\ NextAttempt(None)
  /\ IF ~store.loaded \/ store.error
       THEN StartLoad(l) /\ UNCHANGED <<creation, wake, reconciling>>
       ELSE UNCHANGED storeVars
  /\ UNCHANGED <<ledgerVars, post, sent>>

\* What a page that is left sent goes on without it.
LeftPosts == [p \in Posts |-> IF post[p].page = "this" THEN [post[p] EXCEPT !.page = "left"]
                                                     ELSE post[p]]

\* Nobody waits for this request any more: it matters until it was served.
Forgotten(r) == IF r.stage = "sent" THEN [r EXCEPT !.page = "gone"] ELSE NoPost

LeaveForm ==
  /\ form.key # None
  /\ form' = LeftForm
  /\ post' = LeftPosts
  /\ UNCHANGED <<ledgerVars, storeVars, drawn, attempt, sent>>

\* Defect: a key that was sent once is replaced.
KeyOnce(i) == form.keyed = None

\* The key in hand can be used: it was not yet, or for the same intent.
KeyFits(i) == form.keyed \in {None, i}

\* handleSubmit up to its request.
Submit(p, i, k) ==
  /\ form.key # None /\ ~form.submitting
  /\ store.loaded /\ store.items[i.from] # <<>>
  /\ post[p].stage = "idle"
  /\ IF KeyFits(i) THEN k = form.key /\ UNCHANGED drawn ELSE NewKey(k)
  /\ form' = [form EXCEPT !.key = k, !.keyed = i, !.submitting = TRUE]
  /\ post' = [post EXCEPT ![p] = [stage |-> "sent", intent |-> i, key |-> k, page |-> "this"]]
  /\ IF attempt.intent \in {None, i} THEN attempt' = [attempt EXCEPT !.intent = i]
                                     ELSE NextAttempt(i)
  /\ sent' = sent \union {[key |-> k, intent |-> i, attempt |-> attempt'.number]}
  /\ UNCHANGED <<ledgerVars, storeVars>>

AsMovement(i, k) == [from |-> i.from, key |-> k, to |-> i.to, amount |-> i.amount]

\* The server makes the transfer, replays it or finds the key used for another
\* one; both parties are notified of what it makes.  (A refusal is a request
\* that fails and never arrives.)
ServePost(p) ==
  LET m == AsMovement(post[p].intent, post[p].key)
      Answer(stage) ==
        post' = [post EXCEPT ![p] = IF @.page = "gone" THEN NoPost ELSE [@ EXCEPT !.stage = stage]]
  IN
  /\ post[p].stage = "sent"
  /\ \/ Move(m) /\ wake' = TRUE /\ Answer("ok")
     \/ /\ ~Fresh(m) /\ Answer(IF m \in moved THEN "ok" ELSE "conflict")
        /\ UNCHANGED <<ledgerVars, wake>>
  /\ UNCHANGED <<store, load, newest, creation, reconciling, unsure, form, drawn, attempt, sent>>

\* The receipt: the next transfer is a new intent, and the inventory is loaded
\* again, by a page that was left too.
Confirm(p, k, l) ==
  /\ post[p].stage = "ok" /\ post[p].page # "gone"
  /\ post' = [post EXCEPT ![p] = NoPost]
  /\ StartLoad(l)
  /\ IF post[p].page = "this"
       THEN /\ NewKey(k)
            /\ form' = [form EXCEPT !.key = k, !.keyed = None, !.wait = l]
            /\ NextAttempt(None)
       ELSE /\ k = post[p].key      \* nobody sees the left page's new key
            /\ UNCHANGED <<form, drawn, attempt>>
  /\ UNCHANGED <<ledgerVars, creation, wake, reconciling, sent>>

\* The client sees an error: the key is kept.  The request may be under way.
FailPost(p) ==
  /\ post[p].stage # "idle" /\ post[p].page # "gone"
  /\ form' = IF post[p].page = "this" THEN [form EXCEPT !.submitting = FALSE] ELSE form
  /\ post' = [post EXCEPT ![p] = Forgotten(@)]
  /\ UNCHANGED <<ledgerVars, storeVars, drawn, attempt, sent>>

\* A request nobody waits for never arrives.
DropPost(p) ==
  /\ post[p].stage = "sent" /\ post[p].page = "gone"
  /\ post' = [post EXCEPT ![p] = NoPost]
  /\ UNCHANGED <<ledgerVars, storeVars, form, drawn, attempt, sent>>

\* The load after a receipt ends, and handleSubmit with it.
EndAnyLoad(l) ==
  /\ EndLoad(l)
  /\ form' = IF form.wait = l THEN [form EXCEPT !.submitting = FALSE, !.wait = None] ELSE form
  /\ UNCHANGED <<post, drawn, attempt, sent>>

\* A created account takes the user to the dashboard, wherever he went.
EndCreationAtHome ==
  /\ EndCreation
  /\ form' = LeftForm
  /\ post' = LeftPosts
  /\ UNCHANGED <<drawn, attempt, sent>>

\* The session ends: pages are closed and their promises rejected.
SignOut ==
  /\ Reset
  /\ form' = LeftForm
  /\ post' = [p \in Posts |-> Forgotten(post[p])]
  /\ UNCHANGED <<drawn, attempt, sent>>

Init ==
  /\ InventoryInit
  /\ form = LeftForm
  /\ post = [p \in Posts |-> NoPost]
  /\ drawn = 0
  /\ attempt = [number |-> 0, intent |-> None]
  /\ sent = {}

OfInventory ==
  \/ LoseWake \/ LoseCreation \/ DropCreation \/ ServeCreation
  \/ \E l \in Loads : LoadForPage(l) \/ ServeLoad(l) \/ Reconcile(l)
  \/ \E m \in Incoming : Receive(m)
  \/ form.key = None /\ \E a \in Own : SubmitAccount(a)

Next ==
  \/ OfInventory /\ UNCHANGED formVars
  \/ \E l \in Loads : EndAnyLoad(l) \/ \E k \in Keys : OpenForm(k, l)
  \/ \E p \in Posts : \/ ServePost(p) \/ FailPost(p) \/ DropPost(p)
                      \/ \E k \in Keys, i \in Intents : Submit(p, i, k)
                      \/ \E k \in Keys, l \in Loads : Confirm(p, k, l)
  \/ LeaveForm \/ EndCreationAtHome \/ SignOut

Spec == Init /\ [][Next]_vars
-----------------------------------------------------------------------------
(* Properties.                                                             *)

TypeOK ==
  /\ InventoryTypeOK
  /\ form \in Form
  /\ post \in [Posts -> Post]
  /\ drawn \in Nat
  /\ attempt \in [number : Nat, intent : Intents \union {None}]
  /\ sent \subseteq [key : 1 .. drawn, intent : Intents, attempt : Nat]
  /\ form.key = None => form = LeftForm
  /\ form.wait # None => form.submitting /\ load[form.wait].stage # "idle"

Made(s) == AsMovement(s.intent, s.key) \in moved

\* However often an intent is submitted again, after whatever losses and
\* failures, an attempt moves its money once; a key is never sent with two
\* intents, so no attempt is answered with another's transfer or a conflict.
\* (An attempt ends at a receipt, at another intent or when the page is left.)
RetriesAreSafe ==
  /\ \A p \in Posts : post[p].stage # "conflict"
  /\ \A s, t \in sent :
       /\ s.key = t.key => s.intent = t.intent
       /\ s.attempt = t.attempt /\ Made(s) /\ Made(t) => s.key = t.key
=============================================================================
