------------------------- MODULE TransferFormProofs --------------------------
(***************************************************************************)
(* Proofs about TransferForm and the Inventory it shows: an attempt moves  *)
(* its money once and a key is sent with one intent, and what is shown at  *)
(* rest is what the ledger holds.                                          *)
(*                                                                         *)
(* The invariant has one part about the store, one about the page and its  *)
(* promises and one about keys and attempts.  The page reads the store and *)
(* never decides about it, so the parts are preserved one after the other. *)
(***************************************************************************)
EXTENDS TransferForm, TLAPS

USE InventoryAssumption, FormAssumption

-----------------------------------------------------------------------------
(* The invariant.                                                          *)

\* The accounts are shown as they are, save account a, which is not shown.
ShownBut(a) == \A b \in Own : store.items[b] = IF b = a THEN <<>> ELSE Listing[b]

\* While an account is created, and nothing else is amiss, it is not shown, and
\* has its deposit as soon as it exists.
CreationInv ==
  creation # NoCreation =>
    /\ creation.account \in Own /\ creation.stage \in {"sent", "opened"}
    /\ newest # None => unsure
    /\ ~unsure /\ ~wake /\ newest = None /\ store.loaded /\ ~store.error =>
         /\ ShownBut(creation.account)
         /\ creation.account \in open <=> creation.stage = "opened"
         /\ creation.stage = "opened" => balance[creation.account] = Deposit

\* Otherwise the store or the answer it will accept is true.
RestInv ==
  creation = NoCreation /\ ~unsure /\ ~wake =>
    /\ newest # None /\ load[newest].stage = "served" => load[newest].items = Listing
    /\ newest = None /\ store.loaded /\ ~store.error => store.items = Listing

StoreInv == InventoryTypeOK /\ CreationInv /\ RestInv

Waiting(p) == post[p].stage # "idle" /\ post[p].page = "this"

\* The page waits for one promise at most: a transfer or the load after it.
PageInv ==
  /\ \A p \in Posts : Waiting(p) => form.submitting /\ form.key # None /\ form.wait = None
  /\ \A p, q \in Posts : Waiting(p) /\ Waiting(q) => p = q

\* The key in hand is the present attempt's, and nothing else's.
KeyInv ==
  form.key # None =>
    /\ form.key \in 1 .. drawn /\ form.keyed = attempt.intent
    /\ \A s \in sent : /\ s.key = form.key <=> s.attempt = attempt.number
                       /\ s.key = form.key => s.intent = form.keyed

\* Keys and attempts go together, and with the intent; of the user's accounts
\* nothing moves that was not sent.
SentInv ==
  /\ \A s \in sent : s.key \in Keys /\ s.attempt <= attempt.number
  /\ \A s, t \in sent : /\ s.key = t.key => s.intent = t.intent /\ s.attempt = t.attempt
                        /\ s.attempt = t.attempt => s.key = t.key
  /\ \A p \in Posts : post[p].stage # "idle" =>
       /\ post[p].stage # "conflict"
       /\ \E s \in sent : s.key = post[p].key /\ s.intent = post[p].intent
  /\ \A m \in moved : m.from \in Own => \E s \in sent : m = AsMovement(s.intent, s.key)

\* The types of the page's variables.
PageTypeOK ==
  /\ form \in Form
  /\ post \in [Posts -> Post]
  /\ drawn \in Nat
  /\ attempt \in [number : Nat, intent : Intents \union {None}]
  /\ sent \subseteq [key : 1 .. drawn, intent : Intents, attempt : Nat]
  /\ form.key = None => form = LeftForm
  /\ form.wait # None => form.submitting /\ load[form.wait].stage # "idle"

FormInv == StoreInv /\ PageTypeOK /\ PageInv /\ KeyInv /\ SentInv

-----------------------------------------------------------------------------
(* The store.                                                              *)

LEMMA ListingType ==
  ASSUME balance \in [Accounts -> 0 .. MaxSafe]
  PROVE  /\ Listing \in Items /\ NoItems \in Items
         /\ \A b \in Own : Listing[b] = IF b \in open THEN <<balance[b]>> ELSE <<>>
<1>1. ASSUME NEW b \in Own PROVE (IF b \in open THEN <<balance[b]>> ELSE <<>>) \in Seq(0 .. MaxSafe)
  <2>1. balance[b] \in 0 .. MaxSafe
    OBVIOUS
  <2>2. <<balance[b]>> \in Seq(0 .. MaxSafe)
    BY <2>1
  <2>3. <<>> \in Seq(0 .. MaxSafe)
    OBVIOUS
  <2> QED
    BY <2>2, <2>3
<1>2. \A b \in Own : Listing[b] = IF b \in open THEN <<balance[b]>> ELSE <<>>
  BY DEF Listing
<1>3. Listing \in Items
  BY <1>1 DEF Listing, Items
<1>4. NoItems \in Items
  BY DEF NoItems, Items
<1> QED
  BY <1>2, <1>3, <1>4

LEMMA LoadTypes ==
  /\ NoLoad \in [stage : {"idle", "sent", "served"}, items : Items]
  /\ NoLoad.stage = "idle"
  /\ [stage |-> "sent", items |-> NoItems] \in [stage : {"idle", "sent", "served"}, items : Items]
BY DEF NoLoad, Items, NoItems

\* A load begins: what it will answer is not decided yet.
LEMMA StartLoadKeeps ==
  ASSUME StoreInv, NEW l \in Loads, StartLoad(l), UNCHANGED <<ledgerVars, creation>>,
         wake' \in BOOLEAN, reconciling' \in {reconciling, l}
  PROVE  StoreInv'
<1>1. /\ load' \in [Loads -> [stage : {"idle", "sent", "served"}, items : Items]]
      /\ load'[l].stage = "sent" /\ \A k \in Loads \ {l} : load'[k] = load[k]
      /\ newest' = l /\ newest' # None /\ store'.loading
      /\ store' \in [items : Items, loading : BOOLEAN, error : BOOLEAN, loaded : BOOLEAN]
      /\ unsure' = (creation # NoCreation)
  BY LoadTypes DEF StoreInv, InventoryTypeOK, StartLoad
<1>2. UNCHANGED <<open, balance, moved, creation>>
  BY DEF ledgerVars
<1>3. InventoryTypeOK'
  BY <1>1, <1>2 DEF StoreInv, InventoryTypeOK
<1>4. CreationInv' /\ RestInv'
  BY <1>1, <1>2 DEF StoreInv, CreationInv, RestInv
<1> QED
  BY <1>3, <1>4 DEF StoreInv

LEMMA ServeLoadKeeps ==
  ASSUME StoreInv, NEW l \in Loads, ServeLoad(l)
  PROVE  StoreInv'
<1>1. /\ load' \in [Loads -> [stage : {"idle", "sent", "served"}, items : Items]]
      /\ load'[l] = [stage |-> "served", items |-> Listing]
      /\ \A k \in Loads \ {l} : load'[k] = load[k]
  BY ListingType DEF StoreInv, InventoryTypeOK, ServeLoad
<1>2. UNCHANGED <<open, balance, moved, store, newest, creation, wake, reconciling, unsure>>
      /\ Listing' = Listing
  BY DEF ServeLoad, ledgerVars, Listing
<1>3. InventoryTypeOK'
  BY <1>1, <1>2 DEF StoreInv, InventoryTypeOK
<1>4. CreationInv'
  BY <1>2 DEF StoreInv, CreationInv, ShownBut
<1>5. RestInv'
  BY <1>1, <1>2 DEF StoreInv, RestInv, InventoryTypeOK
<1> QED
  BY <1>3, <1>4, <1>5 DEF StoreInv

LEMMA EndLoadKeeps ==
  ASSUME StoreInv, NEW l \in Loads, EndLoad(l)
  PROVE  StoreInv'
<1>1. /\ load' \in [Loads -> [stage : {"idle", "sent", "served"}, items : Items]]
      /\ \A k \in Loads \ {l} : load'[k] = load[k]
  BY LoadTypes DEF StoreInv, InventoryTypeOK, EndLoad
<1>2. UNCHANGED <<open, balance, moved, creation, wake, unsure>> /\ Listing' = Listing
  BY DEF EndLoad, ledgerVars, Listing
<1>3. CASE newest = l
  <2>1. /\ newest' = None
        /\ reconciling' = IF reconciling = l THEN None ELSE reconciling
    BY <1>3 DEF EndLoad
  <2>2. /\ load[l].items \in Items
        /\ store \in [items : Items, loading : BOOLEAN, error : BOOLEAN, loaded : BOOLEAN]
    BY DEF StoreInv, InventoryTypeOK
  <2>3. \/ /\ load[l].stage = "served"
           /\ store' = [store EXCEPT !.items = load[l].items, !.loaded = TRUE, !.loading = FALSE]
        \/ store' = [store EXCEPT !.error = TRUE, !.loading = FALSE]
    BY <1>3 DEF EndLoad, Newest
  <2>4. /\ ~store'.loading
        /\ store' \in [items : Items, loading : BOOLEAN, error : BOOLEAN, loaded : BOOLEAN]
        /\ \/ store'.error
           \/ load[l].stage = "served" /\ store'.items = load[l].items
    <3>1. CASE store' = [store EXCEPT !.error = TRUE, !.loading = FALSE]
      BY <2>2, <3>1
    <3>2. CASE /\ load[l].stage = "served"
               /\ store' = [store EXCEPT !.items = load[l].items, !.loaded = TRUE, !.loading = FALSE]
      BY <2>2, <3>2
    <3> QED
      BY <2>3, <3>1, <3>2
  <2>5. InventoryTypeOK'
    BY <1>1, <1>2, <2>1, <2>4 DEF StoreInv, InventoryTypeOK
  <2>6. CreationInv' /\ RestInv'
    BY <1>2, <1>3, <2>1, <2>4 DEF StoreInv, CreationInv, RestInv
  <2> QED
    BY <2>5, <2>6 DEF StoreInv
<1>4. CASE newest # l
  <2>1. /\ newest' = newest /\ store' = store
        /\ reconciling' = IF reconciling = l THEN None ELSE reconciling
    BY <1>4 DEF EndLoad, Newest
  <2>2. InventoryTypeOK'
    BY <1>1, <1>2, <1>4, <2>1 DEF StoreInv, InventoryTypeOK
  <2>3. CreationInv' /\ RestInv'
    BY <1>1, <1>2, <1>4, <2>1 DEF StoreInv, CreationInv, RestInv, InventoryTypeOK, ShownBut
  <2> QED
    BY <2>2, <2>3 DEF StoreInv
<1> QED
  BY <1>3, <1>4

\* Money moves, and a notification is on its way.
LEMMA MoveKeeps ==
  ASSUME StoreInv, NEW m \in Movement, Move(m), wake' = TRUE,
         UNCHANGED <<store, load, newest, creation, reconciling, unsure>>
  PROVE  StoreInv'
<1>1. /\ balance' \in [Accounts -> 0 .. MaxSafe] /\ open' \subseteq Accounts
      /\ moved' \subseteq Movement
  <2>1. /\ m.from \in Accounts /\ m.to \in Accounts /\ m.from # m.to
        /\ m.amount \in Nat /\ balance \in [Accounts -> 0 .. MaxSafe]
        /\ balance[m.from] >= m.amount /\ balance[m.to] + m.amount <= MaxSafe
        /\ balance' = [balance EXCEPT ![m.from] = @ - m.amount, ![m.to] = @ + m.amount]
    BY DEF Move, Movement, StoreInv, InventoryTypeOK
  <2>2. \A a \in Accounts : balance'[a] \in 0 .. MaxSafe
    BY <2>1
  <2>3. balance' \in [Accounts -> 0 .. MaxSafe]
    BY <2>1, <2>2
  <2> QED
    BY <2>3 DEF Move, StoreInv, InventoryTypeOK
<1>2. InventoryTypeOK'
  BY <1>1 DEF StoreInv, InventoryTypeOK
<1>3. CreationInv' /\ RestInv'
  BY DEF StoreInv, CreationInv, RestInv
<1> QED
  BY <1>2, <1>3 DEF StoreInv

LEMMA LoseWakeKeeps == StoreInv /\ LoseWake => StoreInv'
<1> SUFFICES ASSUME StoreInv, LoseWake PROVE StoreInv'
  OBVIOUS
<1>1. UNCHANGED <<open, balance, moved, store, load, newest, creation, reconciling>>
      /\ wake' = FALSE /\ unsure' = TRUE
  BY DEF LoseWake, ledgerVars
<1> QED
  BY <1>1 DEF StoreInv, InventoryTypeOK, CreationInv, RestInv

\* An account is asked for when it is not shown.
LEMMA SubmitAccountKeeps ==
  ASSUME StoreInv, NEW a \in Own, SubmitAccount(a)
  PROVE  StoreInv'
<1>1. /\ creation' = [account |-> a, stage |-> "sent", heard |-> TRUE]
      /\ UNCHANGED <<open, balance, moved, store, load, newest, wake, reconciling, unsure>>
      /\ Listing' = Listing
      /\ store.loaded /\ ~store.loading /\ ~store.error /\ creation = NoCreation
      /\ store.items[a] = <<>>
  BY DEF SubmitAccount, ledgerVars, Listing
<1>2. newest = None
  BY <1>1 DEF StoreInv, InventoryTypeOK
<1>3. ASSUME ~unsure, ~wake
      PROVE  /\ \A b \in Own : store.items[b] = IF b = a THEN <<>> ELSE Listing[b]
             /\ a \notin open
  <2>1. store.items = Listing
    BY <1>1, <1>2, <1>3 DEF StoreInv, RestInv
  <2>2. Listing[a] = IF a \in open THEN <<balance[a]>> ELSE <<>>
    BY DEF Listing
  <2>3. <<balance[a]>> # <<>>
    OBVIOUS
  <2> QED
    BY <1>1, <2>1, <2>2, <2>3
<1>4. InventoryTypeOK'
  BY <1>1 DEF StoreInv, InventoryTypeOK
<1>5. creation' # NoCreation'
  BY <1>1 DEF NoCreation
<1>6. CreationInv'
  BY <1>1, <1>2, <1>3 DEF CreationInv, ShownBut
<1>7. RestInv'
  BY <1>5 DEF RestInv
<1> QED
  BY <1>4, <1>6, <1>7 DEF StoreInv

\* The account exists: only what is listed of it changes.
LEMMA ServeCreationKeeps == StoreInv /\ ServeCreation => StoreInv'
<1> SUFFICES ASSUME StoreInv, ServeCreation PROVE StoreInv'
  OBVIOUS
<1> DEFINE a == creation.account
<1>0. creation # NoCreation /\ creation.stage = "sent"
  BY DEF ServeCreation, NoCreation
<1>1. /\ a \in Own /\ a \in Accounts /\ a \notin open
      /\ open' = open \union {a} /\ balance' = [balance EXCEPT ![a] = Deposit]
      /\ UNCHANGED <<moved, store, load, newest, wake, reconciling>>
      /\ creation' = IF creation.heard THEN [creation EXCEPT !.stage = "opened"] ELSE NoCreation
      /\ unsure' = (unsure \/ ~creation.heard)
  BY <1>0 DEF ServeCreation, OpenAccount, StoreInv, CreationInv
<1>2. /\ creation \in [account : Own \union {None}, stage : {"idle", "sent", "opened"}, heard : BOOLEAN]
      /\ balance \in [Accounts -> 0 .. MaxSafe]
  BY DEF StoreInv, InventoryTypeOK
<1>3. /\ balance' \in [Accounts -> 0 .. MaxSafe] /\ balance'[a] = Deposit
      /\ \A b \in Accounts \ {a} : balance'[b] = balance[b]
      /\ creation' \in [account : Own \union {None}, stage : {"idle", "sent", "opened"}, heard : BOOLEAN]
  BY <1>1, <1>2 DEF NoCreation
<1>4. InventoryTypeOK'
  BY <1>1, <1>3 DEF StoreInv, InventoryTypeOK
<1>5. \A b \in Own \ {a} : Listing'[b] = Listing[b]
  BY <1>1, <1>3 DEF Listing
<1>6. CASE ~creation.heard
  BY <1>1, <1>4, <1>6 DEF StoreInv, CreationInv, RestInv
<1>7. CASE creation.heard
  <2>1. creation'.account = a /\ creation'.stage = "opened" /\ unsure' = unsure
    <3>1. creation' = [creation EXCEPT !.stage = "opened"] /\ unsure' = unsure
      BY <1>1, <1>2, <1>7 DEF StoreInv, InventoryTypeOK
    <3> QED
      BY <1>2, <3>1
  <2>2. CreationInv'
    BY <1>0, <1>1, <1>3, <1>5, <2>1 DEF StoreInv, CreationInv, ShownBut
  <2>3. RestInv'
    BY <2>1 DEF RestInv, NoCreation
  <2> QED
    BY <1>4, <2>2, <2>3 DEF StoreInv
<1> QED
  BY <1>6, <1>7

\* The account is appended to what is shown.
LEMMA EndCreationKeeps == StoreInv /\ EndCreation => StoreInv'
<1> SUFFICES ASSUME StoreInv, EndCreation PROVE StoreInv'
  OBVIOUS
<1> DEFINE a == creation.account
<1>0. creation # NoCreation /\ creation.stage = "opened"
  BY DEF EndCreation, NoCreation
<1>1. /\ a \in Own /\ creation' = NoCreation
      /\ store' = [store EXCEPT !.items[a] = Append(@, Deposit)]
      /\ UNCHANGED <<open, balance, moved, load, newest, wake, reconciling, unsure>>
      /\ Listing' = Listing
  BY <1>0 DEF EndCreation, ledgerVars, StoreInv, CreationInv, Listing
<1>2. /\ store \in [items : Items, loading : BOOLEAN, error : BOOLEAN, loaded : BOOLEAN]
      /\ store.items \in [Own -> Seq(0 .. MaxSafe)]
  BY DEF StoreInv, InventoryTypeOK, Items
<1>3. Append(store.items[a], Deposit) \in Seq(0 .. MaxSafe)
  BY <1>1, <1>2
<1>4. /\ store'.items = [store.items EXCEPT ![a] = Append(@, Deposit)]
      /\ store'.loading = store.loading /\ store'.error = store.error
      /\ store'.loaded = store.loaded
      /\ store' \in [items : Items, loading : BOOLEAN, error : BOOLEAN, loaded : BOOLEAN]
  BY <1>1, <1>2, <1>3 DEF Items
<1>5. InventoryTypeOK'
  <2>1. creation' \in [account : Own \union {None}, stage : {"idle", "sent", "opened"}, heard : BOOLEAN]
    BY <1>1 DEF NoCreation
  <2> QED
    BY <1>1, <1>4, <2>1 DEF StoreInv, InventoryTypeOK
<1>6. ASSUME ~unsure, ~wake PROVE newest = None /\ (store.loaded /\ ~store.error => store'.items = Listing)
  <2>1. newest = None
    BY <1>0, <1>6 DEF StoreInv, CreationInv
  <2>2. ASSUME store.loaded, ~store.error PROVE store'.items = Listing
    <3>1. /\ ShownBut(a) /\ a \in open /\ balance[a] = Deposit
      BY <1>0, <1>6, <2>1, <2>2 DEF StoreInv, CreationInv
    <3>2. store.items[a] = <<>> /\ Append(<<>>, Deposit) = <<Deposit>>
      BY <1>1, <3>1 DEF ShownBut
    <3>3. Listing \in [Own -> Seq(0 .. MaxSafe)] /\ Listing[a] = <<Deposit>>
      BY <1>1, <3>1, ListingType DEF StoreInv, InventoryTypeOK, Items
    <3>4. \A b \in Own : store'.items[b] = Listing[b]
      BY <1>1, <1>2, <1>4, <3>1, <3>2, <3>3 DEF ShownBut
    <3> QED
      BY <1>4, <3>3, <3>4 DEF Items
  <2> QED
    BY <2>1, <2>2
<1>7. CreationInv'
  BY <1>1 DEF CreationInv
<1>8. RestInv'
  BY <1>1, <1>4, <1>6 DEF RestInv
<1> QED
  BY <1>5, <1>7, <1>8 DEF StoreInv

LEMMA UnheardType ==
  ASSUME StoreInv
  PROVE  /\ Unheard \in [account : Own \union {None}, stage : {"idle", "sent", "opened"}, heard : BOOLEAN]
         /\ Unheard # NoCreation => /\ creation # NoCreation
                                    /\ creation.stage = "sent" /\ Unheard.stage = "sent"
                                    /\ Unheard.account = creation.account
         /\ creation.stage \notin {"sent", "opened"} => creation = NoCreation
         /\ creation.stage = "sent" => Unheard # NoCreation
<1>1. creation \in [account : Own \union {None}, stage : {"idle", "sent", "opened"}, heard : BOOLEAN]
  BY DEF StoreInv, InventoryTypeOK
<1>2. creation # NoCreation => creation.account \in Own /\ creation.stage \in {"sent", "opened"}
  BY DEF StoreInv, CreationInv
<1>3. NoCreation = [account |-> None, stage |-> "idle", heard |-> FALSE]
  BY DEF NoCreation
<1>4. CASE creation.stage = "sent"
  <2>1. Unheard = [creation EXCEPT !.heard = FALSE]
    BY <1>4 DEF Unheard
  <2>2. Unheard.stage = "sent" /\ Unheard.account = creation.account
        /\ Unheard \in [account : Own \union {None}, stage : {"idle", "sent", "opened"}, heard : BOOLEAN]
    BY <1>1, <1>4, <2>1
  <2> QED
    BY <1>3, <1>4, <2>2
<1>5. CASE creation.stage # "sent"
  BY <1>2, <1>3, <1>5 DEF Unheard
<1> QED
  BY <1>4, <1>5

LEMMA LoseCreationKeeps == StoreInv /\ LoseCreation => StoreInv'
<1> SUFFICES ASSUME StoreInv, LoseCreation PROVE StoreInv'
  OBVIOUS
<1>1. /\ creation' = Unheard /\ creation # NoCreation
      /\ unsure' = (unsure \/ creation.stage = "opened")
      /\ UNCHANGED <<open, balance, moved, store, load, newest, wake, reconciling>>
      /\ Listing' = Listing
  BY DEF LoseCreation, ledgerVars, Listing, NoCreation
<1>2. InventoryTypeOK'
  BY <1>1, UnheardType DEF StoreInv, InventoryTypeOK
<1>3. CreationInv'
  BY <1>1, UnheardType DEF StoreInv, CreationInv, ShownBut
<1>4. RestInv'
  BY <1>1, UnheardType DEF StoreInv, CreationInv, RestInv
<1> QED
  BY <1>2, <1>3, <1>4 DEF StoreInv

LEMMA DropCreationKeeps == StoreInv /\ DropCreation => StoreInv'
<1> SUFFICES ASSUME StoreInv, DropCreation PROVE StoreInv'
  OBVIOUS
<1>1. /\ creation' = NoCreation /\ creation # NoCreation /\ creation.stage = "sent"
      /\ UNCHANGED <<open, balance, moved, store, load, newest, wake, reconciling, unsure>>
      /\ Listing' = Listing
  BY DEF DropCreation, ledgerVars, Listing, NoCreation
<1>2. NoCreation \in [account : Own \union {None}, stage : {"idle", "sent", "opened"}, heard : BOOLEAN]
  BY DEF NoCreation
<1>3. InventoryTypeOK'
  BY <1>1, <1>2 DEF StoreInv, InventoryTypeOK
<1>4. CreationInv'
  BY <1>1 DEF CreationInv
<1>5. ASSUME ~unsure, ~wake PROVE newest = None /\ (store.loaded /\ ~store.error => store.items = Listing)
  <2>1. newest = None
    BY <1>1, <1>5 DEF StoreInv, CreationInv
  <2>2. ASSUME store.loaded, ~store.error PROVE store.items = Listing
    <3>1. creation.account \in Own /\ ShownBut(creation.account) /\ creation.account \notin open
      BY <1>1, <1>5, <2>1, <2>2 DEF StoreInv, CreationInv
    <3>2. Listing \in [Own -> Seq(0 .. MaxSafe)] /\ store.items \in [Own -> Seq(0 .. MaxSafe)]
      BY ListingType DEF StoreInv, InventoryTypeOK, Items
    <3>3. Listing[creation.account] = <<>>
      BY <3>1 DEF Listing
    <3>4. \A b \in Own : store.items[b] = Listing[b]
      BY <3>1, <3>3 DEF ShownBut
    <3> QED
      BY <3>2, <3>4
  <2> QED
    BY <2>1, <2>2
<1>6. RestInv'
  BY <1>1, <1>5 DEF RestInv
<1> QED
  BY <1>3, <1>4, <1>6 DEF StoreInv

LEMMA ResetKeeps == StoreInv /\ Reset => StoreInv'
<1> SUFFICES ASSUME StoreInv, Reset PROVE StoreInv'
  OBVIOUS
<1>1. /\ creation' = Unheard /\ store' = EmptyStore /\ newest' = None /\ reconciling' = None
      /\ wake' = TRUE /\ unsure' = (unsure \/ creation.stage = "opened")
      /\ UNCHANGED <<open, balance, moved, load>>
  BY DEF Reset, ledgerVars
<1>2. EmptyStore \in [items : Items, loading : BOOLEAN, error : BOOLEAN, loaded : BOOLEAN]
      /\ ~EmptyStore.loading
  BY DEF EmptyStore, Items, NoItems
<1>3. InventoryTypeOK'
  BY <1>1, <1>2, UnheardType DEF StoreInv, InventoryTypeOK
<1>4. CreationInv' /\ RestInv'
  BY <1>1, UnheardType DEF StoreInv, CreationInv, RestInv
<1> QED
  BY <1>3, <1>4 DEF StoreInv

LEMMA StoreUnchanged ==
  ASSUME StoreInv, UNCHANGED <<ledgerVars, storeVars>>
  PROVE  StoreInv'
<1>1. UNCHANGED <<open, balance, moved, store, load, newest, creation, wake, reconciling, unsure>>
      /\ Listing' = Listing
  BY DEF ledgerVars, storeVars, Listing
<1> QED
  BY <1>1 DEF StoreInv, InventoryTypeOK, CreationInv, RestInv, ShownBut

-----------------------------------------------------------------------------
(* The page, its keys and its promises.                                    *)

LEMMA FormTypes ==
  /\ LeftForm \in Form /\ LeftForm.key = None /\ LeftForm.wait = None /\ ~LeftForm.submitting
  /\ NoPost \in Post /\ NoPost.stage = "idle"
BY DEF LeftForm, Form, NoPost, Post

\* Steps that draw no key, begin no attempt and send nothing: what moves was
\* sent before, and the page keeps its key or is left.
LEMMA KeysKept ==
  ASSUME FormInv, UNCHANGED <<drawn, attempt, sent>>,
         form' = LeftForm \/ (form'.key = form.key /\ form'.keyed = form.keyed),
         \A p \in Posts : post'[p].stage # "idle" =>
           /\ post'[p].stage # "conflict" /\ post[p].stage # "idle"
           /\ post'[p].key = post[p].key /\ post'[p].intent = post[p].intent,
         \A m \in moved' :
           \/ m \in moved \/ m.from \notin Own
           \/ \E p \in Posts : /\ post[p].stage # "idle"
                               /\ m = AsMovement(post[p].intent, post[p].key)
  PROVE  KeyInv' /\ SentInv'
<1>1. KeyInv'
  BY FormTypes DEF FormInv, KeyInv
<1>2. ASSUME NEW m \in moved', m.from \in Own
      PROVE  \E s \in sent' : m = AsMovement(s.intent, s.key)
  <2>1. CASE m \in moved
    BY <1>2, <2>1 DEF FormInv, SentInv
  <2>2. ASSUME NEW p \in Posts, post[p].stage # "idle",
               m = AsMovement(post[p].intent, post[p].key)
        PROVE  \E s \in sent : m = AsMovement(s.intent, s.key)
    BY <2>2 DEF FormInv, SentInv
  <2> QED
    BY <1>2, <2>1, <2>2
<1>3. \A p \in Posts : post'[p].stage # "idle" =>
        /\ post'[p].stage # "conflict"
        /\ \E s \in sent' : s.key = post'[p].key /\ s.intent = post'[p].intent
  BY DEF FormInv, SentInv
<1> QED
  BY <1>1, <1>2, <1>3 DEF FormInv, SentInv

\* The inventory goes on by itself.
LEMMA PageUnchanged ==
  ASSUME FormInv, UNCHANGED formVars,
         \A l \in Loads : load[l].stage # "idle" => load'[l].stage # "idle",
         \A m \in moved' : m \in moved \/ m.from \notin Own
  PROVE  PageTypeOK' /\ PageInv' /\ KeyInv' /\ SentInv'
<1>1. UNCHANGED <<form, post, drawn, attempt, sent>>
  BY DEF formVars
<1>2. PageTypeOK' /\ PageInv'
  BY <1>1 DEF FormInv, PageTypeOK, PageInv, Waiting, Form
<1>3. KeyInv' /\ SentInv'
  BY <1>1, KeysKept DEF FormInv, SentInv
<1> QED
  BY <1>2, <1>3

\* The page is left: its promises are nobody's that counts.
LEMMA PageClosed ==
  ASSUME FormInv, form' = LeftForm, UNCHANGED <<drawn, attempt, sent, moved>>,
         post' \in [Posts -> Post],
         \A p \in Posts : post'[p].stage # "idle" =>
           /\ post'[p].page # "this" /\ post'[p].stage = post[p].stage
           /\ post'[p].key = post[p].key /\ post'[p].intent = post[p].intent
  PROVE  PageTypeOK' /\ PageInv' /\ KeyInv' /\ SentInv'
<1>1. PageTypeOK'
  BY FormTypes DEF FormInv, PageTypeOK
<1>2. PageInv'
  BY DEF PageInv, Waiting
<1>3. \A p \in Posts : post'[p].stage # "idle" => post'[p].stage # "conflict"
  BY DEF FormInv, SentInv
<1>4. KeyInv' /\ SentInv'
  BY <1>3, KeysKept
<1> QED
  BY <1>1, <1>2, <1>4

LEMMA LeftPostsType ==
  ASSUME post \in [Posts -> Post]
  PROVE  /\ LeftPosts \in [Posts -> Post]
         /\ \A p \in Posts : /\ LeftPosts[p].page # "this" /\ LeftPosts[p].stage = post[p].stage
                             /\ LeftPosts[p].key = post[p].key
                             /\ LeftPosts[p].intent = post[p].intent
<1> SUFFICES ASSUME NEW p \in Posts
             PROVE  /\ LeftPosts[p] \in Post /\ LeftPosts[p].page # "this"
                    /\ LeftPosts[p].stage = post[p].stage /\ LeftPosts[p].key = post[p].key
                    /\ LeftPosts[p].intent = post[p].intent
  BY DEF LeftPosts
<1>1. CASE post[p].page = "this"
  <2>1. LeftPosts[p] = [post[p] EXCEPT !.page = "left"]
    BY <1>1 DEF LeftPosts
  <2> QED
    BY <2>1 DEF Post
<1>2. CASE post[p].page # "this"
  BY <1>2 DEF LeftPosts
<1> QED
  BY <1>1, <1>2

LEMMA ForgottenType ==
  ASSUME NEW r \in Post
  PROVE  /\ Forgotten(r) \in Post
         /\ Forgotten(r).stage # "idle" =>
              /\ Forgotten(r).page # "this" /\ Forgotten(r).stage = r.stage
              /\ Forgotten(r).key = r.key /\ Forgotten(r).intent = r.intent
<1>1. CASE r.stage = "sent"
  <2>1. Forgotten(r) = [r EXCEPT !.page = "gone"]
    BY <1>1 DEF Forgotten
  <2> QED
    BY <2>1 DEF Post
<1>2. CASE r.stage # "sent"
  BY <1>2, FormTypes DEF Forgotten
<1> QED
  BY <1>1, <1>2

LEMMA LeavingKeeps ==
  ASSUME FormInv, form' = LeftForm, post' = LeftPosts, UNCHANGED <<drawn, attempt, sent, moved>>
  PROVE  PageTypeOK' /\ PageInv' /\ KeyInv' /\ SentInv'
BY PageClosed, LeftPostsType DEF FormInv, PageTypeOK

LEMMA SigningOutKeeps ==
  ASSUME FormInv, SignOut
  PROVE  PageTypeOK' /\ PageInv' /\ KeyInv' /\ SentInv'
<1>1. /\ form' = LeftForm /\ post' = [p \in Posts |-> Forgotten(post[p])]
      /\ UNCHANGED <<drawn, attempt, sent, moved>>
  BY DEF SignOut, Reset, ledgerVars
<1>2. post \in [Posts -> Post]
  BY DEF FormInv, PageTypeOK
<1> QED
  BY <1>1, <1>2, ForgottenType, PageClosed

\* A new page has a key that nothing was sent with, in an attempt of its own.
LEMMA OpenFormKeeps ==
  ASSUME FormInv, NEW k \in Keys, NEW l \in Loads, OpenForm(k, l)
  PROVE  PageTypeOK' /\ PageInv' /\ KeyInv' /\ SentInv'
<1>1. /\ form.key = None /\ k = drawn + 1 /\ drawn' = k
      /\ form' = [LeftForm EXCEPT !.key = k]
      /\ attempt' = [number |-> attempt.number + 1, intent |-> None]
      /\ UNCHANGED <<post, sent, moved>>
  BY DEF OpenForm, NewKey, NextAttempt, ledgerVars
<1>2. /\ form'.key = k /\ form'.keyed = None /\ form'.wait = None /\ form' \in Form
  BY <1>1 DEF LeftForm, Form
<1>3. /\ drawn \in Nat /\ attempt.number \in Nat /\ k # None
      /\ sent \subseteq [key : 1 .. drawn, intent : Intents, attempt : Nat]
  BY DEF FormInv, PageTypeOK
<1>4. \A s \in sent : s.key # k /\ s.attempt # attempt.number + 1 /\ s.attempt <= attempt.number
                      /\ s \in [key : 1 .. drawn', intent : Intents, attempt : Nat]
  BY <1>1, <1>3 DEF FormInv, SentInv
<1>5. PageTypeOK'
  BY <1>1, <1>2, <1>3, <1>4 DEF FormInv, PageTypeOK
<1>6. PageInv'
  BY <1>1 DEF FormInv, PageInv, Waiting
<1>7. KeyInv'
  BY <1>1, <1>2, <1>3, <1>4 DEF KeyInv
<1>8. SentInv'
  BY <1>1, <1>3, <1>4 DEF FormInv, SentInv
<1> QED
  BY <1>5, <1>6, <1>7, <1>8

\* A retry is sent with the attempt's key; another intent is another attempt's.
LEMMA SubmitKeeps ==
  ASSUME FormInv, NEW p \in Posts, NEW i \in Intents, NEW k \in Keys, Submit(p, i, k)
  PROVE  PageTypeOK' /\ PageInv' /\ KeyInv' /\ SentInv'
<1> DEFINE new == [key |-> k, intent |-> i, attempt |-> attempt'.number]
<1>1. /\ form.key # None /\ ~form.submitting /\ post[p].stage = "idle"
      /\ form' = [form EXCEPT !.key = k, !.keyed = i, !.submitting = TRUE]
      /\ post' = [post EXCEPT ![p] = [stage |-> "sent", intent |-> i, key |-> k, page |-> "this"]]
      /\ sent' = sent \union {new}
      /\ UNCHANGED <<open, balance, moved, load>>
  BY DEF Submit, ledgerVars, storeVars
<1>2. /\ form \in Form /\ post \in [Posts -> Post] /\ drawn \in Nat
      /\ attempt \in [number : Nat, intent : Intents \union {None}]
      /\ sent \subseteq [key : 1 .. drawn, intent : Intents, attempt : Nat]
      /\ form.wait = None /\ form.key \in Keys
  BY <1>1 DEF FormInv, PageTypeOK, Form
<1>3. /\ form' \in Form /\ form'.key = k /\ form'.keyed = i /\ form'.submitting /\ form'.wait = None
  BY <1>1, <1>2 DEF Form
<1>4. /\ post' \in [Posts -> Post]
      /\ post'[p] = [stage |-> "sent", intent |-> i, key |-> k, page |-> "this"]
      /\ \A q \in Posts \ {p} : post'[q] = post[q]
  <2>1. [stage |-> "sent", intent |-> i, key |-> k, page |-> "this"] \in Post
    BY DEF Post
  <2> QED
    BY <1>1, <1>2, <2>1
<1>5. /\ drawn' \in Nat /\ drawn <= drawn' /\ k \in 1 .. drawn'
      /\ attempt' \in [number : Nat, intent : Intents \union {None}]
      /\ attempt.number <= attempt'.number /\ attempt'.intent = i
      /\ \A s \in sent : s.key = k <=> s.attempt = attempt'.number
      /\ \A s \in sent : s.key = k => s.intent = i
  <2>0. /\ form.key \in 1 .. drawn /\ form.keyed = attempt.intent /\ i # None
        /\ \A s \in sent : /\ s.key = form.key <=> s.attempt = attempt.number
                           /\ s.key = form.key => s.intent = form.keyed
        /\ \A s \in sent : s.attempt <= attempt.number /\ s.key \in 1 .. drawn
    BY <1>1, <1>2 DEF FormInv, KeyInv, SentInv
  <2>1. CASE KeyFits(i)
    <3>1. /\ k = form.key /\ drawn' = drawn /\ attempt' = [attempt EXCEPT !.intent = i]
          /\ form.keyed \in {None, i}
      BY <2>0, <2>1 DEF Submit, KeyFits
    <3>2. form.key \in 1 .. drawn
      BY <1>1 DEF FormInv, KeyInv
    <3>3. \A s \in sent : s.key = k => s.intent = i
      BY <1>2, <2>0, <3>1
    <3>4. attempt'.number = attempt.number /\ attempt'.intent = i
          /\ attempt' \in [number : Nat, intent : Intents \union {None}]
      BY <1>2, <3>1
    <3> QED
      BY <1>2, <2>0, <3>1, <3>2, <3>3, <3>4
  <2>2. CASE ~KeyFits(i)
    <3>1. /\ k = drawn + 1 /\ drawn' = k
          /\ attempt' = [number |-> attempt.number + 1, intent |-> i]
      BY <2>0, <2>2 DEF Submit, KeyFits, NewKey, NextAttempt
    <3>2. \A s \in sent : s.key # k /\ s.attempt # attempt.number + 1
      BY <1>2, <2>0, <3>1
    <3> QED
      BY <1>2, <3>1, <3>2
  <2> QED
    BY <2>1, <2>2
<1>6. new \in [key : 1 .. drawn', intent : Intents, attempt : Nat]
      /\ new.key = k /\ new.intent = i /\ new.attempt = attempt'.number
  BY <1>5
<1> HIDE DEF new
<1>7. PageTypeOK'
  <2>1. sent' \subseteq [key : 1 .. drawn', intent : Intents, attempt : Nat]
    <3>1. \A n \in 1 .. drawn : n \in 1 .. drawn'
      BY <1>2, <1>5
    <3>2. \A s \in sent : s \in [key : 1 .. drawn', intent : Intents, attempt : Nat]
      BY <1>2, <3>1
    <3> QED
      BY <1>1, <1>6, <3>2
  <2>2. k # None
    OBVIOUS
  <2> QED
    BY <1>3, <1>4, <1>5, <2>1, <2>2 DEF PageTypeOK
<1>8. PageInv'
  <2>1. \A q \in Posts : ~Waiting(q)
    BY <1>1 DEF FormInv, PageInv
  <2>2. \A q \in Posts : Waiting(q)' => q = p
    BY <1>4, <2>1 DEF Waiting
  <2>3. k # None
    OBVIOUS
  <2> QED
    BY <1>3, <2>2, <2>3 DEF PageInv
<1>9. KeyInv'
  BY <1>1, <1>3, <1>5, <1>6 DEF KeyInv
<1>10. SentInv'
  <2>1. \A s \in sent' : s.key \in Keys /\ s.attempt <= attempt'.number
    BY <1>1, <1>2, <1>5, <1>6 DEF FormInv, SentInv
  <2>2. \A s, t \in sent' : /\ s.key = t.key => s.intent = t.intent /\ s.attempt = t.attempt
                            /\ s.attempt = t.attempt => s.key = t.key
    BY <1>1, <1>5, <1>6 DEF FormInv, SentInv
  <2>3. \A q \in Posts : post'[q].stage # "idle" =>
          /\ post'[q].stage # "conflict"
          /\ \E s \in sent' : s.key = post'[q].key /\ s.intent = post'[q].intent
    BY <1>1, <1>4, <1>6 DEF FormInv, SentInv
  <2>4. \A m \in moved' : m.from \in Own => \E s \in sent' : m = AsMovement(s.intent, s.key)
    BY <1>1 DEF FormInv, SentInv
  <2> QED
    BY <2>1, <2>2, <2>3, <2>4 DEF SentInv
<1> QED
  BY <1>7, <1>8, <1>9, <1>10

\* A request is a transfer from the user's account.
LEMMA PostedMovement ==
  ASSUME FormInv, NEW p \in Posts, post[p].stage # "idle"
  PROVE  /\ AsMovement(post[p].intent, post[p].key) \in Movement
         /\ AsMovement(post[p].intent, post[p].key).from \in Own
<1>1. PICK s \in sent : s.key = post[p].key /\ s.intent = post[p].intent
  BY DEF FormInv, SentInv
<1>2. s.intent \in Intents /\ s.key \in Keys
  BY DEF FormInv, PageTypeOK, SentInv
<1>3. post[p].intent \in Intent
  BY <1>1, <1>2
<1>4. post[p].key \in Keys
  BY <1>1, <1>2
<1> QED
  BY <1>3, <1>4 DEF AsMovement, Movement, Intent

\* The server makes the transfer or replays it; a conflict would need another
\* intent sent under its key.
LEMMA ServePostKeeps ==
  ASSUME FormInv, NEW p \in Posts, ServePost(p)
  PROVE  StoreInv' /\ PageTypeOK' /\ PageInv' /\ KeyInv' /\ SentInv'
<1> DEFINE m == AsMovement(post[p].intent, post[p].key)
<1>1. /\ post[p].stage = "sent"
      /\ UNCHANGED <<store, load, newest, creation, reconciling, unsure, form, drawn, attempt, sent>>
      /\ m \in Movement /\ m.from \in Own
      /\ post \in [Posts -> Post]
  BY PostedMovement DEF ServePost, FormInv, PageTypeOK
<1>2. \/ /\ Move(m) /\ wake' = TRUE
         /\ post' = [post EXCEPT ![p] = IF @.page = "gone" THEN NoPost ELSE [@ EXCEPT !.stage = "ok"]]
      \/ /\ ~Fresh(m) /\ UNCHANGED <<ledgerVars, wake>>
         /\ post' = [post EXCEPT ![p] =
              IF @.page = "gone" THEN NoPost
              ELSE [@ EXCEPT !.stage = IF m \in moved THEN "ok" ELSE "conflict"]]
  BY DEF ServePost
<1>3. ~Fresh(m) => m \in moved
  <2> SUFFICES ASSUME NEW n \in moved, n.from = m.from, n.key = m.key
               PROVE  n = m
    BY DEF Fresh
  <2>1. PICK s \in sent : n = AsMovement(s.intent, s.key)
    BY <1>1 DEF FormInv, SentInv
  <2>2. PICK t \in sent : t.key = post[p].key /\ t.intent = post[p].intent
    BY <1>1 DEF FormInv, SentInv
  <2>3. s.key = t.key
    BY <2>1, <2>2 DEF AsMovement
  <2>4. s.intent = t.intent
    BY <2>3 DEF FormInv, SentInv
  <2> QED
    BY <2>1, <2>2, <2>3, <2>4
<1>4. /\ post' = [post EXCEPT ![p] = IF @.page = "gone" THEN NoPost ELSE [@ EXCEPT !.stage = "ok"]]
      /\ moved' \subseteq moved \union {m}
  BY <1>2, <1>3 DEF Move, ledgerVars
<1>5. StoreInv'
  <2>1. CASE Move(m) /\ wake' = TRUE
    BY <1>1, <2>1, MoveKeeps DEF FormInv
  <2>2. CASE UNCHANGED <<ledgerVars, wake>>
    BY <1>1, <2>2, StoreUnchanged DEF FormInv, storeVars
  <2> QED
    BY <1>2, <2>1, <2>2
<1>6. /\ post' \in [Posts -> Post]
      /\ \A q \in Posts \ {p} : post'[q] = post[q]
      /\ post'[p].stage # "idle" =>
           /\ post'[p].stage = "ok" /\ post'[p].page = post[p].page
           /\ post'[p].key = post[p].key /\ post'[p].intent = post[p].intent
  <2>1. CASE post[p].page = "gone"
    BY <1>1, <1>4, <2>1, FormTypes
  <2>2. CASE post[p].page # "gone"
    <3>1. post' = [post EXCEPT ![p] = [post[p] EXCEPT !.stage = "ok"]]
      BY <1>4, <2>2
    <3>2. [post[p] EXCEPT !.stage = "ok"] \in Post
      BY <1>1 DEF Post
    <3> QED
      BY <1>1, <3>1, <3>2 DEF Post
  <2> QED
    BY <2>1, <2>2
<1> HIDE DEF m
<1>7. PageTypeOK'
  BY <1>1, <1>6 DEF FormInv, PageTypeOK
<1>8. PageInv'
  <2>1. \A q \in Posts : Waiting(q)' => Waiting(q)
    BY <1>1, <1>6 DEF Waiting
  <2> QED
    BY <1>1, <2>1 DEF FormInv, PageInv
<1>9. KeyInv' /\ SentInv'
  <2>1. \A q \in Posts : post'[q].stage # "idle" =>
          /\ post'[q].stage # "conflict" /\ post[q].stage # "idle"
          /\ post'[q].key = post[q].key /\ post'[q].intent = post[q].intent
    BY <1>1, <1>6 DEF FormInv, SentInv
  <2>2. \A n \in moved' : n \in moved \/ \E q \in Posts :
          post[q].stage # "idle" /\ n = AsMovement(post[q].intent, post[q].key)
    BY <1>1, <1>4 DEF m
  <2> QED
    BY <1>1, <2>1, <2>2, KeysKept
<1> QED
  BY <1>5, <1>7, <1>8, <1>9

\* A promise is settled or forgotten, and the page may stop waiting for it.
LEMMA FailPostKeeps ==
  ASSUME FormInv, NEW p \in Posts, FailPost(p)
  PROVE  PageTypeOK' /\ PageInv' /\ KeyInv' /\ SentInv'
<1>1. /\ post[p].stage # "idle"
      /\ form' = IF post[p].page = "this" THEN [form EXCEPT !.submitting = FALSE] ELSE form
      /\ post' = [post EXCEPT ![p] = Forgotten(post[p])]
      /\ UNCHANGED <<drawn, attempt, sent, moved, load>>
      /\ post \in [Posts -> Post] /\ form \in Form
  BY DEF FailPost, ledgerVars, storeVars, FormInv, PageTypeOK
<1>2. /\ post' \in [Posts -> Post]
      /\ \A q \in Posts \ {p} : post'[q] = post[q]
      /\ post'[p].stage # "idle" =>
           /\ post'[p].stage = post[p].stage /\ post'[p].page # "this"
           /\ post'[p].key = post[p].key /\ post'[p].intent = post[p].intent
  BY <1>1, ForgottenType
<1>3. \A q \in Posts : Waiting(q)' => Waiting(q) /\ q # p
  BY <1>2 DEF Waiting
<1>4. KeyInv' /\ SentInv'
  <2>1. form'.key = form.key /\ form'.keyed = form.keyed
    BY <1>1 DEF Form
  <2>2. \A q \in Posts : post'[q].stage # "idle" =>
          /\ post'[q].stage # "conflict" /\ post[q].stage # "idle"
          /\ post'[q].key = post[q].key /\ post'[q].intent = post[q].intent
    BY <1>1, <1>2 DEF FormInv, SentInv
  <2> QED
    BY <1>1, <2>1, <2>2, KeysKept
<1>5. CASE Waiting(p)
  <2>1. /\ form.key # None /\ form.wait = None
        /\ form' \in Form /\ form'.key = form.key /\ form'.wait = form.wait
    BY <1>1, <1>5 DEF FormInv, PageInv, Form
  <2>2. \A q \in Posts : ~Waiting(q)'
    BY <1>3, <1>5 DEF FormInv, PageInv
  <2>3. PageTypeOK'
    BY <1>1, <1>2, <2>1 DEF FormInv, PageTypeOK
  <2>4. PageInv'
    BY <2>2 DEF PageInv
  <2> QED
    BY <1>4, <2>3, <2>4
<1>6. CASE ~Waiting(p)
  <2>1. form' = form
    BY <1>1, <1>6 DEF Waiting
  <2>2. PageTypeOK'
    BY <1>1, <1>2, <2>1 DEF FormInv, PageTypeOK
  <2>3. PageInv'
    BY <1>3, <2>1 DEF FormInv, PageInv
  <2> QED
    BY <1>4, <2>2, <2>3
<1> QED
  BY <1>5, <1>6

LEMMA DropPostKeeps ==
  ASSUME FormInv, NEW p \in Posts, DropPost(p)
  PROVE  PageTypeOK' /\ PageInv' /\ KeyInv' /\ SentInv'
<1>1. /\ post' = [post EXCEPT ![p] = NoPost]
      /\ UNCHANGED <<form, drawn, attempt, sent, moved, load>>
      /\ post \in [Posts -> Post]
  BY DEF DropPost, ledgerVars, storeVars, FormInv, PageTypeOK
<1>2. /\ post' \in [Posts -> Post]
      /\ \A q \in Posts : post'[q].stage # "idle" => post'[q] = post[q]
  BY <1>1, FormTypes
<1>3. PageTypeOK'
  BY <1>1, <1>2 DEF FormInv, PageTypeOK
<1>4. PageInv'
  BY <1>1, <1>2 DEF FormInv, PageInv, Waiting
<1>5. KeyInv' /\ SentInv'
  <2>1. \A q \in Posts : post'[q].stage # "idle" => post'[q].stage # "conflict"
    BY <1>2 DEF FormInv, SentInv
  <2> QED
    BY <1>1, <1>2, <2>1, KeysKept
<1> QED
  BY <1>3, <1>4, <1>5

LEMMA EndAnyLoadKeeps ==
  ASSUME FormInv, NEW l \in Loads, EndAnyLoad(l)
  PROVE  PageTypeOK' /\ PageInv' /\ KeyInv' /\ SentInv'
<1>1. /\ form' = IF form.wait = l THEN [form EXCEPT !.submitting = FALSE, !.wait = None] ELSE form
      /\ UNCHANGED <<post, drawn, attempt, sent, moved>>
      /\ load' = [load EXCEPT ![l] = NoLoad]
      /\ form \in Form /\ l # None
  BY DEF EndAnyLoad, EndLoad, ledgerVars, FormInv, PageTypeOK
<1>2. form'.key = form.key /\ form'.keyed = form.keyed
  BY <1>1 DEF Form
<1>3. KeyInv' /\ SentInv'
  <2>1. \A q \in Posts : post[q].stage # "conflict" \/ post[q].stage = "idle"
    BY DEF FormInv, SentInv
  <2> QED
    BY <1>1, <1>2, <2>1, KeysKept
<1>4. CASE form.wait = l
  <2>1. form' \in Form /\ form'.wait = None /\ form.key # None
    BY <1>1, <1>4, FormTypes DEF FormInv, PageTypeOK, Form
  <2>2. \A q \in Posts : ~Waiting(q)' /\ ~Waiting(q)
    BY <1>1, <1>4 DEF FormInv, PageInv, Waiting
  <2>3. PageTypeOK'
    BY <1>1, <1>2, <2>1 DEF FormInv, PageTypeOK
  <2>4. PageInv'
    BY <2>2 DEF PageInv
  <2> QED
    BY <1>3, <2>3, <2>4
<1>5. CASE form.wait # l
  <2>1. form' = form
    BY <1>1, <1>5
  <2>2. form.wait # None => load'[form.wait] = load[form.wait]
    BY <1>1, <1>5 DEF FormInv, StoreInv, InventoryTypeOK, Form
  <2>3. PageTypeOK'
    BY <1>1, <2>1, <2>2 DEF FormInv, PageTypeOK
  <2>4. PageInv'
    BY <1>1, <2>1 DEF FormInv, PageInv, Waiting
  <2> QED
    BY <1>3, <2>3, <2>4
<1> QED
  BY <1>4, <1>5

\* A receipt: the page has a new key in a new attempt and waits for the load.
LEMMA ConfirmKeeps ==
  ASSUME FormInv, NEW p \in Posts, NEW k \in Keys, NEW l \in Loads, Confirm(p, k, l)
  PROVE  PageTypeOK' /\ PageInv' /\ KeyInv' /\ SentInv'
<1>1. /\ post[p].stage = "ok"
      /\ post' = [post EXCEPT ![p] = NoPost]
      /\ UNCHANGED <<sent, moved>>
      /\ load' = [load EXCEPT ![l] = [stage |-> "sent", items |-> NoItems]]
      /\ post \in [Posts -> Post] /\ form \in Form
  BY DEF Confirm, StartLoad, ledgerVars, FormInv, PageTypeOK
<1>2. /\ post' \in [Posts -> Post]
      /\ \A q \in Posts : post'[q].stage # "idle" => post'[q] = post[q] /\ q # p
  BY <1>1, FormTypes
<1>3. \A j \in Loads : /\ load[j].stage # "idle" => load'[j].stage # "idle"
                       /\ load'[l].stage # "idle"
  <2>1. load \in [Loads -> [stage : {"idle", "sent", "served"}, items : Items]]
    BY DEF FormInv, StoreInv, InventoryTypeOK
  <2> QED
    BY <1>1, <2>1
<1>4. CASE post[p].page = "this"
  <2>1. /\ k = drawn + 1 /\ drawn' = k
        /\ form' = [form EXCEPT !.key = k, !.keyed = None, !.wait = l]
        /\ attempt' = [number |-> attempt.number + 1, intent |-> None]
    BY <1>4 DEF Confirm, NewKey, NextAttempt
  <2>2. /\ form'.key = k /\ form'.keyed = None /\ form'.wait = l
        /\ form'.submitting = form.submitting /\ form' \in Form /\ k # None
    BY <1>1, <2>1 DEF Form
  <2>3. form.submitting /\ \A q \in Posts : Waiting(q) => q = p
    BY <1>1, <1>4 DEF FormInv, PageInv, Waiting
  <2>4. /\ drawn \in Nat /\ attempt.number \in Nat
        /\ sent \subseteq [key : 1 .. drawn, intent : Intents, attempt : Nat]
    BY DEF FormInv, PageTypeOK
  <2>5. \A s \in sent : s.key # k /\ s.attempt # attempt.number + 1
                        /\ s.attempt <= attempt.number
                        /\ s \in [key : 1 .. drawn', intent : Intents, attempt : Nat]
    BY <2>1, <2>4 DEF FormInv, SentInv
  <2>6. PageTypeOK'
    BY <1>1, <1>2, <1>3, <2>1, <2>2, <2>3, <2>4, <2>5 DEF PageTypeOK
  <2>7. PageInv'
    <3>1. \A q \in Posts : ~Waiting(q)'
      BY <1>2, <2>3 DEF Waiting
    <3> QED
      BY <3>1 DEF PageInv
  <2>8. KeyInv'
    BY <1>1, <2>1, <2>2, <2>4, <2>5 DEF KeyInv
  <2>9. SentInv'
    BY <1>1, <1>2, <2>1, <2>4, <2>5 DEF FormInv, SentInv
  <2> QED
    BY <2>6, <2>7, <2>8, <2>9
<1>5. CASE post[p].page # "this"
  <2>1. UNCHANGED <<form, drawn, attempt>>
    BY <1>5 DEF Confirm
  <2>2. form.wait \in Loads \union {None}
    BY <1>1 DEF Form
  <2>3. PageTypeOK'
    BY <1>1, <1>2, <1>3, <2>1, <2>2 DEF FormInv, PageTypeOK
  <2>4. PageInv'
    BY <1>2, <2>1 DEF FormInv, PageInv, Waiting
  <2>5. KeyInv' /\ SentInv'
    <3>1. \A q \in Posts : post'[q].stage # "idle" => post'[q].stage # "conflict"
      BY <1>2 DEF FormInv, SentInv
    <3> QED
      BY <1>1, <1>2, <2>1, <3>1, KeysKept
  <2> QED
    BY <2>3, <2>4, <2>5
<1> QED
  BY <1>4, <1>5

-----------------------------------------------------------------------------
(* The theorems.                                                           *)

LEMMA InitInv == Init => FormInv
<1> SUFFICES ASSUME Init PROVE FormInv
  OBVIOUS
<1>1. /\ open = Opened /\ moved = {} /\ store = EmptyStore /\ newest = None
      /\ balance = [a \in Accounts |-> IF a \in Opened THEN Deposit ELSE 0]
      /\ load = [l \in Loads |-> NoLoad] /\ creation = NoCreation
      /\ wake = TRUE /\ reconciling = None /\ unsure = FALSE
      /\ form = LeftForm /\ post = [p \in Posts |-> NoPost] /\ drawn = 0 /\ sent = {}
      /\ attempt = [number |-> 0, intent |-> None]
  BY DEF Init, InventoryInit
<1>2. InventoryTypeOK
  <2>1. /\ EmptyStore \in [items : Items, loading : BOOLEAN, error : BOOLEAN, loaded : BOOLEAN]
        /\ ~EmptyStore.loading
    BY DEF EmptyStore, Items, NoItems
  <2>2. NoCreation \in [account : Own \union {None}, stage : {"idle", "sent", "opened"}, heard : BOOLEAN]
    BY DEF NoCreation
  <2> QED
    <3>1. balance \in [Accounts -> 0 .. MaxSafe]
      BY <1>1
    <3>2. load \in [Loads -> [stage : {"idle", "sent", "served"}, items : Items]]
      BY <1>1, LoadTypes
    <3>3. {newest, reconciling} \ {None} = {}
      BY <1>1
    <3> QED
      BY <1>1, <2>1, <2>2, <3>1, <3>2, <3>3 DEF InventoryTypeOK
<1>3. StoreInv
  BY <1>1, <1>2 DEF StoreInv, CreationInv, RestInv
<1>4. PageTypeOK
  BY <1>1, FormTypes DEF PageTypeOK
<1>5. PageInv /\ KeyInv /\ SentInv
  BY <1>1, FormTypes DEF PageInv, KeyInv, SentInv, Waiting
<1> QED
  BY <1>3, <1>4, <1>5 DEF FormInv

\* What the inventory does by itself.
LEMMA OfInventoryKeeps ==
  ASSUME FormInv, OfInventory, UNCHANGED formVars
  PROVE  FormInv'
<1>1. load \in [Loads -> [stage : {"idle", "sent", "served"}, items : Items]]
  BY DEF FormInv, StoreInv, InventoryTypeOK
<1> DEFINE Quiet == /\ \A l \in Loads : load[l].stage # "idle" => load'[l].stage # "idle"
                    /\ \A m \in moved' : m \in moved \/ m.from \notin Own
<1>2. ASSUME LoseWake \/ LoseCreation \/ DropCreation \/ ServeCreation
      PROVE  StoreInv' /\ Quiet
  <2>1. StoreInv'
    BY <1>2, LoseWakeKeeps, LoseCreationKeeps, DropCreationKeeps, ServeCreationKeeps DEF FormInv
  <2>2. UNCHANGED <<load, moved>>
    BY <1>2 DEF LoseWake, LoseCreation, DropCreation, ServeCreation, OpenAccount, ledgerVars
  <2> QED
    BY <2>1, <2>2
<1>3. ASSUME NEW l \in Loads, LoadForPage(l) \/ Reconcile(l)
      PROVE  StoreInv' /\ Quiet
  <2>1. /\ StartLoad(l) /\ UNCHANGED <<ledgerVars, creation>>
        /\ wake' \in BOOLEAN /\ reconciling' \in {reconciling, l}
    BY <1>3 DEF LoadForPage, Reconcile, FormInv, StoreInv, InventoryTypeOK
  <2>2. StoreInv'
    BY <2>1, StartLoadKeeps DEF FormInv
  <2>3. Quiet
    BY <1>1, <2>1 DEF StartLoad, ledgerVars
  <2> QED
    BY <2>2, <2>3
<1>4. ASSUME NEW l \in Loads, ServeLoad(l) PROVE StoreInv' /\ Quiet
  BY <1>1, <1>4, ServeLoadKeeps DEF FormInv, ServeLoad, ledgerVars
<1>5. ASSUME NEW m \in Incoming, Receive(m) PROVE StoreInv' /\ Quiet
  <2>1. /\ Move(m) /\ wake' = TRUE /\ m \in Movement
        /\ UNCHANGED <<store, load, newest, creation, reconciling, unsure>>
    BY <1>5 DEF Receive
  <2>2. StoreInv'
    BY <2>1, MoveKeeps DEF FormInv
  <2>3. moved' = moved \union {m}
    BY <2>1 DEF Move
  <2> QED
    BY <2>1, <2>2, <2>3
<1>6. ASSUME NEW a \in Own, SubmitAccount(a) PROVE StoreInv' /\ Quiet
  BY <1>6, SubmitAccountKeeps DEF FormInv, SubmitAccount, ledgerVars
<1>7. StoreInv' /\ Quiet
  BY <1>2, <1>3, <1>4, <1>5, <1>6 DEF OfInventory
<1> QED
  BY <1>7, PageUnchanged DEF FormInv

LEMMA StepInv == FormInv /\ [Next]_vars => FormInv'
<1> SUFFICES ASSUME FormInv, [Next]_vars PROVE FormInv'
  OBVIOUS
<1>1. CASE OfInventory /\ UNCHANGED formVars
  BY <1>1, OfInventoryKeeps
<1>2. ASSUME NEW l \in Loads, EndAnyLoad(l) PROVE FormInv'
  <2>1. StoreInv'
    BY <1>2, EndLoadKeeps DEF EndAnyLoad, FormInv
  <2> QED
    BY <1>2, <2>1, EndAnyLoadKeeps DEF FormInv
<1>3. ASSUME NEW l \in Loads, NEW k \in Keys, OpenForm(k, l) PROVE FormInv'
  <2>1. StoreInv'
    <3>1. CASE UNCHANGED storeVars
      BY <1>3, <3>1, StoreUnchanged DEF OpenForm, FormInv
    <3>2. CASE StartLoad(l) /\ UNCHANGED <<creation, wake, reconciling>>
      BY <1>3, <3>2, StartLoadKeeps DEF OpenForm, FormInv, StoreInv, InventoryTypeOK
    <3> QED
      BY <1>3, <3>1, <3>2 DEF OpenForm
  <2> QED
    BY <1>3, <2>1, OpenFormKeeps DEF FormInv
<1>4. ASSUME NEW p \in Posts, ServePost(p) PROVE FormInv'
  BY <1>4, ServePostKeeps DEF FormInv
<1>5. ASSUME NEW p \in Posts, FailPost(p) PROVE FormInv'
  BY <1>5, FailPostKeeps, StoreUnchanged DEF FailPost, FormInv
<1>6. ASSUME NEW p \in Posts, DropPost(p) PROVE FormInv'
  BY <1>6, DropPostKeeps, StoreUnchanged DEF DropPost, FormInv
<1>7. ASSUME NEW p \in Posts, NEW k \in Keys, NEW i \in Intents, Submit(p, i, k) PROVE FormInv'
  BY <1>7, SubmitKeeps, StoreUnchanged DEF Submit, FormInv
<1>8. ASSUME NEW p \in Posts, NEW k \in Keys, NEW l \in Loads, Confirm(p, k, l) PROVE FormInv'
  <2>1. StoreInv'
    BY <1>8, StartLoadKeeps DEF Confirm, FormInv, StoreInv, InventoryTypeOK
  <2> QED
    BY <1>8, <2>1, ConfirmKeeps DEF FormInv
<1>9. CASE LeaveForm
  <2>1. form' = LeftForm /\ post' = LeftPosts /\ UNCHANGED <<drawn, attempt, sent, moved>>
    BY <1>9 DEF LeaveForm, ledgerVars
  <2>2. StoreInv'
    BY <1>9, StoreUnchanged DEF LeaveForm, FormInv
  <2> QED
    BY <2>1, <2>2, LeavingKeeps DEF FormInv
<1>10. CASE EndCreationAtHome
  <2>1. form' = LeftForm /\ post' = LeftPosts /\ UNCHANGED <<drawn, attempt, sent, moved>>
    BY <1>10 DEF EndCreationAtHome, EndCreation, ledgerVars
  <2>2. StoreInv'
    BY <1>10, EndCreationKeeps DEF EndCreationAtHome, FormInv
  <2> QED
    BY <2>1, <2>2, LeavingKeeps DEF FormInv
<1>11. CASE SignOut
  <2>1. StoreInv'
    BY <1>11, ResetKeeps DEF SignOut, FormInv
  <2> QED
    BY <1>11, <2>1, SigningOutKeeps DEF FormInv
<1>12. CASE UNCHANGED vars
  <2>1. UNCHANGED formVars /\ UNCHANGED <<ledgerVars, storeVars>> /\ UNCHANGED <<load, moved>>
    BY <1>12 DEF vars, formVars, ledgerVars, storeVars
  <2>2. StoreInv'
    BY <2>1, StoreUnchanged DEF FormInv
  <2> QED
    BY <2>1, <2>2, PageUnchanged DEF FormInv
<1> QED
  BY <1>1, <1>2, <1>3, <1>4, <1>5, <1>6, <1>7, <1>8, <1>9, <1>10, <1>11, <1>12 DEF Next

\* The inductive invariant of the form and the inventory it shows.
THEOREM FormInvariant == Spec => []FormInv
BY InitInv, StepInv, PTL DEF Spec

\* Types, and which load and which promise each field refers to.
THEOREM FormTyped == Spec => []TypeOK
<1>1. FormInv => TypeOK
  BY DEF FormInv, StoreInv, PageTypeOK, TypeOK
<1> QED
  BY <1>1, FormInvariant, PTL

\* An attempt moves its money once, however it is retried, and a key is never
\* sent with two intents.
THEOREM AttemptsMoveOnce == Spec => []RetriesAreSafe
<1>1. FormInv => RetriesAreSafe
  <2> SUFFICES ASSUME FormInv PROVE RetriesAreSafe
    OBVIOUS
  <2>1. \A p \in Posts : post[p].stage # "conflict"
    BY DEF FormInv, SentInv
  <2> QED
    BY <2>1 DEF FormInv, SentInv, RetriesAreSafe
<1> QED
  BY <1>1, FormInvariant, PTL

\* What is shown at rest is what the ledger holds.
THEOREM ShownAtRestIsTrue == Spec => []InventoryTrue
<1>1. FormInv => InventoryTrue
  <2> SUFFICES ASSUME FormInv PROVE InventoryTrue
    OBVIOUS
  <2>1. ~store.loading => newest = None
    BY DEF FormInv, StoreInv, InventoryTypeOK
  <2> QED
    BY <2>1 DEF FormInv, StoreInv, RestInv, InventoryTrue
<1> QED
  BY <1>1, FormInvariant, PTL
=============================================================================
