---------------------------- MODULE Notifications ----------------------------
(***************************************************************************)
(* The notification history of one owner and one tab's view of it:         *)
(* notification_tx.go under its advisory lock, and NotificationsStore with *)
(* reconcile, loadMore, markRead and markAllRead, whose requests are       *)
(* served and answered in any order.                                       *)
(*                                                                         *)
(* The store is three processes that share its fields: the reconciliation  *)
(* (round), loadMore (more) and the head of the queue of mutations (mark). *)
(* Each request is a step to be served and a step to be answered; what     *)
(* runs between two awaits is one action.  Instead of the two epochs, a    *)
(* process remembers that a mutation succeeded (mutated) or a round began  *)
(* (superseded) since its request was sent.  A row is its rank in          *)
(* (created_at, id).  How wake-ups reach the tab is in Delivery, the       *)
(* change of sessions in BrowserAuth; the account activity is left out.    *)
(***************************************************************************)
EXTENDS Naturals, FiniteSets, Sequences, FiniteSetsExt

CONSTANTS
  Ids,        \* the rows that may come to exist, by rank
  Histories,  \* the sets of unread rows to begin with
  PageSize,   \* 20
  MaxInputs,  \* bound: transfers, marks, looks
  None

ASSUME IdsAssumption == IsFiniteSet(Ids) /\ Ids \subseteq Nat /\ None \notin Ids
ASSUME HistoriesAssumption == Histories \subseteq SUBSET Ids
ASSUME BoundsAssumption == PageSize \in Nat \ {0} /\ MaxInputs \in Nat

VARIABLES
  committed, read,   \* the owner's rows, and those with read_at
  tx,                \* the open mark transaction of this tab and of another
  elsewhere,         \* history: rows first marked by another
  shown, seen,       \* items, and those with read_at
  count, cursor,     \* unreadCount, nextCursor
  loadedPages, hasBaseline, error,
  known, pendingLive, toasted,   \* knownIds; pendingLive; history: rows that had a toast
  round, queued,     \* runReconciliations with reconcileOnce; queuedReason
  more,              \* loadMore
  mark, todo,        \* the mutation under way, the queued ones
  wake,              \* a wake-up is on its way
  regressed,         \* history: count was replaced by an older answer
  inputs             \* used up of the bound

server == <<committed, read, tx, elsewhere>>
page == <<shown, seen, count, cursor>>
toasts == <<known, pendingLive, toasted>>
mutations == <<mark, todo>>
world == <<wake, inputs>>
vars == <<server, page, loadedPages, hasBaseline, error, toasts, round, queued, more,
          mutations, regressed, world>>

-----------------------------------------------------------------------------
(* Reading pages.                                                          *)

Unread == Cardinality(committed \ read)

\* ListNotificationsPage: rows and count are of one snapshot.
PageBelow(c) ==
  LET older == {i \in committed : c = None \/ i < c}
      rows == {i \in older : Cardinality({j \in older : j > i}) < PageSize}
  IN [rows |-> rows, read |-> rows \intersect read, count |-> Unread,
      next |-> IF Cardinality(older) > PageSize THEN Min(rows) ELSE None]

\* Something happens that is not a step of what is under way.
Input == inputs < MaxInputs /\ inputs' = inputs + 1

NoPage == [rows |-> {}, read |-> {}, count |-> 0, next |-> None]
Off == [step |-> "off"]
InFlight(p) == p.step \in {"asked", "answered"}

-----------------------------------------------------------------------------
(* Marking rows as read on the server.                                     *)

NoTx == [step |-> "none", ids |-> {}, count |-> 0]
Open(w) == tx[w].step # "none"

\* Defect: no lock is taken.
OwnerFreeAlways(w) == ~Open(w)

\* LockNotificationOwner.
OwnerFree(w) == \A v \in DOMAIN tx : ~Open(v)

MarkIn(w, ids) ==
  /\ OwnerFree(w)
  /\ tx' = [tx EXCEPT ![w] = [NoTx EXCEPT !.step = "marked", !.ids = ids]]

\* MarkNotificationRead, MarkAllNotificationsRead for this tab's request.
BeginMark ==
  /\ mark.step = "asked" /\ ~Open("mine")
  /\ MarkIn("mine", IF mark.all THEN committed \ read ELSE mark.ids)
  /\ UNCHANGED <<committed, read, elsewhere, page, loadedPages, hasBaseline, error, toasts,
                 round, queued, more, mutations, regressed, world>>

\* Another tab marks a row or all.
MarkElsewhere ==
  /\ Input
  /\ \E ids \in {{i} : i \in committed} \union {committed \ read} : MarkIn("other", ids)
  /\ UNCHANGED <<committed, read, elsewhere, page, loadedPages, hasBaseline, error, toasts,
                 round, queued, more, mutations, regressed, wake>>

\* CountUnreadNotifications.
CountUnread(w) ==
  /\ tx[w].step = "marked"
  /\ tx' = [tx EXCEPT ![w].step = "counted",
                      ![w].count = Cardinality(committed \ (read \union tx[w].ids))]
  /\ UNCHANGED <<committed, read, elsewhere, page, loadedPages, hasBaseline, error, toasts,
                 round, queued, more, mutations, regressed, world>>

CommitMark(w) ==
  /\ tx[w].step = "counted"
  /\ read' = read \union tx[w].ids
  /\ tx' = [tx EXCEPT ![w] = NoTx]
  /\ IF w = "mine"
       THEN mark' = [mark EXCEPT !.step = "answered", !.count = tx[w].count] /\ UNCHANGED elsewhere
       ELSE elsewhere' = elsewhere \union (tx[w].ids \ read) /\ UNCHANGED mark
  /\ UNCHANGED <<committed, page, loadedPages, hasBaseline, error, toasts,
                 round, queued, more, todo, regressed, world>>

\* A transfer commits a row.  Its rank is that of the transaction's start.
Transfer ==
  /\ Input
  /\ \E i \in Ids \ committed : committed' = committed \union {i}
  /\ wake' = TRUE
  /\ UNCHANGED <<read, tx, elsewhere, page, loadedPages, hasBaseline, error, toasts,
                 round, queued, more, mutations, regressed>>

-----------------------------------------------------------------------------
(* Reconciliation.                                                         *)

\* mergeQueuedReason; of the reasons only "live" matters.
Merge(current, next) == IF "live" \in {current, next} THEN "live" ELSE next

Round(reason) ==
  [step |-> "asked", reason |-> reason, rows |-> {}, read |-> {}, pages |-> 0,
   cursor |-> None, reply |-> NoPage, mutated |-> FALSE]

Superseded(m) == IF InFlight(m) THEN [m EXCEPT !.superseded = TRUE] ELSE m
Mutated(p) == IF InFlight(p) THEN [p EXCEPT !.mutated = TRUE] ELSE p

\* reconcileForSession; the action has made m of loadMore and r of the round.
Reconcile(reason, m, r) ==
  IF r.step = "off"
    THEN /\ round' = Round(reason) /\ error' = FALSE
         /\ more' = Superseded(m)
         /\ UNCHANGED queued
    ELSE /\ queued' = Merge(queued, reason)
         /\ round' = r /\ more' = m
         /\ UNCHANGED error

\* Defect: the queued reason is not cleared.
NextRoundAgain(reason, failed) ==
  IF reason = "none"
    THEN /\ round' = Off /\ error' = failed
         /\ UNCHANGED <<queued, more>>
    ELSE /\ round' = Round(reason) /\ error' = FALSE
         /\ more' = Superseded(more)
         /\ queued' = reason

\* Defect: the reason queued meanwhile waits for the next call.
NextRoundOnce(reason, failed) ==
  /\ round' = Off /\ error' = failed
  /\ UNCHANGED <<queued, more>>

\* The loop of runReconciliations, and the end of the promise.
NextRound(reason, failed) ==
  /\ queued' = "none"
  /\ IF reason = "none"
       THEN /\ round' = Off /\ error' = failed
            /\ UNCHANGED more
       ELSE /\ round' = Round(reason) /\ error' = FALSE
            /\ more' = Superseded(more)

ServeRound ==
  /\ round.step = "asked"
  /\ round' = [round EXCEPT !.step = "answered", !.reply = PageBelow(round.cursor)]
  /\ UNCHANGED <<server, page, loadedPages, hasBaseline, error, toasts, queued, more,
                 mutations, regressed, world>>

\* A mutation succeeded since the round began: its pages are dropped.
DropRound ==
  /\ round.step = "answered" /\ round.mutated
  /\ NextRound(Merge(queued, "recovery"), FALSE)
  /\ UNCHANGED <<server, page, loadedPages, hasBaseline, toasts, mutations, regressed, world>>

Rows == round.rows \union round.reply.rows
ReadRows == (round.read \ round.reply.rows) \union round.reply.read
LastPage == round.pages + 1 >= loadedPages \/ round.reply.next = None

ReadOn ==
  /\ round.step = "answered" /\ ~round.mutated /\ ~LastPage
  /\ round' = [round EXCEPT !.step = "asked", !.rows = Rows, !.read = ReadRows,
                            !.pages = @ + 1, !.cursor = round.reply.next]
  /\ UNCHANGED <<server, page, loadedPages, hasBaseline, error, toasts, queued, more,
                 mutations, regressed, world>>

\* The answer of a mark is older than the page that is shown now.
Overtaken == mark' = IF mark.step = "answered" \/ tx["mine"].step = "counted"
                       THEN [mark EXCEPT !.overtaken = TRUE] ELSE mark

\* Defect: rows are toasted although they were known before.
NewRowsAll == Rows

\* The rows that were not shown before.
NewRows == Rows \ known

ShowRound ==
  /\ round.step = "answered" /\ ~round.mutated /\ LastPage
  /\ shown' = Rows /\ seen' = ReadRows
  /\ count' = round.reply.count /\ cursor' = round.reply.next /\ regressed' = FALSE
  /\ loadedPages' = round.pages + 1 /\ hasBaseline' = TRUE
  /\ known' = known \union Rows
  /\ pendingLive' = pendingLive \union
       IF hasBaseline /\ round.reason = "live" THEN NewRows ELSE {}
  /\ round' = [round EXCEPT !.step = "accounts"]
  /\ Overtaken
  /\ UNCHANGED <<server, error, toasted, queued, more, todo, world>>

\* accounts.load, and publishPendingToasts if it succeeded.
AccountsLoaded ==
  /\ round.step = "accounts"
  /\ \/ toasted' = toasted \union pendingLive /\ pendingLive' = {}
     \/ UNCHANGED <<toasted, pendingLive>>
  /\ NextRound(queued, error)
  /\ UNCHANGED <<server, page, loadedPages, hasBaseline, known, mutations, regressed, world>>

\* A page's request fails.
RoundFails ==
  /\ InFlight(round)
  /\ NextRound(queued, TRUE)
  /\ UNCHANGED <<server, page, loadedPages, hasBaseline, toasts, mutations, regressed, world>>

\* The stream delivers a wake-up.
Wake ==
  /\ wake /\ wake' = FALSE
  /\ Reconcile("live", more, round)
  /\ UNCHANGED <<server, page, loadedPages, hasBaseline, toasts, mutations, regressed, inputs>>

\* The tab becomes visible, its stream connects, the user asks for it.
Look ==
  /\ Input
  /\ Reconcile("other", more, round)
  /\ UNCHANGED <<server, page, loadedPages, hasBaseline, toasts, mutations, regressed, wake>>

-----------------------------------------------------------------------------
(* loadMore.                                                               *)

Waiting == [step |-> "waiting"]
NextPage ==
  [step |-> "asked", cursor |-> cursor, reply |-> NoPage, superseded |-> FALSE, mutated |-> FALSE]

LoadMore ==
  /\ more = Off /\ cursor # None
  /\ more' = IF round = Off THEN NextPage ELSE Waiting
  /\ UNCHANGED <<server, page, loadedPages, hasBaseline, error, toasts, round, queued,
                 mutations, regressed, world>>

\* The reconciliation it waited for has ended: the cursor is the current one.
ResumeMore ==
  /\ more = Waiting /\ round = Off
  /\ more' = IF cursor = None THEN Off ELSE NextPage
  /\ UNCHANGED <<server, page, loadedPages, hasBaseline, error, toasts, round, queued,
                 mutations, regressed, world>>

ServeMore ==
  /\ more.step = "asked"
  /\ more' = [more EXCEPT !.step = "answered", !.reply = PageBelow(more.cursor)]
  /\ UNCHANGED <<server, page, loadedPages, hasBaseline, error, toasts, round, queued,
                 mutations, regressed, world>>

DropMore ==
  /\ more.step = "answered"
  /\ \/ more.mutated /\ Reconcile("other", Waiting, round)
     \/ ~more.mutated /\ more.superseded /\ more' = Waiting /\ UNCHANGED <<round, queued, error>>
  /\ UNCHANGED <<server, page, loadedPages, hasBaseline, toasts, mutations, regressed, world>>

MoreCurrent == more.step = "answered" /\ ~more.mutated /\ ~more.superseded

ShowMore ==
  /\ MoreCurrent
  /\ shown' = shown \union more.reply.rows
  /\ seen' = (seen \ more.reply.rows) \union more.reply.read
  /\ count' = more.reply.count /\ cursor' = more.reply.next /\ regressed' = FALSE
  /\ loadedPages' = loadedPages + 1
  /\ known' = known \union more.reply.rows
  /\ more' = Off
  /\ Overtaken
  /\ UNCHANGED <<server, hasBaseline, error, pendingLive, toasted, round, queued, todo, world>>

MoreFails ==
  /\ InFlight(more) /\ more' = Off
  /\ UNCHANGED <<server, page, loadedPages, hasBaseline, error, toasts, round, queued,
                 mutations, regressed, world>>

-----------------------------------------------------------------------------
(* markRead and markAllRead.                                               *)

Click ==
  /\ Input
  /\ \/ \E i \in shown \ seen : todo' = Append(todo, [all |-> FALSE, ids |-> {i}])
     \/ count > 0 /\ todo' = Append(todo, [all |-> TRUE, ids |-> shown \ seen])
  /\ UNCHANGED <<server, page, loadedPages, hasBaseline, error, toasts, round, queued, more,
                 mark, regressed, wake>>

Minus(m, n) == IF m > n THEN m - n ELSE 0

\* The head of the queue: a row that is gone or read by now needs nothing.
StartMark ==
  /\ mark = Off /\ todo # <<>> /\ todo' = Tail(todo)
  /\ LET ids == Head(todo).ids
         held == ids \intersect shown IN
     IF ~Head(todo).all /\ ids \intersect (shown \ seen) = {}
       THEN UNCHANGED <<mark, seen, count>>
       ELSE /\ mark' = [step |-> "asked", all |-> Head(todo).all, ids |-> ids, held |-> held,
                        wasRead |-> held \intersect seen, wasCount |-> count,
                        count |-> 0, overtaken |-> FALSE]
            /\ seen' = seen \union held
            /\ count' = Minus(count, Cardinality(held))
  /\ UNCHANGED <<server, shown, cursor, loadedPages, hasBaseline, error, toasts, round, queued,
                 more, regressed, world>>

\* Defect: mutationEpoch is not advanced.
MarkedSameEpoch ==
  /\ mark.step = "answered" /\ mark' = Off
  /\ seen' = seen \union (mark.ids \intersect shown)
  /\ count' = mark.count /\ regressed' = mark.overtaken
  /\ IF mark.all /\ shown \ seen' # {}
       THEN Reconcile("recovery", more, round)
       ELSE UNCHANGED <<round, queued, more, error>>
  /\ UNCHANGED <<server, shown, cursor, loadedPages, hasBaseline, toasts, todo, world>>

\* The answer: it is the authority on the count, and pages under way are older.
Marked ==
  /\ mark.step = "answered" /\ mark' = Off
  /\ seen' = seen \union (mark.ids \intersect shown)
  /\ count' = mark.count /\ regressed' = mark.overtaken
  /\ IF mark.all /\ shown \ seen' # {}
       THEN Reconcile("recovery", Mutated(more), Mutated(round))
       ELSE /\ round' = Mutated(round) /\ more' = Mutated(more)
            /\ UNCHANGED <<queued, error>>
  /\ UNCHANGED <<server, shown, cursor, loadedPages, hasBaseline, toasts, todo, world>>

\* No answer: what was shown before is shown again, and read anew.  The server's
\* transaction was rolled back, or was committed, or goes on without its client.
MarkFails ==
  /\ InFlight(mark) /\ mark' = [step |-> "recovering"]
  /\ seen' = (seen \ mark.held) \union (mark.wasRead \intersect shown)
  /\ count' = mark.wasCount
  /\ \/ tx' = [tx EXCEPT !["mine"] = NoTx]
     \/ Open("mine") /\ ~Open("other") /\ tx' = [tx EXCEPT !["other"] = tx["mine"], !["mine"] = NoTx]
  /\ Reconcile("recovery", more, round)
  /\ UNCHANGED <<committed, read, elsewhere, shown, cursor, loadedPages, hasBaseline, toasts,
                 todo, regressed, world>>

\* The recovery that a failed mutation waits for has ended.
EndRecovery ==
  /\ mark.step = "recovering" /\ round = Off
  /\ mark' = Off
  /\ UNCHANGED <<server, page, loadedPages, hasBaseline, error, toasts, round, queued, more,
                 todo, regressed, world>>
-----------------------------------------------------------------------------
Init ==
  /\ committed \in Histories /\ read = {}
  /\ tx = [w \in {"mine", "other"} |-> NoTx] /\ elsewhere = {}
  /\ shown = {} /\ seen = {} /\ count = 0 /\ cursor = None
  /\ loadedPages = 1 /\ hasBaseline = FALSE /\ error = FALSE
  /\ known = {} /\ pendingLive = {} /\ toasted = {}
  /\ round = Round("initial") /\ queued = "none"
  /\ more = Off /\ mark = Off /\ todo = <<>>
  /\ wake = FALSE /\ regressed = FALSE /\ inputs = 0

AtRest == round = Off /\ more = Off /\ mark = Off /\ todo = <<>> /\ ~wake

\* Nothing waits: the only state in which no step need follow.
Quiescent == AtRest /\ tx["other"] = NoTx /\ UNCHANGED vars

RoundStep == ServeRound \/ DropRound \/ ReadOn \/ ShowRound \/ AccountsLoaded
MoreStep == ResumeMore \/ ServeMore \/ DropMore \/ ShowMore
MarkStep == StartMark \/ BeginMark \/ Marked \/ EndRecovery
TxStep(w) == CountUnread(w) \/ CommitMark(w)
Failure == RoundFails \/ MoreFails \/ MarkFails

Next ==
  \/ Transfer \/ MarkElsewhere \/ Look \/ LoadMore \/ Click
  \/ Wake \/ RoundStep \/ MoreStep \/ MarkStep
  \/ \E w \in DOMAIN tx : TxStep(w)
  \/ Failure
  \/ Quiescent

Spec == Init /\ [][Next]_vars

\* Requests are served and answered, or fail; transactions end; the browser
\* runs what it was told to.
FairSpec ==
  /\ Spec /\ WF_vars(Wake)
  /\ WF_vars(RoundStep) /\ WF_vars(MoreStep) /\ WF_vars(MarkStep)
  /\ \A w \in {"mine", "other"} : WF_vars(TxStep(w))
-----------------------------------------------------------------------------
(* Properties.                                                             *)

Reasons == {"initial", "live", "other", "recovery"}

TypeOK ==
  /\ read \subseteq committed /\ committed \subseteq Ids
  /\ elsewhere \subseteq read /\ seen \subseteq shown /\ shown \subseteq committed
  /\ toasted \union pendingLive \subseteq known /\ known \subseteq committed
  /\ count \in Nat /\ cursor \in Ids \union {None}
  /\ loadedPages \in Nat \ {0} /\ {hasBaseline, error, wake, regressed} \subseteq BOOLEAN
  /\ round = Off \/ (round.reason \in Reasons /\ round.step \in {"asked", "answered", "accounts"})
  /\ queued \in Reasons \union {"none"} /\ (round = Off => queued = "none")
  /\ more \in {Off, Waiting} \/ InFlight(more)
  /\ mark = Off \/ mark.step \in {"asked", "answered", "recovering"}
  /\ \A w \in DOMAIN tx : tx[w].step \in {"none", "marked", "counted"} /\ tx[w].ids \subseteq committed

\* What the user sees when nothing is under way and no error is shown.
Settled == AtRest /\ ~error

\* Whatever was read, marked, loaded, dropped and rolled back on the way: the
\* rows shown are the newest without a gap, and older ones can be asked for
\* exactly if there are any.
NoGap ==
  Settled =>
    /\ shown = {i \in committed : cursor = None \/ i >= cursor}
    /\ cursor # None => cursor \in shown /\ shown # committed

\* And each row is shown as read exactly if it is, except for marks made by
\* another tab, of which nobody tells.
FlagsTrue ==
  Settled => seen \subseteq read /\ (shown \intersect read) \ elsewhere \subseteq seen

\* The unread count agrees with the history, unless another tab has marked rows
\* or an answer that a newer page had overtaken has replaced the count.
CountTrue == Settled /\ elsewhere = {} /\ ~regressed => count = Unread

\* What the user is shown is what the database holds.
HistoryTrue == NoGap /\ FlagsTrue /\ CountTrue

\* Audit F-05: "global metadata must not regress behind a newer snapshot".
CountNeverStale == Settled /\ elsewhere = {} => count = Unread

\* The lock on the owner: a mark never counts as unread a row that another mark
\* has read.  Rows that come to exist meanwhile are not in its count.
MarksCountMarks ==
  \A w \in DOMAIN tx :
    tx[w].step = "counted" => tx[w].count <= Cardinality(committed \ (read \union tx[w].ids))

\* A row has one toast at most, however often it is read again and however
\* often the accounts, for which its toast waits, fail to load.
ToastOnce == pendingLive \intersect toasted = {}

\* loadMore and a failed mutation wait for the reconciliation, which is begun
\* again by wake-ups and by what it dropped: all of it comes to an end.
ComesToRest == []<>AtRest
=============================================================================
