------------------------------ MODULE Delivery ------------------------------
(***************************************************************************)
(* How a committed notification reaches the owner's browser tabs: NOTIFY,  *)
(* the LISTEN connection and the hub of each replica, the SSE stream and    *)
(* the client's re-reading of the notification page.                       *)
(*                                                                         *)
(* All that is modelled belongs to one owner.  Wake-ups carry an id which  *)
(* the client ignores, so queues and buffers are counts.  Marks, toasts    *)
(* and the change of the session are not in this module.                   *)
(***************************************************************************)
EXTENDS Integers

CONSTANTS
  Replicas,
  Clients,      \* tabs
  Buffer,       \* subscriberBuffer, which is 16
  MaxCommits    \* bound: notifications committed

ASSUME BufferAssumption == Buffer \in Nat \ {0}
ASSUME CommitsAssumption == MaxCommits \in Nat

VARIABLES
  committed,    \* the owner's notifications in the database
  up,           \* the replicas whose process serves
  listening,    \* the replicas whose LISTEN connection is up
  queue,        \* notifications PostgreSQL has queued for each replica
  phase,        \* each client's stream, as the client sees it
  on,           \* the replica that serves, or last served, the stream
  alive,        \* the clients whose stream has a handler, and a subscription
  buffer,       \* wake-ups in each subscriber's channel
  wire,         \* wake-ups written to the stream and not read
  run,          \* each client's reconciliation
  snapshot,     \* what the read in flight found
  queued,       \* the clients with a queued reason
  error,        \* the clients that show that their last read failed
  seen,         \* the notifications each client shows
  missed        \* history: the clients whose replica did not hear the last commit

database == <<committed>>
replicas == <<up, listening, queue>>
streams == <<on, alive, buffer, wire>>
reads == <<run, snapshot, queued, error, seen>>
vars == <<database, replicas, streams, phase, reads, missed>>

-----------------------------------------------------------------------------
(* PostgreSQL and the replicas.                                            *)

Set(f, S, value) == [x \in DOMAIN f |-> IF x \in S THEN value ELSE f[x]]
Served(r) == {c \in alive : on[c] = r}

\* A transfer commits: NOTIFY reaches the sessions that listen.
Commit ==
  /\ committed < MaxCommits
  /\ committed' = committed + 1
  /\ queue' = [r \in Replicas |-> IF r \in listening THEN queue[r] + 1 ELSE queue[r]]
  /\ missed' = {c \in alive : on[c] \notin listening}
  /\ UNCHANGED <<up, listening, streams, phase, reads>>

\* Defect: Publish has no default branch.
PublishUnbounded(r) ==
  /\ queue[r] > 0
  /\ queue' = [queue EXCEPT ![r] = @ - 1]
  /\ buffer' = [c \in Clients |-> IF c \in Served(r) THEN buffer[c] + 1 ELSE buffer[c]]
  /\ UNCHANGED <<database, up, listening, on, alive, wire, phase, reads, missed>>

\* The listener takes a notification and the hub offers it to the subscribers.
Publish(r) ==
  /\ queue[r] > 0
  /\ queue' = [queue EXCEPT ![r] = @ - 1]
  /\ buffer' = [c \in Clients |->
       IF c \in Served(r) /\ buffer[c] < Buffer THEN buffer[c] + 1 ELSE buffer[c]]
  /\ UNCHANGED <<database, up, listening, on, alive, wire, phase, reads, missed>>

\* The LISTEN connection is lost, with what was queued for it.
Outage(r) ==
  /\ r \in listening
  /\ listening' = listening \ {r}
  /\ queue' = [queue EXCEPT ![r] = 0]
  /\ missed' = missed \union (IF queue[r] > 0 THEN Served(r) ELSE {})
  /\ UNCHANGED <<database, up, streams, phase, reads>>

Relisten(r) ==
  /\ r \in up \ listening
  /\ listening' = listening \union {r}
  /\ UNCHANGED <<database, up, queue, streams, phase, reads, missed>>

\* The streams of S break; a client still waiting for the response is told.
Sever(S) ==
  /\ alive' = alive \ S
  /\ buffer' = Set(buffer, S, 0) /\ wire' = Set(wire, S, 0)
  /\ phase' = [c \in Clients |-> IF c \in S /\ phase[c] = "subscribed" THEN "closed" ELSE phase[c]]
  /\ UNCHANGED on

\* The process ends, in good order or not.
Crash(r) ==
  /\ r \in up
  /\ up' = up \ {r} /\ listening' = listening \ {r} /\ queue' = [queue EXCEPT ![r] = 0]
  /\ Sever(Served(r))
  /\ UNCHANGED <<database, reads, missed>>

\* HTTP is served only once the listener listens.
Boot(r) ==
  /\ r \notin up
  /\ up' = up \union {r} /\ listening' = listening \union {r}
  /\ UNCHANGED <<database, queue, streams, phase, reads, missed>>

-----------------------------------------------------------------------------
(* streamNotifications.                                                    *)

At(c, from, to) == phase[c] = from /\ phase' = [phase EXCEPT ![c] = to]

\* Defect: the handler writes its first frame before it subscribes.
SubscribeLate(c, r) ==
  \/ /\ At(c, "asked", "subscribed") /\ r \in up
     /\ on' = [on EXCEPT ![c] = r]
     /\ UNCHANGED <<database, replicas, alive, buffer, wire, reads, missed>>
  \/ /\ phase[c] \in {"subscribed", "connected", "reading"} /\ on[c] = r /\ r \in up
     /\ alive' = alive \union {c}
     /\ UNCHANGED <<database, replicas, on, buffer, wire, phase, reads, missed>>

\* The handler subscribes, then writes ": connected".
Subscribe(c, r) ==
  /\ At(c, "asked", "subscribed") /\ r \in up
  /\ on' = [on EXCEPT ![c] = r]
  /\ alive' = alive \union {c}
  /\ missed' = missed \ {c}
  /\ UNCHANGED <<database, replicas, buffer, wire, reads>>

Write(c) ==
  /\ c \in alive /\ buffer[c] > 0
  /\ buffer' = [buffer EXCEPT ![c] = @ - 1]
  /\ wire' = [wire EXCEPT ![c] = @ + 1]
  /\ UNCHANGED <<database, replicas, on, alive, phase, reads, missed>>

\* Defect: the stream outlives the access token.
NoDeadline(c) == FALSE /\ c \in alive /\ UNCHANGED vars

\* The access token the stream was opened with expires: the handler returns
\* and unsubscribes; what it has written is still read.
Deadline(c) ==
  /\ c \in alive
  /\ alive' = alive \ {c}
  /\ buffer' = [buffer EXCEPT ![c] = 0]
  /\ UNCHANGED <<database, replicas, on, wire, phase, reads, missed>>

\* The connection of the stream breaks.
Break(c) ==
  /\ phase[c] \in {"subscribed", "connected", "reading"}
  /\ Sever({c})
  /\ UNCHANGED <<database, replicas, reads, missed>>

-----------------------------------------------------------------------------
(* The client's reconciliation.                                            *)

Rounds == {"sent", "served", "applied"}

\* Defect: a reason that comes while a reconciliation runs is dropped.
ReconcileUnqueued(c) ==
  /\ run' = [run EXCEPT ![c] = IF run[c] = "idle" THEN "sent" ELSE @]
  /\ error' = IF run[c] = "idle" THEN error \ {c} ELSE error
  /\ UNCHANGED <<snapshot, queued, seen>>

\* reconcile: one reconciliation at a time, and one queued reason.
Reconcile(c) ==
  /\ \/ /\ run[c] = "idle"
        /\ run' = [run EXCEPT ![c] = "sent"] /\ error' = error \ {c} /\ UNCHANGED queued
     \/ /\ run[c] # "idle"
        /\ queued' = queued \union {c} /\ UNCHANGED <<run, error>>
  /\ UNCHANGED <<snapshot, seen>>

\* The loop of runReconciliations after a round: the queued reason, or the
\* end, for which a stream that has just connected waits.
NextRound(c, failed) ==
  /\ queued' = queued \ {c}
  /\ \/ /\ c \in queued
        /\ run' = [run EXCEPT ![c] = "sent"] /\ error' = error \ {c} /\ UNCHANGED phase
     \/ /\ c \notin queued
        /\ run' = [run EXCEPT ![c] = "idle"]
        /\ error' = IF failed THEN error \union {c} ELSE error
        /\ phase' = [phase EXCEPT ![c] = IF @ = "connected" THEN "reading" ELSE @]

\* The database answers the page request.
Serve(c) ==
  /\ run[c] = "sent"
  /\ run' = [run EXCEPT ![c] = "served"]
  /\ snapshot' = [snapshot EXCEPT ![c] = committed]
  /\ missed' = missed \ {c}
  /\ UNCHANGED <<database, replicas, streams, phase, queued, error, seen>>

Apply(c) ==
  /\ run[c] = "served"
  /\ run' = [run EXCEPT ![c] = "applied"]
  /\ seen' = [seen EXCEPT ![c] = snapshot[c]]
  /\ UNCHANGED <<database, replicas, streams, phase, snapshot, queued, error, missed>>

ReadFails(c) ==
  /\ run[c] \in {"sent", "served"}
  /\ NextRound(c, TRUE)
  /\ UNCHANGED <<database, replicas, streams, snapshot, seen, missed>>

\* accounts.load has answered, well or not.
AccountsLoaded(c) ==
  /\ run[c] = "applied"
  /\ NextRound(c, FALSE)
  /\ UNCHANGED <<database, replicas, streams, snapshot, seen, missed>>

\* The tab becomes visible, or its user asks for a refresh.
Look(c) == Reconcile(c) /\ UNCHANGED <<database, replicas, streams, phase, missed>>

-----------------------------------------------------------------------------
(* The client's stream loop.                                               *)

\* The delay is over.
Ask(c) ==
  /\ At(c, "closed", "asked")
  /\ UNCHANGED <<database, replicas, streams, reads, missed>>

AskFails(c) ==
  /\ At(c, "asked", "closed")
  /\ UNCHANGED <<database, replicas, streams, reads, missed>>

\* Defect: the client starts to consume at once.
ConnectedOnly(c) ==
  /\ At(c, "subscribed", "reading")
  /\ UNCHANGED <<database, replicas, streams, reads, missed>>

\* The response arrives: reconcile, and wait for it.
Connected(c) ==
  /\ At(c, "subscribed", "connected")
  /\ Reconcile(c)
  /\ UNCHANGED <<database, replicas, streams, missed>>

ReadFrame(c) ==
  /\ phase[c] = "reading" /\ wire[c] > 0
  /\ wire' = [wire EXCEPT ![c] = @ - 1]
  /\ Reconcile(c)
  /\ UNCHANGED <<database, replicas, on, alive, buffer, phase, missed>>

\* The stream's end, or its failure, is read.
Ended(c) ==
  /\ At(c, "reading", "closed") /\ wire[c] = 0 /\ c \notin alive
  /\ UNCHANGED <<database, replicas, streams, reads, missed>>

Init ==
  /\ committed = 0
  /\ up = Replicas /\ listening = Replicas /\ queue = [r \in Replicas |-> 0]
  /\ on \in [Clients -> Replicas] /\ alive = {}
  /\ phase = [c \in Clients |-> "asked"]
  /\ buffer = [c \in Clients |-> 0] /\ wire = [c \in Clients |-> 0]
  /\ run = [c \in Clients |-> "sent"] /\ snapshot = [c \in Clients |-> 0]
  /\ queued = {} /\ error = {} /\ seen = [c \in Clients |-> 0]
  /\ missed = {}

ReplicaNext(r) == Publish(r) \/ Outage(r) \/ Relisten(r) \/ Crash(r) \/ Boot(r)

StreamNext(c) ==
  \/ \E r \in Replicas : Subscribe(c, r)
  \/ Write(c) \/ Deadline(c) \/ Break(c)
  \/ Ask(c) \/ AskFails(c) \/ Connected(c) \/ ReadFrame(c) \/ Ended(c)

ReadNext(c) == Serve(c) \/ Apply(c) \/ ReadFails(c) \/ AccountsLoaded(c) \/ Look(c)

Next ==
  \/ Commit
  \/ \E r \in Replicas : ReplicaNext(r)
  \/ \E c \in Clients : StreamNext(c) \/ ReadNext(c)

Spec == Init /\ [][Next]_vars

\* Processes are restarted and access tokens expire; the client's loops go on;
\* a request that is made again and again, at times when a replica is up too, is
\* answered in the end.  Nothing is assumed of the LISTEN connection.
FairSpec ==
  /\ Spec
  /\ \A r \in Replicas : WF_vars(Publish(r)) /\ WF_vars(Boot(r))
  /\ \A c \in Clients :
       /\ WF_vars(Write(c)) /\ WF_vars(Deadline(c))
       /\ WF_vars(ReadFrame(c)) /\ WF_vars(Ended(c)) /\ WF_vars(AccountsLoaded(c))
       /\ SF_vars(up # {} /\ Ask(c)) /\ SF_vars(\E r \in Replicas : Subscribe(c, r)) /\ SF_vars(Connected(c))
       /\ SF_vars(Serve(c)) /\ SF_vars(Apply(c))
-----------------------------------------------------------------------------
(* Properties.                                                             *)

\* Every queue keeps its bound, the subscriber's channel above all.
TypeOK ==
  /\ committed \in 0 .. MaxCommits
  /\ up \subseteq Replicas /\ listening \subseteq up
  /\ queue \in [Replicas -> Nat]
  /\ phase \in [Clients -> {"closed", "asked", "subscribed", "connected", "reading"}]
  /\ on \in [Clients -> Replicas] /\ alive \subseteq Clients
  /\ buffer \in [Clients -> 0 .. Buffer] /\ wire \in [Clients -> Nat]
  /\ run \in [Clients -> {"idle"} \union Rounds]
  /\ snapshot \in [Clients -> 0 .. MaxCommits] /\ seen \in [Clients -> 0 .. MaxCommits]
  /\ queued \subseteq Clients /\ error \subseteq Clients /\ missed \subseteq Clients

\* What will make client c read the page again, or has: a wake-up under way, the
\* reconciliation of a stream that connects, a queued reason, a read that is
\* still to be served or has found everything.
Coming(c) ==
  \/ queue[on[c]] > 0 \/ buffer[c] > 0 \/ wire[c] > 0
  \/ phase[c] = "subscribed"
  \/ c \in queued \/ run[c] = "sent" \/ (run[c] = "served" /\ snapshot[c] = committed)

\* ADR-0007: "Live invalidations can be dropped under bounded backpressure
\* without losing correctness".  A client with a stream that does not show
\* every committed notification is about to be told, whatever was dropped and
\* whenever the commit fell in the opening of the stream, unless its replica
\* did not hear the commit or its last read failed, which it shows.
WakeUpComing ==
  \A c \in alive : seen[c] < committed => Coming(c) \/ c \in missed \/ c \in error

\* A notification is read in the end by every client, even if no LISTEN
\* connection ever comes back: a stream ends with its access token, and the
\* next one begins with a read.
EventuallySeen ==
  \A c \in Clients : \A n \in 1 .. MaxCommits : (committed >= n) ~> (seen[c] >= n)
=============================================================================
