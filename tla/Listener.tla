------------------------------ MODULE Listener ------------------------------
(***************************************************************************)
(* Listener of internal/notification: Start, Stop and the goroutine that   *)
(* waits on the LISTEN connection and reconnects, under any number of       *)
(* concurrent calls.                                                       *)
(*                                                                         *)
(* A call of Start and the goroutine it launches are one thread of control *)
(* with one context, one done channel and one connection; the three are    *)
(* named by the call.  What is published is in Delivery.                   *)
(***************************************************************************)
EXTENDS Integers

CONSTANTS
  Starters,   \* calls of Start
  Stoppers,   \* calls of Stop
  None

ASSUME ListenerAssumption == None \notin Starters

VARIABLES
  current,    \* l.started with l.done and l.cancel: the start in force
  pc,         \* each start, and then its goroutine
  conn,       \* its connection
  ctxDone,    \* the starts whose context is cancelled
  closes,     \* how often each done channel was closed
  stop        \* the calls of Stop

vars == <<current, pc, conn, ctxDone, closes, stop>>

-----------------------------------------------------------------------------
StartSteps == {"connecting", "connected", "listening"}
RunSteps == {"waiting", "dropped", "backoff", "redialing", "redialed"}
Steps == StartSteps \union RunSteps \union {"idle", "refused", "failed", "gone"}

At(c, from, to) == pc[c] = from /\ pc' = [pc EXCEPT ![c] = to]
Connection(c, state) == conn' = [conn EXCEPT ![c] = state]
CloseDone(c) == closes' = [closes EXCEPT ![c] = @ + 1]

-----------------------------------------------------------------------------
(* Start.                                                                  *)

\* Defect: l.started is not looked at.
StartAlways(c) ==
  /\ At(c, "idle", "connecting") /\ current' = c
  /\ UNCHANGED <<conn, ctxDone, closes, stop>>

Start(c) ==
  /\ \/ current # None /\ At(c, "idle", "refused") /\ UNCHANGED current
     \/ current = None /\ At(c, "idle", "connecting") /\ current' = c
  /\ UNCHANGED <<conn, ctxDone, closes, stop>>

\* Defect: done stays open.
FailStartSilently(c) ==
  /\ pc' = [pc EXCEPT ![c] = "failed"]
  /\ Connection(c, "none")
  /\ ctxDone' = ctxDone \union {c}
  /\ current' = IF current = c THEN None ELSE current
  /\ UNCHANGED <<closes, stop>>

\* Defect: the connection of a start that failed is left open.
FailStartOpen(c) ==
  /\ pc' = [pc EXCEPT ![c] = "failed"]
  /\ ctxDone' = ctxDone \union {c}
  /\ current' = IF current = c THEN None ELSE current
  /\ CloseDone(c)
  /\ UNCHANGED <<conn, stop>>

\* The connection, if there is one, is closed, the context cancelled (if it
\* was not), and finishFailedStart releases the listener and closes done.
FailStart(c) ==
  /\ pc' = [pc EXCEPT ![c] = "failed"]
  /\ Connection(c, "none")
  /\ ctxDone' = ctxDone \union {c}
  /\ current' = IF current = c THEN None ELSE current
  /\ CloseDone(c)
  /\ UNCHANGED stop

\* l.connect may return a connection although the context has been cancelled.
Connect(c) ==
  /\ pc[c] = "connecting"
  /\ \/ At(c, "connecting", "connected") /\ Connection(c, "open")
        /\ UNCHANGED <<current, ctxDone, closes, stop>>
     \/ FailStart(c)

\* LISTEN, which a cancelled context refuses; it is checked first.
Listen(c) ==
  /\ pc[c] = "connected"
  /\ \/ /\ c \notin ctxDone /\ At(c, "connected", "listening") /\ Connection(c, "listening")
        /\ UNCHANGED <<current, ctxDone, closes, stop>>
     \/ FailStart(c)

\* Defect: a start that finds its context cancelled does not return.
LaunchAnyway(c) ==
  /\ At(c, "listening", "waiting")
  /\ closes' = IF c \in ctxDone THEN [closes EXCEPT ![c] = @ + 1] ELSE closes
  /\ UNCHANGED <<current, conn, ctxDone, stop>>

\* The last check of the context, and the goroutine.
Launch(c) ==
  /\ pc[c] = "listening"
  /\ \/ /\ c \notin ctxDone /\ At(c, "listening", "waiting")
        /\ UNCHANGED <<current, conn, ctxDone, closes, stop>>
     \/ c \in ctxDone /\ FailStart(c)

-----------------------------------------------------------------------------
(* run and reconnect.                                                      *)

\* WaitForNotification fails: the connection is lost or the context cancelled.
Drop(c) ==
  /\ At(c, "waiting", "dropped")
  /\ UNCHANGED <<current, conn, ctxDone, closes, stop>>

\* The end of the goroutine.
Return(c) ==
  /\ pc' = [pc EXCEPT ![c] = "gone"]
  /\ CloseDone(c)
  /\ UNCHANGED <<current, ctxDone, stop>>

\* The connection is closed before the context is looked at.
HangUp(c) ==
  /\ pc[c] = "dropped"
  /\ Connection(c, "none")
  /\ \/ c \in ctxDone /\ Return(c)
     \/ /\ c \notin ctxDone /\ At(c, "dropped", "backoff")
        /\ UNCHANGED <<current, ctxDone, closes, stop>>

\* l.sleep: the delay is over, or the context is cancelled.
Sleep(c) ==
  /\ pc[c] = "backoff" /\ UNCHANGED conn
  /\ \/ c \in ctxDone /\ Return(c)
     \/ /\ c \notin ctxDone /\ At(c, "backoff", "redialing")
        /\ UNCHANGED <<current, ctxDone, closes, stop>>

RedialFails(c) ==
  /\ At(c, "redialing", "backoff")
  /\ UNCHANGED <<current, conn, ctxDone, closes, stop>>

Redial(c) ==
  /\ At(c, "redialing", "redialed") /\ Connection(c, "open")
  /\ UNCHANGED <<current, ctxDone, closes, stop>>

\* Defect: a LISTEN that fails ends the goroutine.
RelistenGivesUp(c) == pc[c] = "redialed" /\ Connection(c, "none") /\ Return(c)

RelistenFails(c) ==
  /\ At(c, "redialed", "backoff") /\ Connection(c, "none")
  /\ UNCHANGED <<current, ctxDone, closes, stop>>

Relisten(c) ==
  /\ c \notin ctxDone
  /\ At(c, "redialed", "waiting") /\ Connection(c, "listening")
  /\ UNCHANGED <<current, ctxDone, closes, stop>>

-----------------------------------------------------------------------------
(* Stop.                                                                   *)

Stop(s) ==
  /\ stop[s].state = "idle"
  /\ stop' = [stop EXCEPT ![s] = IF current = None THEN [state |-> "returned", of |-> None]
                                 ELSE [state |-> "called", of |-> current]]
  /\ UNCHANGED <<current, pc, conn, ctxDone, closes>>

\* cancel is called after the lock is released.
Cancel(s) ==
  /\ stop[s].state = "called"
  /\ ctxDone' = ctxDone \union {stop[s].of}
  /\ stop' = [stop EXCEPT ![s].state = "waiting"]
  /\ UNCHANGED <<current, pc, conn, closes>>

Stopped(s) ==
  /\ stop[s].state = "waiting" /\ closes[stop[s].of] > 0
  /\ stop' = [stop EXCEPT ![s].state = "returned"]
  /\ UNCHANGED <<current, pc, conn, ctxDone, closes>>

\* The context of Stop ends before done is closed.
GiveUp(s) ==
  /\ stop[s].state = "waiting"
  /\ stop' = [stop EXCEPT ![s].state = "gave_up"]
  /\ UNCHANGED <<current, pc, conn, ctxDone, closes>>

Init ==
  /\ current = None
  /\ pc = [c \in Starters |-> "idle"]
  /\ conn = [c \in Starters |-> "none"]
  /\ ctxDone = {}
  /\ closes = [c \in Starters |-> 0]
  /\ stop = [s \in Stoppers |-> [state |-> "idle", of |-> None]]

\* What the goroutines do next, whatever the database does.
Continue(c) ==
  \/ Connect(c) \/ Listen(c) \/ Launch(c)
  \/ HangUp(c) \/ Sleep(c) \/ RedialFails(c) \/ Redial(c) \/ RelistenFails(c) \/ Relisten(c)

Next ==
  \/ \E c \in Starters : Start(c) \/ Continue(c) \/ Drop(c)
  \/ \E s \in Stoppers : Stop(s) \/ Cancel(s) \/ Stopped(s) \/ GiveUp(s)

Spec == Init /\ [][Next]_vars

\* Goroutines run; WaitForNotification returns once its context is cancelled;
\* a database that is dialled again and again answers in the end.
FairSpec ==
  /\ Spec
  /\ \A c \in Starters :
       /\ WF_vars(Continue(c)) /\ WF_vars(c \in ctxDone /\ Drop(c))
       /\ SF_vars(Redial(c)) /\ SF_vars(Relisten(c))
  /\ \A s \in Stoppers : WF_vars(Cancel(s)) /\ WF_vars(Stopped(s))
-----------------------------------------------------------------------------
(* Properties.                                                             *)

\* A done channel is closed once at most: closing it again would panic.
TypeOK ==
  /\ current \in Starters \union {None}
  /\ pc \in [Starters -> Steps]
  /\ conn \in [Starters -> {"none", "open", "listening"}]
  /\ ctxDone \subseteq Starters
  /\ closes \in [Starters -> 0 .. 1]
  /\ stop \in [Stoppers -> [state : {"idle", "called", "waiting", "returned", "gave_up"},
                            of : Starters \union {None}]]

\* However Start and Stop interleave, the process never holds two database
\* connections for its listener, and the one it holds is that of the start in
\* force.
OneConnection == \A c \in Starters : conn[c] # "none" => c = current

\* When Stop has returned, the start or the run it found is over and its
\* connection closed: nothing is published any more.
StoppedIsQuiet ==
  \A s \in Stoppers :
    stop[s].state = "returned" /\ stop[s].of # None =>
      pc[stop[s].of] \in {"failed", "gone"} /\ conn[stop[s].of] = "none"

\* What ties the locals of the goroutines to the fields of the listener: the
\* start in force is the one whose goroutine is under way or ran to its end, and
\* done is closed exactly when a start or a run is over.
ListenerInv ==
  /\ TypeOK
  /\ \A c \in Starters :
       /\ c = current <=> pc[c] \in StartSteps \union RunSteps \union {"gone"}
       /\ conn[c] # "none" => pc[c] \in {"connected", "listening", "waiting", "dropped", "redialed"}
       /\ closes[c] = IF pc[c] \in {"failed", "gone"} THEN 1 ELSE 0
       /\ pc[c] \in {"failed", "gone"} => c \in ctxDone
  /\ \A s \in Stoppers :
       /\ stop[s].state = "idle" => stop[s].of = None
       /\ stop[s].state \in {"called", "waiting"} => stop[s].of # None
       /\ stop[s].of # None => pc[stop[s].of] \notin {"idle", "refused"}
       /\ stop[s].state = "returned" /\ stop[s].of # None => pc[stop[s].of] \in {"failed", "gone"}

\* The start as its callers see it.
PhaseOf(c) ==
  CASE pc[c] \in StartSteps -> "starting"
    [] pc[c] \in RunSteps -> "running"
    [] pc[c] = "gone" -> "ended"
    [] OTHER -> pc[c]

AsService == INSTANCE Service WITH
  phase <- [c \in Starters |-> PhaseOf(c)], cancelled <- ctxDone, stopping <- stop

\* Start and Stop behave as Lifecycle assumes of a service.
ImplementsService == AsService!ServiceSpec

\* Stop returns without the help of its deadline, wherever the goroutine was.
StopReturns ==
  \A s \in Stoppers : (stop[s].state = "waiting") ~> (stop[s].state \in {"returned", "gave_up"})

\* An outage ends: a listener that lost its connection listens again, unless
\* it is stopped.
ListensAgain ==
  \A c \in Starters : (pc[c] \in RunSteps) ~> (pc[c] = "waiting" \/ c \in ctxDone)
=============================================================================
