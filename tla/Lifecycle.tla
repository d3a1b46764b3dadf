----------------------------- MODULE Lifecycle ------------------------------
(***************************************************************************)
(* cmd/app: buildApp opens the database pool and builds what uses it,       *)
(* runServices starts the notification listener, the River worker and the  *)
(* HTTP server in this order and stops them in the reverse one, and         *)
(* runServe closes the pool last.                                           *)
(*                                                                         *)
(* The listener and the worker are two instances of Service.  Listener is   *)
(* shown to implement Service; that River's client does is assumed, and     *)
(* that it holds no connection of the pool once it is over.                 *)
(***************************************************************************)
CONSTANT None

Services == {"listener", "worker"}

\* The calls each service sees: one Start, Stop when the start is interrupted,
\* Stop at the end, and StopAndCancel of the worker after a Stop that gave up.
Starts == {"start"}
Stops == {"interrupt", "stop", "cancel"}

VARIABLES
  lPhase, lCancelled, lStopping,   \* the listener, as a Service
  wPhase, wCancelled, wStopping,   \* the worker
  at,                              \* where runServices is, and for which service
  spawned,                         \* the services whose Start has its goroutine
  signalled,                       \* ctx is done
  http,                            \* "off", "serving" or "down"
  pool,                            \* "none", "open", "closing" or "closed"
  kept,                            \* buildApp has still to close it: its pool # nil
  held                             \* who has a connection of it in use

listenerVars == <<lPhase, lCancelled, lStopping>>
workerVars == <<wPhase, wCancelled, wStopping>>
poolVars == <<pool, kept, held>>
mainVars == <<at, spawned, http, poolVars>>
vars == <<listenerVars, workerVars, mainVars, signalled>>

L == INSTANCE Service WITH Starters <- Starts, Stoppers <- Stops,
       phase <- lPhase, cancelled <- lCancelled, stopping <- lStopping
W == INSTANCE Service WITH Starters <- Starts, Stoppers <- Stops,
       phase <- wPhase, cancelled <- wCancelled, stopping <- wStopping

-----------------------------------------------------------------------------
PhaseOf(x) == IF x = "listener" THEN lPhase["start"] ELSE wPhase["start"]
Live(x) == PhaseOf(x) \in {"starting", "running"}
StopState(x, s) == IF x = "listener" THEN lStopping[s].state ELSE wStopping[s].state
Found(x, s) == IF x = "listener" THEN lStopping[s].of ELSE wStopping[s].of

CallStop(x, s) ==
  \/ x = "listener" /\ L!Stop(s) /\ UNCHANGED workerVars
  \/ x = "worker" /\ W!Stop(s) /\ UNCHANGED listenerVars

StopReturned(x, s) == StopState(x, s) \in {"returned", "gave_up"}

Goto(step, x) == at' = [step |-> step, service |-> x]
UnchangedServices == UNCHANGED <<listenerVars, workerVars>>

\* Where runServices goes when service x could not be started, and after x.
AfterFailure(x) == IF x = "listener" THEN Goto("close", None) ELSE Goto("stop", "listener")
AfterStart(x) == IF x = "listener" THEN Goto("start", "worker") ELSE Goto("serve", None)
AfterStop(x) == IF x = "listener" THEN Goto("close", None) ELSE Goto("stop", "listener")

-----------------------------------------------------------------------------
(* buildApp, and runServe up to its services.                              *)

\* mustConfig and newPool.
OpenPool ==
  /\ at.step = "configure"
  /\ \/ Goto("exit", None) /\ UNCHANGED poolVars
     \/ pool' = "open" /\ kept' = TRUE /\ Goto("migrate", None) /\ UNCHANGED held
  /\ UnchangedServices /\ UNCHANGED <<spawned, http, signalled>>

\* The migrations of the domain and of River; ctx ends them.
Migrate ==
  /\ at.step = "migrate"
  /\ \E next \in {"build", "failed"} : Goto(next, None)
  /\ UnchangedServices /\ UNCHANGED <<spawned, http, poolVars, signalled>>

\* Defect: the pool is handed over and kept.
BuildKept ==
  /\ at.step = "build"
  /\ \E next \in {"built", "failed"} : Goto(next, None)
  /\ UnchangedServices /\ UNCHANGED <<spawned, http, poolVars, signalled>>

\* The mailer, the base URL and the River client, and then the pool is the
\* caller's.
Build ==
  /\ at.step = "build"
  /\ \/ Goto("failed", None) /\ UNCHANGED kept
     \/ kept' = FALSE /\ Goto("built", None)
  /\ UnchangedServices /\ UNCHANGED <<spawned, http, pool, held, signalled>>

\* The deferred close of buildApp, before anything uses the pool.
Built ==
  /\ at.step \in {"built", "failed"}
  /\ pool' = IF kept THEN "closed" ELSE pool
  /\ Goto(IF at.step = "built" THEN "assemble" ELSE "exit", None)
  /\ UnchangedServices /\ UNCHANGED <<spawned, http, kept, held, signalled>>

\* The token maker, the server and the files of the frontend.
Assemble ==
  /\ at.step = "assemble"
  /\ Goto("close", None) \/ Goto("start", "listener")
  /\ UnchangedServices /\ UNCHANGED <<spawned, http, poolVars, signalled>>

-----------------------------------------------------------------------------
(* startService.                                                           *)

Spawn(x) ==
  /\ at = [step |-> "start", service |-> x]
  /\ \/ signalled /\ AfterFailure(x) /\ UNCHANGED spawned
     \/ ~signalled /\ spawned' = spawned \union {x} /\ Goto("await", x)
  /\ UnchangedServices /\ UNCHANGED <<http, poolVars, signalled>>

\* Start has returned.
Await(x) ==
  /\ at = [step |-> "await", service |-> x]
  /\ \/ PhaseOf(x) \in {"running", "ended"} /\ AfterStart(x)
     \/ PhaseOf(x) = "failed" /\ AfterFailure(x)
  /\ UnchangedServices /\ UNCHANGED <<spawned, http, poolVars, signalled>>

\* Defect: startService gives up the start without stopping it.
InterruptWithoutStop(x) ==
  /\ at = [step |-> "await", service |-> x] /\ signalled
  /\ AfterFailure(x)
  /\ UnchangedServices /\ UNCHANGED <<spawned, http, poolVars, signalled>>

\* ctx is done first.
Interrupt(x) ==
  /\ at = [step |-> "await", service |-> x] /\ signalled
  /\ CallStop(x, "interrupt")
  /\ Goto("interrupted", x)
  /\ UNCHANGED <<spawned, http, poolVars, signalled>>

\* Defect: the last select waits for Start only.
InterruptedWaits(x) ==
  /\ at = [step |-> "interrupted", service |-> x] /\ StopReturned(x, "interrupt")
  /\ PhaseOf(x) \in {"running", "ended", "failed"}
  /\ AfterFailure(x)
  /\ UnchangedServices /\ UNCHANGED <<spawned, http, poolVars, signalled>>

\* The shutdown context was cancelled before the last select, which therefore
\* does not wait for Start to return.
Interrupted(x) ==
  /\ at = [step |-> "interrupted", service |-> x] /\ StopReturned(x, "interrupt")
  /\ AfterFailure(x)
  /\ UnchangedServices /\ UNCHANGED <<spawned, http, poolVars, signalled>>

-----------------------------------------------------------------------------
(* The rest of runServices, and the deferred close of the pool.            *)

Serve ==
  /\ at = [step |-> "serve", service |-> None]
  /\ http' = "serving" /\ Goto("serving", None)
  /\ UnchangedServices /\ UNCHANGED <<spawned, poolVars, signalled>>

\* ctx is done, or the server failed.
ServeEnds ==
  /\ at.step = "serving"
  /\ http' = "down" /\ Goto("stop", "worker")
  /\ UnchangedServices /\ UNCHANGED <<spawned, poolVars, signalled>>

StopService(x) ==
  /\ at = [step |-> "stop", service |-> x]
  /\ CallStop(x, "stop")
  /\ Goto("stopping", x)
  /\ UNCHANGED <<spawned, http, poolVars, signalled>>

\* A worker that did not stop in time is cancelled.
ServiceStopped(x) ==
  /\ at = [step |-> "stopping", service |-> x] /\ StopReturned(x, "stop")
  /\ \/ x = "worker" /\ StopState(x, "stop") = "gave_up"
        /\ CallStop(x, "cancel") /\ Goto("cancelling", x)
     \/ ~(x = "worker" /\ StopState(x, "stop") = "gave_up")
        /\ AfterStop(x) /\ UnchangedServices
  /\ UNCHANGED <<spawned, http, poolVars, signalled>>

WorkerCancelled ==
  /\ at = [step |-> "cancelling", service |-> "worker"] /\ StopReturned("worker", "cancel")
  /\ AfterStop("worker")
  /\ UnchangedServices /\ UNCHANGED <<spawned, http, poolVars, signalled>>

\* pool.Close hands out no connection any more,
ClosePool ==
  /\ at.step = "close"
  /\ pool' = "closing" /\ Goto("closing", None)
  /\ UnchangedServices /\ UNCHANGED <<spawned, http, kept, held, signalled>>

\* and returns when the last one in use has come back.
PoolClosed ==
  /\ at.step = "closing" /\ held = {}
  /\ pool' = "closed" /\ Goto("exit", None)
  /\ UnchangedServices /\ UNCHANGED <<spawned, http, kept, held, signalled>>

-----------------------------------------------------------------------------
(* The connections of the pool: River's, from Start on, and the requests',  *)
(* which may outlive the graceful ten seconds of the server.  The listener  *)
(* dials its own.                                                           *)

PoolUsers == {"worker", "http"}
Uses(u) == (u = "worker" /\ Live("worker")) \/ (u = "http" /\ http # "off")

Acquire(u) ==
  /\ pool = "open" /\ Uses(u) /\ u \notin held
  /\ held' = held \union {u}
  /\ UnchangedServices /\ UNCHANGED <<at, spawned, http, pool, kept, signalled>>

Release(u) ==
  /\ u \in held
  /\ held' = held \ {u}
  /\ UnchangedServices /\ UNCHANGED <<at, spawned, http, pool, kept, signalled>>

-----------------------------------------------------------------------------
Signal == ~signalled /\ signalled' = TRUE /\ UnchangedServices /\ UNCHANGED mainVars

\* The goroutine of Start gets to its first step.
Begin(x) ==
  /\ x \in spawned
  /\ \/ x = "listener" /\ L!Start("start") /\ UNCHANGED workerVars
     \/ x = "worker" /\ W!Start("start") /\ UNCHANGED listenerVars
  /\ UNCHANGED <<mainVars, signalled>>

\* What a service does on its own.
ServiceWorks ==
  /\ \/ (L!Up("start") \/ L!StartFailed("start") \/ L!Ended("start")) /\ UNCHANGED workerVars
     \/ /\ W!Up("start") \/ ("worker" \notin held /\ (W!StartFailed("start") \/ W!Ended("start")))
        /\ UNCHANGED listenerVars
  /\ UNCHANGED <<mainVars, signalled>>

\* A call of Stop goes on; it has a deadline of ten seconds.
StopProceeds ==
  /\ \E s \in Stops :
       \/ (L!Cancel(s) \/ L!Stopped(s) \/ L!GiveUp(s)) /\ UNCHANGED workerVars
       \/ (W!Cancel(s) \/ W!Stopped(s) \/ W!GiveUp(s)) /\ UNCHANGED listenerVars
  /\ UNCHANGED <<mainVars, signalled>>

Main ==
  \/ \E x \in Services :
       Spawn(x) \/ Await(x) \/ Interrupt(x) \/ Interrupted(x) \/ StopService(x) \/ ServiceStopped(x)
  \/ OpenPool \/ Migrate \/ Build \/ Built \/ Assemble
  \/ Serve \/ ServeEnds \/ WorkerCancelled \/ ClosePool \/ PoolClosed

Init ==
  /\ L!ServiceInit /\ W!ServiceInit
  /\ at = [step |-> "configure", service |-> None]
  /\ spawned = {} /\ signalled = FALSE /\ http = "off" /\ pool = "none" /\ kept = FALSE
  /\ held = {}

Next ==
  \/ Main \/ Signal \/ ServiceWorks \/ StopProceeds
  \/ \E x \in Services : Begin(x)
  \/ \E u \in PoolUsers : Acquire(u) \/ Release(u)

Spec == Init /\ [][Next]_vars

\* The services need not make progress: a start may hang, a run may not end, and
\* the worker may never give a connection back.  The deadlines of Stop and of the
\* HTTP server's shutdown bound what waiting for them costs, the timeout of a
\* request its use of a connection, and the end of ctx what start-up does.
FairSpec ==
  Spec /\ WF_vars(StopProceeds) /\ WF_vars(signalled /\ Main) /\ WF_vars(Release("http"))
-----------------------------------------------------------------------------
(* Properties.                                                             *)

GaveUp(x) == \E s \in Stops : StopState(x, s) = "gave_up"
StoppedNothing(x) == \E s \in Stops : StopState(x, s) = "returned" /\ Found(x, s) = None

\* The process never ends with its pool open, wherever it failed, and no service
\* begins with a pool that buildApp closed.
PoolNotLeft ==
  /\ at.step = "exit" => pool \in {"none", "closed"}
  /\ at.step \in {"assemble", "start", "serving"} => pool = "open"

\* The pool is being closed, or is, with a service alive or a connection in the
\* hands of one only if that service did not stop within its deadlines or had not
\* begun to start when it was stopped.
PoolClosedLast ==
  pool \in {"closing", "closed"} =>
    \A x \in Services : Live(x) \/ x \in held => GaveUp(x) \/ StoppedNothing(x)

\* HTTP is served between the start of both services and the first Stop, and
\* the listener outlives the worker that began before it was stopped.
ServicesNest ==
  /\ http = "serving" => /\ \A x \in Services : PhaseOf(x) = "running"
                         /\ lCancelled = {} /\ wCancelled = {} /\ pool = "open"
  /\ lCancelled # {} /\ Live("worker") => GaveUp("worker") \/ StoppedNothing("worker")

\* The order in which the process gives up what its services rely on.
ShutdownOrder == PoolNotLeft /\ PoolClosedLast /\ ServicesNest

\* ADR-0007: "Shutdown stops HTTP, then River, then the listener, and finally
\* the shared database pool."  A Stop that gave up is excused.
ShutdownStopsAll ==
  pool \in {"closing", "closed"} => \A x \in Services : Live(x) => GaveUp(x)

\* The deferred close of the pool waits for a connection of the worker, which did
\* not stop in time or came up after it was stopped.
HeldUp ==
  at.step = "closing" /\ "worker" \in held /\ (GaveUp("worker") \/ StoppedNothing("worker"))

\* A signal ends the process whatever else hangs, unless such a worker keeps its
\* connection for ever: pool.Close has no deadline.
SignalEnds == signalled ~> (at.step = "exit" \/ []HeldUp)

-----------------------------------------------------------------------------
(* The inductive invariant.                                                *)

\* What Service keeps of its one start and its stops.
Contract(phase, cancelled, stopping) ==
  /\ phase \in [Starts -> {"idle", "starting", "running", "failed", "ended"}]
  /\ cancelled \subseteq Starts
  /\ stopping \in [Stops -> [state : {"idle", "called", "waiting", "returned", "gave_up"},
                              of : Starts \union {None}]]
  /\ phase["start"] = "ended" => cancelled # {}
  /\ \A s \in Stops :
       /\ stopping[s].state = "idle" => stopping[s].of = None
       /\ stopping[s].state \in {"called", "waiting", "gave_up"} =>
            stopping[s].of = "start" /\ phase["start"] # "idle"
       /\ stopping[s].state = "returned" =>
            stopping[s].of = None \/ phase["start"] \in {"failed", "ended"}
  /\ cancelled # {} => \/ phase["start"] = "failed"
                       \/ \E s \in Stops : stopping[s].state # "idle"

NotStopped(x) == \A s \in Stops : StopState(x, s) = "idle"
NotBegun(x) == x \notin spawned /\ NotStopped(x)
Running(x) == PhaseOf(x) = "running" /\ NotStopped(x)
Left(x) ==
  x \notin spawned \/ PhaseOf(x) \in {"failed", "ended"} \/ GaveUp(x) \/ StoppedNothing(x)

Assembly == {"configure", "migrate", "build", "built", "failed", "assemble"}
Startup == {"start", "await", "interrupted"}
Shutdown == {"stop", "stopping", "cancelling"}
Closing == {"close", "closing", "exit"}

PoolPlace ==
  /\ at.step = "configure" => pool = "none"
  /\ at.step \notin {"configure", "closing", "exit"} => pool = "open"
  /\ at.step = "closing" => pool = "closing"
  /\ at.step = "exit" => pool \in {"none", "closed"}
  /\ at.step \in {"migrate", "build", "failed"} => kept
  /\ at.step = "built" => ~kept
  /\ http = "serving" => at.step = "serving"

\* runServices is at one of these steps for service x.
For(steps, x) == at.step \in steps /\ at.service = x

ListenerPlace ==
  /\ at.step \in Assembly => NotBegun("listener")
  /\ For({"start"}, "listener") => NotBegun("listener")
  /\ For({"await"}, "listener") => NotStopped("listener")
  /\ For(Startup \union Shutdown, "worker") => Running("listener")
  /\ at.step \in {"serve", "serving"} => Running("listener")
  /\ For({"stop"}, "listener") => Running("listener")
  /\ at.step \in Closing => Left("listener")

WorkerPlace ==
  /\ at.step \in Assembly => NotBegun("worker")
  /\ For(Startup, "listener") \/ For({"start"}, "worker") => NotBegun("worker")
  /\ For({"await"}, "worker") => NotStopped("worker")
  /\ at.step \in {"serve", "serving"} => Running("worker")
  /\ For({"stop"}, "worker") => Running("worker")
  /\ For(Shutdown, "listener") => Left("worker")
  /\ at.step \in Closing => Left("worker")

LifecycleInv ==
  /\ Contract(lPhase, lCancelled, lStopping) /\ Contract(wPhase, wCancelled, wStopping)
  /\ at \in [step : Assembly \union Startup \union Shutdown \union Closing \union
                     {"serve", "serving"},
             service : Services \union {None}]
  /\ at.step \in Startup \union Shutdown => at.service \in Services
  /\ \A x \in Services \ spawned : PhaseOf(x) = "idle"
  /\ held \subseteq PoolUsers /\ ("worker" \in held => Live("worker"))
  /\ PoolPlace /\ ListenerPlace /\ WorkerPlace
=============================================================================
