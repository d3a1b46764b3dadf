--------------------------- MODULE LifecycleProofs ---------------------------
(***************************************************************************)
(* Proofs about Lifecycle, on the strength of what Service promises of the *)
(* listener and of the worker: LifecycleInv is inductive, and the process  *)
(* gives up its services and its pool in order.                            *)
(*                                                                         *)
(* The steps of a service are treated once, as relations between values,   *)
(* and used for both.                                                      *)
(***************************************************************************)
EXTENDS Lifecycle, TLAPS

-----------------------------------------------------------------------------
(* What a step of a service keeps.                                         *)

USE DEF Services, Starts, Stops

\* The steps of Service, for the one start and the stops of a service: its
\* phases p, what was cancelled k, its stops st, and the same after the step.
Begins(p, k, st, p2, k2, st2) ==
  p["start"] = "idle" /\ p2 = [p EXCEPT !["start"] = "starting"] /\ k2 = k /\ st2 = st
Works(p, k, st, p2, k2, st2) ==
  /\ st2 = st
  /\ \/ p["start"] = "starting" /\ p2 = [p EXCEPT !["start"] = "running"] /\ k2 = k
     \/ p["start"] = "starting" /\ p2 = [p EXCEPT !["start"] = "failed"] /\ k2 = k \union {"start"}
     \/ p["start"] = "running" /\ "start" \in k /\ p2 = [p EXCEPT !["start"] = "ended"] /\ k2 = k
Proceeds(s, p, k, st, p2, k2, st2) ==
  /\ p2 = p
  /\ \/ /\ st[s].state = "called" /\ k2 = k \union {st[s].of}
        /\ st2 = [st EXCEPT ![s].state = "waiting"]
     \/ /\ st[s].state = "waiting" /\ p[st[s].of] \in {"failed", "ended"} /\ k2 = k
        /\ st2 = [st EXCEPT ![s].state = "returned"]
     \/ st[s].state = "waiting" /\ k2 = k /\ st2 = [st EXCEPT ![s].state = "gave_up"]
Stopping(s, p, k, st, p2, k2, st2) ==
  /\ p2 = p /\ k2 = k /\ st[s].state = "idle"
  /\ \/ /\ p["start"] \notin {"starting", "running", "ended"}
        /\ st2 = [st EXCEPT ![s].state = "returned"]
     \/ /\ p["start"] \in {"starting", "running", "ended"}
        /\ st2 = [st EXCEPT ![s] = [state |-> "called", of |-> "start"]]

\* What a service does on its own undoes nothing that was settled.
Settled(p, st, p2, st2) ==
  /\ (\A s \in Stops : st[s].state = "idle") =>
       /\ \A s \in Stops : st2[s].state = "idle"
       /\ p["start"] = "running" => p2["start"] = "running"
  /\ p["start"] \in {"failed", "ended"} => p2["start"] \in {"failed", "ended"}
  /\ \A s \in Stops : st[s].state \in {"returned", "gave_up"} => st2[s] = st[s]

\* A start begins.
LEMMA BeginsKeeps ==
  ASSUME NEW p, NEW k, NEW st, NEW p2, NEW k2, NEW st2,
         Contract(p, k, st), Begins(p, k, st, p2, k2, st2)
  PROVE  Contract(p2, k2, st2) /\ Settled(p, st, p2, st2)
<1>1. /\ p2 \in [{"start"} -> {"idle", "starting", "running", "failed", "ended"}]
      /\ p2["start"] = "starting" /\ p["start"] = "idle"
  BY DEF Contract, Begins
<1> QED
  BY <1>1 DEF Contract, Begins, Settled

\* The service comes up, fails to, or ends.
LEMMA WorksKeeps ==
  ASSUME NEW p, NEW k, NEW st, NEW p2, NEW k2, NEW st2,
         Contract(p, k, st), Works(p, k, st, p2, k2, st2)
  PROVE  Contract(p2, k2, st2) /\ Settled(p, st, p2, st2)
<1>1. /\ p2 \in [{"start"} -> {"idle", "starting", "running", "failed", "ended"}]
      /\ \/ p["start"] = "starting" /\ p2["start"] = "running" /\ k2 = k
         \/ p["start"] = "starting" /\ p2["start"] = "failed" /\ k2 = k \union {"start"}
         \/ p["start"] = "running" /\ p2["start"] = "ended" /\ k2 = k /\ "start" \in k
  BY DEF Contract, Works
<1>2. st2 = st
  BY DEF Works
<1> QED
  BY <1>1, <1>2 DEF Contract, Settled

\* A stop that moves on.
LEMMA ProceedsKeeps ==
  ASSUME NEW p, NEW k, NEW st, NEW p2, NEW k2, NEW st2, NEW s \in Stops,
         Contract(p, k, st), Proceeds(s, p, k, st, p2, k2, st2)
  PROVE  Contract(p2, k2, st2) /\ Settled(p, st, p2, st2)
<1> DEFINE R == [state : {"idle", "called", "waiting", "returned", "gave_up"},
                 of : {"start"} \union {None}]
<1>1. st \in [Stops -> R] /\ p2 = p /\ st[s] \in R
  BY DEF Contract, Proceeds
<1>2. PICK w \in {"waiting", "returned", "gave_up"} :
        /\ st2 = [st EXCEPT ![s].state = w]
        /\ st[s].state = IF w = "waiting" THEN "called" ELSE "waiting"
        /\ k2 = IF w = "waiting" THEN k \union {st[s].of} ELSE k
        /\ w = "returned" => p[st[s].of] \in {"failed", "ended"}
  BY DEF Proceeds
<1>3. [st[s] EXCEPT !.state = w] \in R
  BY <1>1
<1>4. /\ st2 \in [Stops -> R] /\ st2[s].state = w /\ st2[s].of = st[s].of
      /\ \A u \in Stops \ {s} : st2[u] = st[u]
  BY <1>1, <1>2, <1>3
<1>5. st[s].of = "start" /\ p["start"] # "idle"
  BY <1>2 DEF Contract
<1>6. w = "returned" => p["start"] \in {"failed", "ended"}
  BY <1>2, <1>5
<1>7. \A u \in Stops :
        /\ st2[u].state = "idle" => st2[u].of = None
        /\ st2[u].state \in {"called", "waiting", "gave_up"} =>
             st2[u].of = "start" /\ p2["start"] # "idle"
        /\ st2[u].state = "returned" => st2[u].of = None \/ p2["start"] \in {"failed", "ended"}
  BY <1>1, <1>4, <1>5, <1>6 DEF Contract
<1>8. k2 \subseteq {"start"} /\ (k # {} => k2 # {})
  BY <1>2, <1>5 DEF Contract
<1>9. Contract(p2, k2, st2)
  BY <1>1, <1>4, <1>7, <1>8 DEF Contract
<1>10. Settled(p, st, p2, st2)
  BY <1>1, <1>2, <1>4 DEF Settled
<1> QED
  BY <1>9, <1>10

\* A stop is called.
LEMMA StoppingKeeps ==
  ASSUME NEW p, NEW k, NEW st, NEW p2, NEW k2, NEW st2, NEW s \in Stops,
         Contract(p, k, st), Stopping(s, p, k, st, p2, k2, st2)
  PROVE  Contract(p2, k2, st2) /\ p2 = p
<1> DEFINE R == [state : {"idle", "called", "waiting", "returned", "gave_up"},
                 of : {"start"} \union {None}]
<1>1. st \in [Stops -> R] /\ p2 = p /\ k2 = k /\ st[s] \in R /\ st[s].of = None
  BY DEF Contract, Stopping
<1>2. PICK r \in R :
        /\ st2 = [st EXCEPT ![s] = r]
        /\ \/ r.state = "returned" /\ r.of = None
           \/ r.state = "called" /\ r.of = "start" /\ p["start"] # "idle"
  <2>1. CASE st2 = [st EXCEPT ![s].state = "returned"]
    <3>1. [st[s] EXCEPT !.state = "returned"] \in R
      BY <1>1
    <3> QED
      BY <1>1, <2>1, <3>1
  <2>2. CASE /\ p["start"] \in {"starting", "running", "ended"}
             /\ st2 = [st EXCEPT ![s] = [state |-> "called", of |-> "start"]]
    <3> DEFINE r == [state |-> "called", of |-> "start"]
    <3>1. r \in R /\ r.state = "called" /\ r.of = "start" /\ p["start"] # "idle"
      BY <2>2
    <3>2. st2 = [st EXCEPT ![s] = r]
      BY <2>2
    <3> HIDE DEF r, R
    <3> QED
      BY <3>1, <3>2
  <2> QED
    BY <2>1, <2>2 DEF Stopping
<1>3. /\ st2 \in [Stops -> R] /\ st2[s] = r
      /\ \A u \in Stops \ {s} : st2[u] = st[u]
  BY <1>1, <1>2
<1> QED
  BY <1>1, <1>2, <1>3 DEF Contract

-----------------------------------------------------------------------------
(* The services under the process.                                         *)

lKept == Contract(lPhase, lCancelled, lStopping)
wKept == Contract(wPhase, wCancelled, wStopping)

\* What a step leaves settled about service x.
Still(x) ==
  /\ NotStopped(x) => NotStopped(x)'
  /\ Running(x) => Running(x)'
  /\ PhaseOf(x) \in {"failed", "ended"} => PhaseOf(x)' \in {"failed", "ended"}
  /\ GaveUp(x) => GaveUp(x)'
  /\ StoppedNothing(x) => StoppedNothing(x)'

\* The same for the operators of Lifecycle, and for a service that does nothing.
LEMMA SettledStill ==
  /\ Settled(lPhase, lStopping, lPhase', lStopping') => Still("listener")
  /\ Settled(wPhase, wStopping, wPhase', wStopping') => Still("worker")
BY DEF Settled, Still, NotStopped, Running, GaveUp, StoppedNothing,
       PhaseOf, StopState, Found

LEMMA UnchangedStill ==
  /\ UNCHANGED <<lPhase, lStopping>> =>
       Still("listener") /\ PhaseOf("listener")' = PhaseOf("listener")
  /\ UNCHANGED <<wPhase, wStopping>> =>
       Still("worker") /\ PhaseOf("worker")' = PhaseOf("worker")
BY DEF Still, NotStopped, Running, GaveUp, StoppedNothing,
       PhaseOf, StopState, Found

\* A step of the service and nothing else.
LEMMA ListenerSteps ==
  ASSUME lKept,
         \/ L!Start("start") \/ L!Up("start") \/ L!StartFailed("start")
         \/ L!Ended("start")
         \/ \E s \in Stops : L!Cancel(s) \/ L!Stopped(s) \/ L!GiveUp(s)
  PROVE  lKept' /\ Still("listener")
<1>1. CASE L!Start("start")
  <2>1. Begins(lPhase, lCancelled, lStopping, lPhase', lCancelled', lStopping')
    BY <1>1 DEF L!Start, L!InForce, Begins
  <2> QED
    BY <2>1, BeginsKeeps, SettledStill DEF lKept
<1>2. CASE L!Up("start") \/ L!StartFailed("start") \/ L!Ended("start")
  <2>1. Works(lPhase, lCancelled, lStopping, lPhase', lCancelled', lStopping')
    BY <1>2 DEF L!Up, L!StartFailed, L!Ended, Works
  <2> QED
    BY <2>1, WorksKeeps, SettledStill DEF lKept
<1>3. ASSUME NEW s \in Stops, L!Cancel(s) \/ L!Stopped(s) \/ L!GiveUp(s)
      PROVE  lKept' /\ Still("listener")
  <2>1. Proceeds(s, lPhase, lCancelled, lStopping, lPhase', lCancelled', lStopping')
    BY <1>3 DEF L!Cancel, L!Stopped, L!GiveUp, L!Over, Proceeds
  <2> QED
    BY <2>1, ProceedsKeeps, SettledStill DEF lKept
<1> QED
  BY <1>1, <1>2, <1>3

LEMMA WorkerSteps ==
  ASSUME wKept,
         \/ W!Start("start") \/ W!Up("start") \/ W!StartFailed("start")
         \/ W!Ended("start")
         \/ \E s \in Stops : W!Cancel(s) \/ W!Stopped(s) \/ W!GiveUp(s)
  PROVE  wKept' /\ Still("worker")
<1>1. CASE W!Start("start")
  <2>1. Begins(wPhase, wCancelled, wStopping, wPhase', wCancelled', wStopping')
    BY <1>1 DEF W!Start, W!InForce, Begins
  <2> QED
    BY <2>1, BeginsKeeps, SettledStill DEF wKept
<1>2. CASE W!Up("start") \/ W!StartFailed("start") \/ W!Ended("start")
  <2>1. Works(wPhase, wCancelled, wStopping, wPhase', wCancelled', wStopping')
    BY <1>2 DEF W!Up, W!StartFailed, W!Ended, Works
  <2> QED
    BY <2>1, WorksKeeps, SettledStill DEF wKept
<1>3. ASSUME NEW s \in Stops, W!Cancel(s) \/ W!Stopped(s) \/ W!GiveUp(s)
      PROVE  wKept' /\ Still("worker")
  <2>1. Proceeds(s, wPhase, wCancelled, wStopping, wPhase', wCancelled', wStopping')
    BY <1>3 DEF W!Cancel, W!Stopped, W!GiveUp, W!Over, Proceeds
  <2> QED
    BY <2>1, ProceedsKeeps, SettledStill DEF wKept
<1> QED
  BY <1>1, <1>2, <1>3

\* Stop is called on one service; no service moves.
LEMMA CallStopSteps ==
  ASSUME lKept, wKept, NEW x \in Services, NEW s \in Stops, CallStop(x, s)
  PROVE  /\ lKept' /\ wKept' /\ \A y \in Services \ {x} : Still(y)
         /\ \A y \in Services : PhaseOf(y)' = PhaseOf(y)
<1>1. CASE x = "listener"
  <2>1. L!Stop(s) /\ UNCHANGED workerVars
    BY <1>1 DEF CallStop
  <2>2. Stopping(s, lPhase, lCancelled, lStopping, lPhase', lCancelled', lStopping')
    BY <2>1 DEF L!Stop, L!InForce, Stopping
  <2>3. lKept' /\ lPhase' = lPhase
    BY <2>2, StoppingKeeps DEF lKept
  <2>4. UNCHANGED <<wPhase, wCancelled, wStopping>>
    BY <2>1 DEF workerVars
  <2> QED
    BY <1>1, <2>3, <2>4, UnchangedStill DEF wKept, PhaseOf
<1>2. CASE x = "worker"
  <2>1. W!Stop(s) /\ UNCHANGED listenerVars
    BY <1>2 DEF CallStop
  <2>2. Stopping(s, wPhase, wCancelled, wStopping, wPhase', wCancelled', wStopping')
    BY <2>1 DEF W!Stop, W!InForce, Stopping
  <2>3. wKept' /\ wPhase' = wPhase
    BY <2>2, StoppingKeeps DEF wKept
  <2>4. UNCHANGED <<lPhase, lCancelled, lStopping>>
    BY <2>1 DEF listenerVars
  <2> QED
    BY <1>2, <2>3, <2>4, UnchangedStill DEF lKept, PhaseOf
<1> QED
  BY <1>1, <1>2

-----------------------------------------------------------------------------
(* The process.                                                            *)

\* The process starts with nothing begun.
LEMMA LifecycleInitInv == Init => LifecycleInv
<1> SUFFICES ASSUME Init PROVE LifecycleInv
  OBVIOUS
<1>1. lKept /\ wKept
  BY DEF Init, L!ServiceInit, W!ServiceInit, Contract, lKept, wKept
<1>2. \A x \in Services : NotBegun(x) /\ PhaseOf(x) = "idle"
  BY DEF Init, L!ServiceInit, W!ServiceInit, NotBegun, NotStopped,
         StopState, PhaseOf
<1>3. /\ at = [step |-> "configure", service |-> None]
      /\ pool = "none" /\ ~kept /\ http = "off" /\ spawned = {} /\ held = {}
  BY DEF Init
<1> QED
  BY <1>1, <1>2, <1>3
     DEF LifecycleInv, PoolPlace, ListenerPlace, WorkerPlace, For,
         Assembly, Startup, Shutdown, Closing, lKept, wKept

\* The services move and the process does not.
LEMMA ServicesMove ==
  ASSUME LifecycleInv, UNCHANGED mainVars,
         lKept', wKept', Still("listener"), Still("worker"),
         \A x \in Services \ spawned : PhaseOf(x)' = "idle",
         "worker" \in held => Live("worker")'
  PROVE  LifecycleInv'
<1>1. UNCHANGED <<at, spawned, http, pool, kept, held>>
  BY DEF mainVars, poolVars
<1>2. PoolPlace'
  BY <1>1 DEF LifecycleInv, PoolPlace
<1>3. /\ NotBegun("listener") => NotBegun("listener")'
      /\ NotStopped("listener") => NotStopped("listener")'
      /\ Running("listener") => Running("listener")'
      /\ Left("listener") => Left("listener")'
  BY <1>1 DEF Still, NotBegun, Left
<1>4. /\ NotBegun("worker") => NotBegun("worker")'
      /\ NotStopped("worker") => NotStopped("worker")'
      /\ Running("worker") => Running("worker")'
      /\ Left("worker") => Left("worker")'
  BY <1>1 DEF Still, NotBegun, Left
<1>5. ListenerPlace'
  BY <1>1, <1>3 DEF LifecycleInv, ListenerPlace, For
<1>6. WorkerPlace'
  BY <1>1, <1>4 DEF LifecycleInv, WorkerPlace, For
<1> QED
  BY <1>1, <1>2, <1>5, <1>6 DEF LifecycleInv, lKept, wKept

\* A worker that is over holds no connection of the pool.
LEMMA WorkerWithConnectionLives ==
  ASSUME LifecycleInv, "worker" \in held,
         ServiceWorks \/ StopProceeds \/ \E x \in Services : Begin(x)
  PROVE  Live("worker")'
<1>1. wPhase["start"] \in {"starting", "running"}
  BY DEF LifecycleInv, Live, PhaseOf
<1>2. wPhase' = wPhase \/ W!Up("start")
  <2>1. CASE ServiceWorks
    BY <2>1 DEF ServiceWorks, workerVars
  <2>2. CASE StopProceeds
    BY <2>2 DEF StopProceeds, workerVars, W!Cancel, W!Stopped, W!GiveUp
  <2>3. CASE \E x \in Services : Begin(x)
    BY <1>1, <2>3 DEF Begin, workerVars, W!Start
  <2> QED
    BY <2>1, <2>2, <2>3
<1>3. wPhase'["start"] \in {"starting", "running"}
  <2>1. wPhase \in [{"start"} -> {"idle", "starting", "running", "failed", "ended"}]
    BY DEF LifecycleInv, Contract
  <2> QED
    BY <1>1, <1>2, <2>1 DEF W!Up
<1> QED
  BY <1>3 DEF Live, PhaseOf

\* Starts that begin, services at work and stops that go on.
LEMMA ServicesMoveInv ==
  ASSUME LifecycleInv,
         ServiceWorks \/ StopProceeds \/ \E x \in Services : Begin(x)
  PROVE  LifecycleInv'
<1>0. lKept /\ wKept
  BY DEF LifecycleInv, lKept, wKept
<1>1. UNCHANGED mainVars
  BY DEF ServiceWorks, StopProceeds, Begin
<1>2. \/ /\ \/ "listener" \in spawned /\ L!Start("start")
            \/ L!Up("start") \/ L!StartFailed("start") \/ L!Ended("start")
            \/ \E s \in Stops : L!Cancel(s) \/ L!Stopped(s) \/ L!GiveUp(s)
         /\ UNCHANGED workerVars
      \/ /\ \/ "worker" \in spawned /\ W!Start("start")
            \/ W!Up("start") \/ W!StartFailed("start") \/ W!Ended("start")
            \/ \E s \in Stops : W!Cancel(s) \/ W!Stopped(s) \/ W!GiveUp(s)
         /\ UNCHANGED listenerVars
  BY DEF ServiceWorks, StopProceeds, Begin
<1>3. CASE /\ \/ "listener" \in spawned /\ L!Start("start")
              \/ L!Up("start") \/ L!StartFailed("start") \/ L!Ended("start")
              \/ \E s \in Stops : L!Cancel(s) \/ L!Stopped(s) \/ L!GiveUp(s)
           /\ UNCHANGED workerVars
  <2>1. lKept' /\ Still("listener")
    BY <1>0, <1>3, ListenerSteps
  <2>2. UNCHANGED <<wPhase, wCancelled, wStopping>>
    BY <1>3 DEF workerVars
  <2>3. wKept' /\ Still("worker") /\ PhaseOf("worker")' = PhaseOf("worker")
    BY <1>0, <2>2, UnchangedStill DEF wKept
  <2>4. "listener" \notin spawned => PhaseOf("listener")' = "idle"
    <3>1. "listener" \notin spawned => lPhase["start"] = "idle"
      BY DEF LifecycleInv, PhaseOf
    <3>2. "listener" \notin spawned => lPhase' = lPhase
      BY <1>3, <3>1
         DEF L!Up, L!StartFailed, L!Ended, L!Cancel, L!Stopped,
             L!GiveUp
    <3> QED
      BY <3>1, <3>2 DEF PhaseOf
  <2>5. \A x \in Services \ spawned : PhaseOf(x)' = "idle"
    BY <2>3, <2>4 DEF LifecycleInv
  <2>6. "worker" \in held => Live("worker")'
    BY WorkerWithConnectionLives
  <2> QED
    BY <1>1, <2>1, <2>3, <2>5, <2>6, ServicesMove
<1>4. CASE /\ \/ "worker" \in spawned /\ W!Start("start")
              \/ W!Up("start") \/ W!StartFailed("start") \/ W!Ended("start")
              \/ \E s \in Stops : W!Cancel(s) \/ W!Stopped(s) \/ W!GiveUp(s)
           /\ UNCHANGED listenerVars
  <2>1. wKept' /\ Still("worker")
    BY <1>0, <1>4, WorkerSteps
  <2>2. UNCHANGED <<lPhase, lCancelled, lStopping>>
    BY <1>4 DEF listenerVars
  <2>3. lKept' /\ Still("listener") /\ PhaseOf("listener")' = PhaseOf("listener")
    BY <1>0, <2>2, UnchangedStill DEF lKept
  <2>4. "worker" \notin spawned => PhaseOf("worker")' = "idle"
    <3>1. "worker" \notin spawned => wPhase["start"] = "idle"
      BY DEF LifecycleInv, PhaseOf
    <3>2. "worker" \notin spawned => wPhase' = wPhase
      BY <1>4, <3>1
         DEF W!Up, W!StartFailed, W!Ended, W!Cancel, W!Stopped,
             W!GiveUp
    <3> QED
      BY <3>1, <3>2 DEF PhaseOf
  <2>5. \A x \in Services \ spawned : PhaseOf(x)' = "idle"
    BY <2>3, <2>4 DEF LifecycleInv
  <2>6. "worker" \in held => Live("worker")'
    BY WorkerWithConnectionLives
  <2> QED
    BY <1>1, <2>1, <2>3, <2>5, <2>6, ServicesMove
<1> QED
  BY <1>2, <1>3, <1>4

\* What is known of the services before a step of the process and holds after it.
LEMMA Lasting ==
  /\ Still("listener") /\ ("listener" \in spawned' <=> "listener" \in spawned) =>
       /\ NotBegun("listener") => NotBegun("listener")'
       /\ Running("listener") => Running("listener")'
       /\ Left("listener") => Left("listener")'
  /\ Still("worker") /\ ("worker" \in spawned' <=> "worker" \in spawned) =>
       /\ NotBegun("worker") => NotBegun("worker")'
       /\ Running("worker") => Running("worker")'
       /\ Left("worker") => Left("worker")'
BY DEF Still, NotBegun, Left

\* A service whose Stop returned, in time or not, is left; one that came up and
\* was not stopped is running.
LEMMA ListenerLeft ==
  ASSUME lKept
  PROVE  /\ \A s \in Stops : StopReturned("listener", s) => Left("listener")
         /\ NotStopped("listener") /\ PhaseOf("listener") \in {"running", "ended"} =>
              Running("listener")
<1>1. \A s \in Stops : StopReturned("listener", s) => Left("listener")
  BY DEF lKept, Contract, StopReturned, Left, GaveUp, StoppedNothing,
         StopState, Found, PhaseOf
<1>2. NotStopped("listener") /\ PhaseOf("listener") \in {"running", "ended"} =>
        Running("listener")
  BY DEF lKept, Contract, NotStopped, Running, StopState, PhaseOf
<1> QED
  BY <1>1, <1>2

LEMMA WorkerLeft ==
  ASSUME wKept
  PROVE  /\ \A s \in Stops : StopReturned("worker", s) => Left("worker")
         /\ NotStopped("worker") /\ PhaseOf("worker") \in {"running", "ended"} =>
              Running("worker")
<1>1. \A s \in Stops : StopReturned("worker", s) => Left("worker")
  BY DEF wKept, Contract, StopReturned, Left, GaveUp, StoppedNothing,
         StopState, Found, PhaseOf
<1>2. NotStopped("worker") /\ PhaseOf("worker") \in {"running", "ended"} =>
        Running("worker")
  BY DEF wKept, Contract, NotStopped, Running, StopState, PhaseOf
<1> QED
  BY <1>1, <1>2

\* A step of the process that calls no service.
LEMMA ServicesWait ==
  ASSUME LifecycleInv, UnchangedServices
  PROVE  /\ lKept' /\ wKept' /\ Still("listener") /\ Still("worker")
         /\ PhaseOf("listener")' = PhaseOf("listener")
         /\ PhaseOf("worker")' = PhaseOf("worker")
<1>1. UNCHANGED <<lPhase, lCancelled, lStopping, wPhase, wCancelled, wStopping>>
  BY DEF UnchangedServices, listenerVars, workerVars
<1> QED
  BY <1>1, UnchangedStill DEF LifecycleInv, lKept, wKept

\* Building the app and handing over its pool.
LEMMA AssemblyInv ==
  ASSUME LifecycleInv,
         OpenPool \/ Migrate \/ Build \/ Built \/ Assemble
  PROVE  LifecycleInv'
<1>0. lKept /\ wKept
  BY DEF LifecycleInv, lKept, wKept
<1>1. UnchangedServices /\ UNCHANGED <<spawned, http, held>> /\ at.step \in Assembly
  BY DEF OpenPool, Migrate, Build, Built, Assemble, poolVars, Assembly
<1>2. /\ lKept' /\ wKept'
      /\ PhaseOf("listener")' = PhaseOf("listener")
      /\ PhaseOf("worker")' = PhaseOf("worker")
      /\ NotBegun("listener")' /\ NotBegun("worker")'
  BY <1>1, ServicesWait, Lasting DEF LifecycleInv, ListenerPlace, WorkerPlace
<1>3. Left("listener")' /\ Left("worker")'
  BY <1>2 DEF NotBegun, Left
<1>4. \/ at' = [step |-> "start", service |-> "listener"]
      \/ \E step \in Assembly \union Closing : at' = [step |-> step, service |-> None]
  BY DEF OpenPool, Migrate, Build, Built, Assemble, Goto, Assembly, Closing
<1>5. PoolPlace'
  BY <1>1 DEF LifecycleInv, PoolPlace, OpenPool, Migrate, Build, Built,
              Assemble, Goto, Assembly, poolVars
<1>6. ListenerPlace' /\ WorkerPlace'
  BY <1>2, <1>3, <1>4
     DEF ListenerPlace, WorkerPlace, For, Assembly, Startup, Shutdown, Closing
<1> QED
  BY <1>1, <1>2, <1>4, <1>5, <1>6
     DEF LifecycleInv, Live, Assembly, Startup, Shutdown, Closing, lKept, wKept

\* Starting the listener.
LEMMA ListenerStartInv ==
  ASSUME LifecycleInv,
         \/ Spawn("listener") \/ Await("listener")
         \/ Interrupt("listener") \/ Interrupted("listener")
  PROVE  LifecycleInv'
<1>0. lKept /\ wKept /\ For(Startup, "listener")
  BY DEF LifecycleInv, Spawn, Await, Interrupt, Interrupted, For,
         Startup, lKept, wKept
<1>1. /\ UNCHANGED <<http, pool, kept, held>> /\ at.step \in Startup
      /\ spawned \subseteq spawned' /\ spawned' \subseteq spawned \union {"listener"}
  BY DEF Spawn, Await, Interrupt, Interrupted, poolVars, Startup
<1>2. /\ lKept' /\ wKept' /\ Still("worker")
      /\ PhaseOf("listener")' = PhaseOf("listener")
      /\ PhaseOf("worker")' = PhaseOf("worker")
      /\ Interrupt("listener") \/ (UnchangedServices /\ Still("listener"))
  <2>1. CASE Interrupt("listener")
    BY <1>0, <2>1, CallStopSteps DEF Interrupt
  <2>2. CASE Spawn("listener") \/ Await("listener") \/ Interrupted("listener")
    BY <2>2, ServicesWait DEF Spawn, Await, Interrupted
  <2> QED
    BY <2>1, <2>2
<1>3. NotBegun("worker")' /\ Left("worker")'
  <2>1. NotBegun("worker")
    BY <1>0 DEF LifecycleInv, WorkerPlace
  <2> QED
    BY <1>1, <1>2, <2>1, Lasting DEF NotBegun, Left
<1>4. \/ at' = [step |-> "await", service |-> "listener"] /\ NotStopped("listener")'
      \/ at' = [step |-> "interrupted", service |-> "listener"]
      \/ at' = [step |-> "start", service |-> "worker"] /\ Running("listener")'
      \/ at' = [step |-> "close", service |-> None] /\ Left("listener")'
  <2>1. CASE Spawn("listener")
    <3>1. NotBegun("listener") /\ Still("listener")
      BY <2>1, <1>2, ServicesWait DEF LifecycleInv, ListenerPlace, For, Spawn
    <3>2. NotStopped("listener")'
      BY <3>1 DEF NotBegun, Still
    <3>3. spawned' = spawned => Left("listener")'
      BY <3>1 DEF NotBegun, Left
    <3> QED
      BY <2>1, <3>2, <3>3 DEF Spawn, Goto, AfterFailure
  <2>2. CASE Await("listener")
    <3>1. NotStopped("listener") /\ Still("listener") /\ spawned' = spawned
      BY <2>2, ServicesWait DEF LifecycleInv, ListenerPlace, For, Await
    <3>2. PhaseOf("listener") \in {"running", "ended"} => Running("listener")'
      BY <1>0, <3>1, ListenerLeft, Lasting
    <3>3. PhaseOf("listener") = "failed" => Left("listener")'
      BY <1>2 DEF Left
    <3> QED
      BY <2>2, <3>2, <3>3 DEF Await, Goto, AfterFailure, AfterStart
  <2>3. CASE Interrupt("listener")
    BY <2>3 DEF Interrupt, Goto
  <2>4. CASE Interrupted("listener")
    <3>1. Left("listener") /\ Still("listener") /\ spawned' = spawned
      BY <1>0, <2>4, ListenerLeft, ServicesWait DEF Interrupted
    <3> QED
      BY <2>4, <3>1, Lasting DEF Interrupted, Goto, AfterFailure
  <2> QED
    BY <2>1, <2>2, <2>3, <2>4
<1>5. PoolPlace'
  BY <1>1, <1>4 DEF LifecycleInv, PoolPlace, Startup
<1>6. ListenerPlace' /\ WorkerPlace'
  BY <1>3, <1>4
     DEF ListenerPlace, WorkerPlace, For, Assembly, Startup, Shutdown, Closing
<1>7. \A x \in Services \ spawned' : PhaseOf(x)' = "idle"
  BY <1>1, <1>2 DEF LifecycleInv
<1>8. /\ at' \in [step : Assembly \union Startup \union Shutdown \union Closing \union
                           {"serve", "serving"},
                  service : Services \union {None}]
      /\ at'.step \in Startup \union Shutdown => at'.service \in Services
  BY <1>4 DEF Assembly, Startup, Shutdown, Closing
<1> QED
  BY <1>1, <1>2, <1>5, <1>6, <1>7, <1>8 DEF LifecycleInv, Live, lKept, wKept

\* Starting the worker: the listener runs.
LEMMA WorkerStartInv ==
  ASSUME LifecycleInv,
         \/ Spawn("worker") \/ Await("worker")
         \/ Interrupt("worker") \/ Interrupted("worker")
  PROVE  LifecycleInv'
<1>0. lKept /\ wKept /\ For(Startup, "worker")
  BY DEF LifecycleInv, Spawn, Await, Interrupt, Interrupted, For,
         Startup, lKept, wKept
<1>1. /\ UNCHANGED <<http, pool, kept, held>> /\ at.step \in Startup
      /\ spawned \subseteq spawned' /\ spawned' \subseteq spawned \union {"worker"}
  BY DEF Spawn, Await, Interrupt, Interrupted, poolVars, Startup
<1>2. /\ lKept' /\ wKept' /\ Still("listener")
      /\ PhaseOf("listener")' = PhaseOf("listener")
      /\ PhaseOf("worker")' = PhaseOf("worker")
      /\ Interrupt("worker") \/ (UnchangedServices /\ Still("worker"))
  <2>1. CASE Interrupt("worker")
    BY <1>0, <2>1, CallStopSteps DEF Interrupt
  <2>2. CASE Spawn("worker") \/ Await("worker") \/ Interrupted("worker")
    BY <2>2, ServicesWait DEF Spawn, Await, Interrupted
  <2> QED
    BY <2>1, <2>2
<1>3. Running("listener")'
  <2>1. Running("listener")
    BY <1>0 DEF LifecycleInv, ListenerPlace, For
  <2> QED
    BY <1>2, <2>1 DEF Still
<1>4. \/ at' = [step |-> "await", service |-> "worker"] /\ NotStopped("worker")'
      \/ at' = [step |-> "interrupted", service |-> "worker"]
      \/ at' = [step |-> "serve", service |-> None] /\ Running("worker")'
      \/ at' = [step |-> "stop", service |-> "listener"] /\ Left("worker")'
  <2>1. CASE Spawn("worker")
    <3>1. NotBegun("worker") /\ Still("worker")
      BY <2>1, <1>2, ServicesWait DEF LifecycleInv, WorkerPlace, For, Spawn
    <3>2. NotStopped("worker")'
      BY <3>1 DEF NotBegun, Still
    <3>3. spawned' = spawned => Left("worker")'
      BY <3>1 DEF NotBegun, Left
    <3> QED
      BY <2>1, <3>2, <3>3 DEF Spawn, Goto, AfterFailure
  <2>2. CASE Await("worker")
    <3>1. NotStopped("worker") /\ Still("worker") /\ spawned' = spawned
      BY <2>2, ServicesWait DEF LifecycleInv, WorkerPlace, For, Await
    <3>2. PhaseOf("worker") \in {"running", "ended"} => Running("worker")'
      BY <1>0, <3>1, WorkerLeft, Lasting
    <3>3. PhaseOf("worker") = "failed" => Left("worker")'
      BY <1>2 DEF Left
    <3> QED
      BY <2>2, <3>2, <3>3 DEF Await, Goto, AfterFailure, AfterStart
  <2>3. CASE Interrupt("worker")
    BY <2>3 DEF Interrupt, Goto
  <2>4. CASE Interrupted("worker")
    <3>1. Left("worker") /\ Still("worker") /\ spawned' = spawned
      BY <1>0, <2>4, WorkerLeft, ServicesWait DEF Interrupted
    <3> QED
      BY <2>4, <3>1, Lasting DEF Interrupted, Goto, AfterFailure
  <2> QED
    BY <2>1, <2>2, <2>3, <2>4
<1>5. PoolPlace'
  BY <1>1, <1>4 DEF LifecycleInv, PoolPlace, Startup
<1>6. ListenerPlace' /\ WorkerPlace'
  BY <1>3, <1>4
     DEF ListenerPlace, WorkerPlace, For, Assembly, Startup, Shutdown, Closing
<1>7. \A x \in Services \ spawned' : PhaseOf(x)' = "idle"
  BY <1>1, <1>2 DEF LifecycleInv
<1>8. /\ at' \in [step : Assembly \union Startup \union Shutdown \union Closing \union
                           {"serve", "serving"},
                  service : Services \union {None}]
      /\ at'.step \in Startup \union Shutdown => at'.service \in Services
  BY <1>4 DEF Assembly, Startup, Shutdown, Closing
<1> QED
  BY <1>1, <1>2, <1>5, <1>6, <1>7, <1>8 DEF LifecycleInv, Live, lKept, wKept

\* Serving, with both services running, and stopping the worker.
LEMMA ServingInv ==
  ASSUME LifecycleInv, Serve \/ ServeEnds
  PROVE  LifecycleInv'
<1>1. /\ UnchangedServices /\ UNCHANGED <<spawned, pool, kept, held>>
      /\ at.step \in {"serve", "serving"}
      /\ \/ at' = [step |-> "serving", service |-> None] /\ http' = "serving"
         \/ at' = [step |-> "stop", service |-> "worker"] /\ http' = "down"
  BY DEF Serve, ServeEnds, Goto, poolVars
<1>2. /\ lKept' /\ wKept' /\ Running("listener")' /\ Running("worker")'
      /\ PhaseOf("listener")' = PhaseOf("listener")
      /\ PhaseOf("worker")' = PhaseOf("worker")
  BY <1>1, ServicesWait DEF LifecycleInv, ListenerPlace, WorkerPlace, Still
<1>3. PoolPlace' /\ ListenerPlace' /\ WorkerPlace'
  BY <1>1, <1>2
     DEF LifecycleInv, PoolPlace, ListenerPlace, WorkerPlace, For,
         Assembly, Startup, Shutdown, Closing
<1> QED
  BY <1>1, <1>2, <1>3
     DEF LifecycleInv, Live, Assembly, Startup, Shutdown, Closing, lKept, wKept

\* Stopping the worker while the listener runs.
LEMMA WorkerStopInv ==
  ASSUME LifecycleInv,
         StopService("worker") \/ ServiceStopped("worker") \/ WorkerCancelled
  PROVE  LifecycleInv'
<1>0. lKept /\ wKept
  BY DEF LifecycleInv, lKept, wKept
<1>1. /\ UNCHANGED <<spawned, http, pool, kept, held>>
      /\ at.step \in Shutdown /\ at.service = "worker"
  BY DEF StopService, ServiceStopped, WorkerCancelled, poolVars, Shutdown
<1>2. \/ \E s \in Stops :
           CallStop("worker", s) /\ \E step \in {"stopping", "cancelling"} :
                                          at' = [step |-> step, service |-> "worker"]
      \/ /\ UnchangedServices /\ at' = [step |-> "stop", service |-> "listener"]
         /\ \E s \in Stops : StopReturned("worker", s)
  BY DEF StopService, ServiceStopped, WorkerCancelled, Goto, AfterStop
<1>3. /\ lKept' /\ wKept' /\ Still("listener")
      /\ PhaseOf("listener")' = PhaseOf("listener")
      /\ PhaseOf("worker")' = PhaseOf("worker")
  BY <1>0, <1>2, CallStopSteps, ServicesWait
<1>4. Running("listener")'
  <2>1. Running("listener")
    BY <1>1 DEF LifecycleInv, ListenerPlace, For
  <2> QED
    BY <1>3, <2>1 DEF Still
<1>5. at'.step = "stop" => Left("worker")'
  <2>1. ASSUME UnchangedServices, NEW s \in Stops, StopReturned("worker", s)
        PROVE  Left("worker")'
    <3>1. Left("worker") /\ Still("worker")
      BY <1>0, <2>1, WorkerLeft, ServicesWait
    <3> QED
      BY <1>1, <3>1, Lasting
  <2> QED
    BY <1>2, <2>1
<1>6. \/ \E step \in {"stopping", "cancelling"} : at' = [step |-> step, service |-> "worker"]
      \/ at' = [step |-> "stop", service |-> "listener"]
  BY <1>2
<1>7. PoolPlace'
  BY <1>1, <1>6 DEF LifecycleInv, PoolPlace, Shutdown
<1>8. ListenerPlace' /\ WorkerPlace'
  BY <1>4, <1>5, <1>6
     DEF ListenerPlace, WorkerPlace, For, Assembly, Startup, Shutdown, Closing
<1> QED
  BY <1>1, <1>3, <1>6, <1>7, <1>8
     DEF LifecycleInv, Live, Assembly, Startup, Shutdown, Closing, lKept, wKept

\* Stopping the listener, when the worker is left, and closing the pool.
LEMMA ListenerStopInv ==
  ASSUME LifecycleInv,
         StopService("listener") \/ ServiceStopped("listener") \/ ClosePool \/ PoolClosed
  PROVE  LifecycleInv'
<1>0. lKept /\ wKept
  BY DEF LifecycleInv, lKept, wKept
<1>1. UNCHANGED <<spawned, http, kept, held>>
  BY DEF StopService, ServiceStopped, ClosePool, PoolClosed, poolVars
<1>2. \/ /\ For({"stop", "stopping"}, "listener") /\ pool' = pool
         /\ \/ /\ \E s \in Stops : CallStop("listener", s)
               /\ at' = [step |-> "stopping", service |-> "listener"]
            \/ /\ UnchangedServices /\ at' = [step |-> "close", service |-> None]
               /\ \E s \in Stops : StopReturned("listener", s)
      \/ /\ at.step \in Closing /\ UnchangedServices
         /\ \/ pool' = "closing" /\ at' = [step |-> "closing", service |-> None]
            \/ pool' = "closed" /\ at' = [step |-> "exit", service |-> None]
  <2>1. CASE StopService("listener")
    BY <2>1 DEF StopService, Goto, For, poolVars
  <2>2. CASE ServiceStopped("listener")
    BY <2>2 DEF ServiceStopped, Goto, AfterStop, For, poolVars
  <2>3. CASE ClosePool \/ PoolClosed
    BY <2>3 DEF ClosePool, PoolClosed, Goto, Closing
  <2> QED
    BY <2>1, <2>2, <2>3
<1>3. /\ lKept' /\ wKept' /\ Still("worker")
      /\ PhaseOf("listener")' = PhaseOf("listener")
      /\ PhaseOf("worker")' = PhaseOf("worker")
  BY <1>0, <1>2, CallStopSteps, ServicesWait
<1>4. Left("worker")'
  <2>1. Left("worker")
    BY <1>2 DEF LifecycleInv, WorkerPlace, For, Shutdown
  <2> QED
    BY <1>1, <1>3, <2>1, Lasting
<1>5. at'.step \in Closing => Left("listener")'
  <2>1. ASSUME UnchangedServices,
               at.step \in Closing \/ \E s \in Stops : StopReturned("listener", s)
        PROVE  Left("listener")'
    <3>1. Left("listener") /\ Still("listener")
      BY <1>0, <2>1, ListenerLeft, ServicesWait DEF LifecycleInv, ListenerPlace
    <3> QED
      BY <1>1, <3>1, Lasting
  <2> QED
    BY <1>2, <2>1 DEF Closing
<1>6. \/ at' = [step |-> "stopping", service |-> "listener"]
      \/ \E step \in Closing : at' = [step |-> step, service |-> None]
  BY <1>2 DEF Closing
<1>7. PoolPlace'
  BY <1>1, <1>2 DEF LifecycleInv, PoolPlace, For, Closing
<1>8. ListenerPlace' /\ WorkerPlace'
  BY <1>4, <1>5, <1>6
     DEF ListenerPlace, WorkerPlace, For, Assembly, Startup, Shutdown, Closing
<1> QED
  BY <1>1, <1>3, <1>6, <1>7, <1>8
     DEF LifecycleInv, Live, Assembly, Startup, Shutdown, Closing, lKept, wKept

\* A connection of the pool is taken or given back.
LEMMA PoolUseInv ==
  ASSUME LifecycleInv, NEW u \in PoolUsers, Acquire(u) \/ Release(u)
  PROVE  LifecycleInv'
<1>1. /\ UnchangedServices /\ UNCHANGED <<at, spawned, http, pool, kept>>
      /\ held' \subseteq PoolUsers /\ ("worker" \in held' => Live("worker"))
  BY DEF LifecycleInv, Acquire, Release, Uses
<1>2. /\ lKept' /\ wKept' /\ Still("listener") /\ Still("worker")
      /\ PhaseOf("listener")' = PhaseOf("listener")
      /\ PhaseOf("worker")' = PhaseOf("worker")
  BY <1>1, ServicesWait
<1>3. PoolPlace'
  BY <1>1 DEF LifecycleInv, PoolPlace
<1>4. ListenerPlace' /\ WorkerPlace'
  BY <1>1, <1>2, Lasting DEF LifecycleInv, ListenerPlace, WorkerPlace, For, Still
<1> QED
  BY <1>1, <1>2, <1>3, <1>4 DEF LifecycleInv, Live, lKept, wKept

\* Every step.
LEMMA LifecycleNextInv ==
  ASSUME LifecycleInv, [Next]_vars
  PROVE  LifecycleInv'
<1>1. CASE OpenPool \/ Migrate \/ Build \/ Built \/ Assemble
  BY <1>1, AssemblyInv
<1>2. CASE Serve \/ ServeEnds \/ WorkerCancelled \/ ClosePool \/ PoolClosed
  BY <1>2, ServingInv, WorkerStopInv, ListenerStopInv
<1>3. ASSUME NEW x \in Services,
             \/ Spawn(x) \/ Await(x) \/ Interrupt(x) \/ Interrupted(x)
             \/ StopService(x) \/ ServiceStopped(x)
      PROVE  LifecycleInv'
  <2>1. CASE x = "listener"
    BY <1>3, <2>1, ListenerStartInv, ListenerStopInv
  <2>2. CASE x = "worker"
    BY <1>3, <2>2, WorkerStartInv, WorkerStopInv
  <2> QED
    BY <2>1, <2>2
<1>4. CASE Signal \/ UNCHANGED vars
  <2>1. UnchangedServices /\ UNCHANGED mainVars
    BY <1>4 DEF Signal, vars, UnchangedServices
  <2>2. /\ lKept' /\ wKept' /\ Still("listener") /\ Still("worker")
        /\ \A x \in Services \ spawned : PhaseOf(x)' = "idle"
    BY <2>1, ServicesWait DEF LifecycleInv
  <2>3. "worker" \in held => Live("worker")'
    BY <2>1, ServicesWait DEF LifecycleInv, Live
  <2> QED
    BY <2>1, <2>2, <2>3, ServicesMove
<1>5. CASE ServiceWorks \/ StopProceeds \/ \E x \in Services : Begin(x)
  BY <1>5, ServicesMoveInv
<1>6. CASE \E u \in PoolUsers : Acquire(u) \/ Release(u)
  BY <1>6, PoolUseInv
<1> QED
  BY <1>1, <1>2, <1>3, <1>4, <1>5, <1>6 DEF Next, Main

\* What the invariant says of the order.
LEMMA LifecycleSafe ==
  ASSUME LifecycleInv
  PROVE  ShutdownOrder
<1>1. PoolNotLeft
  BY DEF PoolNotLeft, LifecycleInv, PoolPlace
<1>2. ASSUME NEW x \in Services, Left(x), Live(x)
      PROVE  GaveUp(x) \/ StoppedNothing(x)
  BY <1>2 DEF LifecycleInv, Left, Live
<1>3. PoolClosedLast
  <2>1. SUFFICES ASSUME pool \in {"closing", "closed"}, NEW x \in Services,
                        Live(x) \/ x \in held
                 PROVE  GaveUp(x) \/ StoppedNothing(x)
    BY DEF PoolClosedLast
  <2>2. Left("listener") /\ Left("worker")
    BY <2>1 DEF LifecycleInv, PoolPlace, ListenerPlace, WorkerPlace, Closing
  <2>3. Live(x)
    BY <2>1 DEF LifecycleInv, PoolUsers
  <2> QED
    BY <1>2, <2>2, <2>3
<1>4. /\ Running("listener") => lCancelled = {}
      /\ Running("worker") => wCancelled = {}
  BY DEF LifecycleInv, Contract, Running, NotStopped, PhaseOf, StopState
<1>5. ASSUME http = "serving"
      PROVE  /\ \A x \in Services : PhaseOf(x) = "running"
             /\ lCancelled = {} /\ wCancelled = {} /\ pool = "open"
  <2>1. at.step = "serving" /\ pool = "open"
    BY <1>5 DEF LifecycleInv, PoolPlace
  <2>2. Running("listener") /\ Running("worker")
    BY <2>1 DEF LifecycleInv, ListenerPlace, WorkerPlace
  <2> QED
    BY <1>4, <2>1, <2>2 DEF Running
<1>6. ASSUME lCancelled # {}, Live("worker")
      PROVE  GaveUp("worker") \/ StoppedNothing("worker")
  <2>1. ~Running("listener") /\ "worker" \in spawned
    BY <1>4, <1>6 DEF LifecycleInv, Live
  <2>2. For(Shutdown, "listener") \/ at.step \in Closing
    BY <2>1 DEF LifecycleInv, ListenerPlace, WorkerPlace, NotBegun, For,
                Assembly, Startup, Shutdown, Closing
  <2>3. Left("worker")
    BY <2>2 DEF LifecycleInv, WorkerPlace
  <2> QED
    BY <1>2, <1>6, <2>3
<1>7. ServicesNest
  BY <1>5, <1>6 DEF ServicesNest
<1> QED
  BY <1>1, <1>3, <1>7 DEF ShutdownOrder

\* Where runServices is tells how far each service is and who may stop it:
\* signals, failures and services that hang included.
THEOREM LifecycleInvariant == Spec => []LifecycleInv
<1>1. Init => LifecycleInv
  BY LifecycleInitInv
<1>2. LifecycleInv /\ [Next]_vars => LifecycleInv'
  BY LifecycleNextInv
<1> QED
  BY <1>1, <1>2, PTL DEF Spec

\* runServices and the deferred close of runServe: HTTP ends before the worker
\* is stopped, the worker before the listener, and the pool is closed last, and
\* always, unless a stop gave up or came before the start it was meant for.
THEOREM ServicesGivenUpInOrder == Spec => []ShutdownOrder
<1>1. LifecycleInv => ShutdownOrder
  BY LifecycleSafe
<1> QED
  BY <1>1, LifecycleInvariant, PTL
=============================================================================
