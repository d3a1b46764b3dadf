------------------------------ MODULE Service -------------------------------
(***************************************************************************)
(* What serviceLifecycle promises: Start brings a service up at most once  *)
(* at a time, Stop cancels the start or the run it finds and returns when  *)
(* that has ended.  A Stop that finds nothing returns at once, and does     *)
(* not keep a Start from beginning afterwards.                             *)
(*                                                                         *)
(* Listener is shown to implement this module; Lifecycle is built on it.   *)
(***************************************************************************)
CONSTANTS
  Starters,   \* calls of Start
  Stoppers,   \* calls of Stop
  None

VARIABLES
  phase,      \* how far each start is
  cancelled,  \* the starts whose context was cancelled
  stopping    \* the calls of Stop: how far they are and what they found

serviceVars == <<phase, cancelled, stopping>>

InForce(c) == phase[c] \in {"starting", "running", "ended"}
Over(c) == phase[c] \in {"failed", "ended"}

ServiceInit ==
  /\ phase = [c \in Starters |-> "idle"]
  /\ cancelled = {}
  /\ stopping = [s \in Stoppers |-> [state |-> "idle", of |-> None]]

Start(c) ==
  /\ phase[c] = "idle"
  /\ phase' = [phase EXCEPT ![c] = IF \E d \in Starters : InForce(d) THEN "refused" ELSE "starting"]
  /\ UNCHANGED <<cancelled, stopping>>

Up(c) ==
  /\ phase[c] = "starting" /\ c \notin cancelled
  /\ phase' = [phase EXCEPT ![c] = "running"]
  /\ UNCHANGED <<cancelled, stopping>>

StartFailed(c) ==
  /\ phase[c] = "starting"
  /\ phase' = [phase EXCEPT ![c] = "failed"]
  /\ cancelled' = cancelled \union {c}
  /\ UNCHANGED stopping

Ended(c) ==
  /\ phase[c] = "running" /\ c \in cancelled
  /\ phase' = [phase EXCEPT ![c] = "ended"]
  /\ UNCHANGED <<cancelled, stopping>>

Stop(s) ==
  /\ stopping[s].state = "idle"
  /\ \/ /\ \A c \in Starters : ~InForce(c)
        /\ stopping' = [stopping EXCEPT ![s].state = "returned"]
     \/ \E c \in Starters :
          /\ InForce(c)
          /\ stopping' = [stopping EXCEPT ![s] = [state |-> "called", of |-> c]]
  /\ UNCHANGED <<phase, cancelled>>

Cancel(s) ==
  /\ stopping[s].state = "called"
  /\ cancelled' = cancelled \union {stopping[s].of}
  /\ stopping' = [stopping EXCEPT ![s].state = "waiting"]
  /\ UNCHANGED phase

Stopped(s) ==
  /\ stopping[s].state = "waiting" /\ Over(stopping[s].of)
  /\ stopping' = [stopping EXCEPT ![s].state = "returned"]
  /\ UNCHANGED <<phase, cancelled>>

\* The context Stop was given ends first.
GiveUp(s) ==
  /\ stopping[s].state = "waiting"
  /\ stopping' = [stopping EXCEPT ![s].state = "gave_up"]
  /\ UNCHANGED <<phase, cancelled>>

ServiceNext ==
  \/ \E c \in Starters : Start(c) \/ Up(c) \/ StartFailed(c) \/ Ended(c)
  \/ \E s \in Stoppers : Stop(s) \/ Cancel(s) \/ Stopped(s) \/ GiveUp(s)

ServiceSpec == ServiceInit /\ [][ServiceNext]_serviceVars
=============================================================================
