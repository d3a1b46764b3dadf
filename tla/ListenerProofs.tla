--------------------------- MODULE ListenerProofs ---------------------------
(***************************************************************************)
(* Proofs about Listener: ListenerInv is inductive, one connection and     *)
(* quiet after Stop follow from it, and Listener implements Service.       *)
(***************************************************************************)
EXTENDS Listener, TLAPS

USE DEF StartSteps, RunSteps, Steps
USE ListenerAssumption

LEMMA InitInv == Init => ListenerInv
BY DEF Init, ListenerInv, TypeOK

LEMMA StartInv ==
  ASSUME ListenerInv, NEW c \in Starters, Start(c)
  PROVE  ListenerInv'
BY DEF ListenerInv, TypeOK, Start, At

LEMMA FailStartInv ==
  ASSUME ListenerInv, NEW c \in Starters, pc[c] \in StartSteps, FailStart(c)
  PROVE  ListenerInv'
<1>1. TypeOK'
  BY DEF ListenerInv, TypeOK, FailStart, Connection, CloseDone
<1>2. \A d \in Starters :
        /\ pc'[d] = IF d = c THEN "failed" ELSE pc[d]
        /\ conn'[d] = IF d = c THEN "none" ELSE conn[d]
        /\ closes'[d] = IF d = c THEN closes[c] + 1 ELSE closes[d]
  BY DEF ListenerInv, TypeOK, FailStart, Connection, CloseDone
<1>3. c = current /\ current' = None /\ closes[c] = 0 /\ ctxDone' = ctxDone \union {c}
      /\ stop' = stop
  BY DEF ListenerInv, FailStart
<1> QED
  BY <1>1, <1>2, <1>3 DEF ListenerInv, TypeOK

LEMMA ReturnInv ==
  ASSUME ListenerInv, NEW c \in Starters, c \in ctxDone, pc[c] \in RunSteps, Return(c),
         conn' \in [Starters -> {"none", "open", "listening"}],
         conn'[c] = "none", \A d \in Starters \ {c} : conn'[d] = conn[d]
  PROVE  ListenerInv'
<1>1. c = current /\ closes[c] = 0 /\ UNCHANGED <<current, ctxDone, stop>>
  BY DEF ListenerInv, Return
<1>2. /\ pc' \in [Starters -> Steps]
      /\ closes' \in [Starters -> 0 .. 1]
      /\ \A d \in Starters :
           /\ pc'[d] = IF d = c THEN "gone" ELSE pc[d]
           /\ closes'[d] = IF d = c THEN 1 ELSE closes[d]
  BY <1>1 DEF ListenerInv, TypeOK, Return, CloseDone
<1>3. TypeOK'
  BY <1>1, <1>2 DEF ListenerInv, TypeOK
<1> QED
  BY <1>1, <1>2, <1>3 DEF ListenerInv, TypeOK

\* A step of a goroutine from one of its places to another.
LEMMA MoveInv ==
  ASSUME ListenerInv, NEW c \in Starters,
         NEW from \in StartSteps \union RunSteps, NEW to \in StartSteps \union RunSteps,
         At(c, from, to),
         NEW state \in {"none", "open", "listening"},
         conn' = [conn EXCEPT ![c] = state],
         state # "none" => to \in {"connected", "listening", "waiting", "dropped", "redialed"},
         UNCHANGED <<current, ctxDone, closes, stop>>
  PROVE  ListenerInv'
<1>1. TypeOK'
  BY DEF ListenerInv, TypeOK, At
<1>2. \A d \in Starters :
        /\ pc'[d] = IF d = c THEN to ELSE pc[d]
        /\ conn'[d] = IF d = c THEN state ELSE conn[d]
  BY DEF ListenerInv, TypeOK, At
<1> QED
  BY <1>1, <1>2 DEF ListenerInv, TypeOK, At

LEMMA ContinueInv ==
  ASSUME ListenerInv, NEW c \in Starters, Continue(c) \/ Drop(c)
  PROVE  ListenerInv'
<1>0. TypeOK /\ conn \in [Starters -> {"none", "open", "listening"}]
      /\ conn = [conn EXCEPT ![c] = conn[c]] /\ conn[c] \in {"none", "open", "listening"}
  BY DEF ListenerInv, TypeOK
<1>1. CASE Connect(c)
  BY <1>1, FailStartInv, MoveInv DEF Connect, Connection
<1>2. CASE Listen(c)
  BY <1>2, FailStartInv, MoveInv DEF Listen, Connection
<1>3. CASE Launch(c)
  BY <1>0, <1>3, FailStartInv, MoveInv DEF Launch, Connection
<1>4. CASE Drop(c)
  BY <1>0, <1>4, MoveInv DEF Drop
<1>5. CASE HangUp(c)
  <2>1. conn' \in [Starters -> {"none", "open", "listening"}] /\ conn'[c] = "none"
        /\ \A d \in Starters \ {c} : conn'[d] = conn[d]
    BY <1>0, <1>5 DEF HangUp, Connection
  <2> QED
    BY <1>5, <2>1, ReturnInv, MoveInv DEF HangUp, Connection
<1>6. CASE Sleep(c)
  <2>1. conn[c] = "none" /\ conn' = conn /\ pc[c] = "backoff"
    BY <1>6 DEF Sleep, ListenerInv
  <2>2. CASE c \in ctxDone /\ Return(c)
    BY <1>0, <2>1, <2>2, ReturnInv
  <2>3. CASE At(c, "backoff", "redialing") /\ UNCHANGED <<current, ctxDone, closes, stop>>
    BY <1>0, <2>1, <2>3, MoveInv
  <2> QED
    BY <1>6, <2>2, <2>3 DEF Sleep
<1>7. CASE RedialFails(c)
  <2>1. conn[c] = "none"
    BY <1>7 DEF RedialFails, At, ListenerInv
  <2> QED
    BY <1>0, <1>7, <2>1, MoveInv DEF RedialFails
<1>8. CASE Redial(c)
  BY <1>8, MoveInv DEF Redial, Connection
<1>9. CASE RelistenFails(c)
  BY <1>9, MoveInv DEF RelistenFails, Connection
<1>10. CASE Relisten(c)
  BY <1>10, MoveInv DEF Relisten, Connection
<1> QED
  BY <1>1, <1>2, <1>3, <1>4, <1>5, <1>6, <1>7, <1>8, <1>9, <1>10 DEF Continue

LEMMA StopInv ==
  ASSUME ListenerInv, NEW s \in Stoppers, Stop(s) \/ Cancel(s) \/ Stopped(s) \/ GiveUp(s)
  PROVE  ListenerInv'
<1>1. CASE Stop(s)
  BY <1>1 DEF ListenerInv, TypeOK, Stop
<1>2. CASE Cancel(s)
  BY <1>2 DEF ListenerInv, TypeOK, Cancel
<1>3. CASE Stopped(s)
  <2>1. stop[s].of # None /\ stop[s].of \in Starters /\ pc[stop[s].of] \in {"failed", "gone"}
    BY <1>3 DEF ListenerInv, TypeOK, Stopped
  <2> QED
    BY <1>3, <2>1 DEF ListenerInv, TypeOK, Stopped
<1>4. CASE GiveUp(s)
  BY <1>4 DEF ListenerInv, TypeOK, GiveUp
<1> QED
  BY <1>1, <1>2, <1>3, <1>4

LEMMA NextInv ==
  ASSUME ListenerInv, [Next]_vars
  PROVE  ListenerInv'
<1>1. CASE UNCHANGED vars
  BY <1>1 DEF ListenerInv, TypeOK, vars
<1> QED
  BY <1>1, StartInv, ContinueInv, StopInv DEF Next

\* The listener's fields and its goroutines agree, under any number of
\* concurrent calls of Start and Stop.
THEOREM ListenerInvariant == Spec => []ListenerInv
<1>1. Init => ListenerInv
  BY InitInv
<1>2. ListenerInv /\ [Next]_vars => ListenerInv'
  BY NextInv
<1> QED
  BY <1>1, <1>2, PTL DEF Spec

\* No done channel is closed twice.
THEOREM ListenerTypes == Spec => []TypeOK
<1>1. ListenerInv => TypeOK
  BY DEF ListenerInv
<1> QED
  BY <1>1, ListenerInvariant, PTL

\* The listener never holds two database connections.
THEOREM SingleConnection == Spec => []OneConnection
<1>1. ListenerInv => OneConnection
  BY DEF ListenerInv, OneConnection
<1> QED
  BY <1>1, ListenerInvariant, PTL

\* After Stop has returned, what it stopped neither runs nor holds a connection.
THEOREM QuietAfterStop == Spec => []StoppedIsQuiet
<1>1. ListenerInv => StoppedIsQuiet
  BY DEF ListenerInv, TypeOK, StoppedIsQuiet
<1> QED
  BY <1>1, ListenerInvariant, PTL

-----------------------------------------------------------------------------
(* Listener implements Service: each step of a call or of its goroutine is  *)
(* a step of the service or leaves its phase as it is.                     *)

USE DEF AsService!Over, AsService!InForce

LEMMA InitRefines == Init => AsService!ServiceInit
BY DEF Init, AsService!ServiceInit, PhaseOf

\* The phases a state of the listener stands for.
Phases == [c \in Starters |-> PhaseOf(c)]

LEMMA PhaseMoves ==
  ASSUME TypeOK, NEW c \in Starters, NEW to \in Steps, pc' = [pc EXCEPT ![c] = to]
  PROVE  Phases' = [Phases EXCEPT ![c] = CASE to \in StartSteps -> "starting"
                                           [] to \in RunSteps -> "running"
                                           [] to = "gone" -> "ended"
                                           [] OTHER -> to]
BY DEF Phases, PhaseOf, TypeOK

LEMMA NoneInForce ==
  ASSUME ListenerInv
  PROVE  /\ \A c \in Starters : AsService!InForce(c) <=> c = current
         /\ \A c \in Starters : AsService!Over(c) <=> pc[c] \in {"failed", "gone"}
BY DEF ListenerInv, TypeOK, PhaseOf

LEMMA CallRefines ==
  ASSUME ListenerInv, NEW c \in Starters, Start(c)
  PROVE  AsService!Start(c)
<1>1. CASE current # None /\ At(c, "idle", "refused") /\ UNCHANGED current
  <2>1. PhaseOf(c) = "idle"
    BY <1>1 DEF At, PhaseOf
  <2>3. Phases' = [Phases EXCEPT ![c] = "refused"]
    BY <1>1 DEF ListenerInv, TypeOK, At, Phases, PhaseOf
  <2>2. current \in Starters /\ AsService!InForce(current)
    BY <1>1, NoneInForce DEF ListenerInv, TypeOK
  <2> QED
    BY <2>1, <2>2, <2>3 DEF AsService!Start, Phases, Start
<1>2. CASE current = None /\ At(c, "idle", "connecting") /\ current' = c
  <2>1. Phases' = [Phases EXCEPT ![c] = "starting"] /\ PhaseOf(c) = "idle"
    BY <1>2, PhaseMoves DEF ListenerInv, At, PhaseOf
  <2>2. \A d \in Starters : ~AsService!InForce(d)
    BY <1>2, NoneInForce
  <2> QED
    BY <2>1, <2>2 DEF AsService!Start, Phases, Start
<1> QED
  BY <1>1, <1>2 DEF Start

LEMMA FailStartRefines ==
  ASSUME ListenerInv, NEW c \in Starters, pc[c] \in StartSteps, FailStart(c)
  PROVE  AsService!StartFailed(c)
<1>1. Phases' = [Phases EXCEPT ![c] = "failed"] /\ PhaseOf(c) = "starting"
  BY PhaseMoves DEF ListenerInv, FailStart, PhaseOf
<1> QED
  BY <1>1 DEF AsService!StartFailed, Phases, FailStart

LEMMA ReturnRefines ==
  ASSUME ListenerInv, NEW c \in Starters, c \in ctxDone, pc[c] \in RunSteps, Return(c)
  PROVE  AsService!Ended(c)
<1>1. Phases' = [Phases EXCEPT ![c] = "ended"] /\ PhaseOf(c) = "running"
  BY PhaseMoves DEF ListenerInv, Return, PhaseOf
<1> QED
  BY <1>1 DEF AsService!Ended, Phases, Return

\* A step that stays within the start, or within the run, is not seen.
LEMMA MoveStutters ==
  ASSUME ListenerInv, NEW c \in Starters, NEW from \in Steps, NEW to \in Steps,
         At(c, from, to), UNCHANGED <<ctxDone, stop>>,
         \/ from \in StartSteps /\ to \in StartSteps
         \/ from \in RunSteps /\ to \in RunSteps
  PROVE  UNCHANGED AsService!serviceVars
<1>1. Phases' = Phases
  BY DEF Phases, PhaseOf, ListenerInv, TypeOK, At
<1> QED
  BY <1>1 DEF AsService!serviceVars, Phases

LEMMA LaunchRefines ==
  ASSUME ListenerInv, NEW c \in Starters, c \notin ctxDone, At(c, "listening", "waiting"),
         UNCHANGED <<ctxDone, stop>>
  PROVE  AsService!Up(c)
<1>1. Phases' = [Phases EXCEPT ![c] = "running"] /\ PhaseOf(c) = "starting"
  BY PhaseMoves DEF ListenerInv, At, PhaseOf
<1> QED
  BY <1>1 DEF AsService!Up, Phases

LEMMA ContinueRefines ==
  ASSUME ListenerInv, NEW c \in Starters, Continue(c) \/ Drop(c)
  PROVE  \/ AsService!Up(c) \/ AsService!StartFailed(c) \/ AsService!Ended(c)
         \/ UNCHANGED AsService!serviceVars
<1>1. CASE Connect(c)
  BY <1>1, FailStartRefines, MoveStutters DEF Connect
<1>2. CASE Listen(c)
  BY <1>2, FailStartRefines, MoveStutters DEF Listen
<1>3. CASE Launch(c)
  BY <1>3, FailStartRefines, LaunchRefines DEF Launch
<1>4. CASE Drop(c)
  BY <1>4, MoveStutters DEF Drop
<1>5. CASE HangUp(c)
  BY <1>5, ReturnRefines, MoveStutters DEF HangUp
<1>6. CASE Sleep(c)
  BY <1>6, ReturnRefines, MoveStutters DEF Sleep
<1>7. CASE RedialFails(c) \/ Redial(c) \/ RelistenFails(c) \/ Relisten(c)
  BY <1>7, MoveStutters DEF RedialFails, Redial, RelistenFails, Relisten
<1> QED
  BY <1>1, <1>2, <1>3, <1>4, <1>5, <1>6, <1>7 DEF Continue

LEMMA StopRefines ==
  ASSUME ListenerInv, NEW s \in Stoppers, Stop(s) \/ Cancel(s) \/ Stopped(s) \/ GiveUp(s)
  PROVE  AsService!Stop(s) \/ AsService!Cancel(s) \/ AsService!Stopped(s) \/ AsService!GiveUp(s)
<1>0. pc' = pc /\ Phases' = Phases
  BY DEF Stop, Cancel, Stopped, GiveUp, Phases, PhaseOf
<1>1. CASE Stop(s)
  <2>1. CASE current = None
    <3>1. \A c \in Starters : ~AsService!InForce(c)
      BY <2>1, NoneInForce
    <3>2. stop[s] = [state |-> "idle", of |-> None]
      BY <1>1 DEF Stop, ListenerInv, TypeOK
    <3>3. stop' = [stop EXCEPT ![s].state = "returned"]
      BY <1>1, <2>1, <3>2 DEF Stop, ListenerInv, TypeOK
    <3> QED
      BY <1>0, <1>1, <3>1, <3>3 DEF AsService!Stop, Phases, Stop
  <2>2. CASE current # None
    <3>1. current \in Starters /\ AsService!InForce(current)
      BY <2>2, NoneInForce DEF ListenerInv, TypeOK
    <3> QED
      BY <1>0, <1>1, <2>2, <3>1 DEF AsService!Stop, Phases, Stop
  <2> QED
    BY <2>1, <2>2
<1>2. CASE Cancel(s)
  BY <1>0, <1>2 DEF Cancel, AsService!Cancel, Phases
<1>3. CASE Stopped(s)
  <2>1. stop[s].of \in Starters /\ AsService!Over(stop[s].of)
    BY <1>3, NoneInForce DEF Stopped, ListenerInv, TypeOK
  <2> QED
    BY <1>0, <1>3, <2>1 DEF Stopped, AsService!Stopped, Phases
<1>4. CASE GiveUp(s)
  BY <1>0, <1>4 DEF GiveUp, AsService!GiveUp, Phases
<1> QED
  BY <1>1, <1>2, <1>3, <1>4

LEMMA StepRefines ==
  ASSUME ListenerInv, [Next]_vars
  PROVE  [AsService!ServiceNext]_(AsService!serviceVars)
<1>1. CASE UNCHANGED vars
  BY <1>1 DEF vars, AsService!serviceVars, PhaseOf
<1>2. CASE \E c \in Starters : Start(c) \/ Continue(c) \/ Drop(c)
  BY <1>2, CallRefines, ContinueRefines DEF AsService!ServiceNext
<1>3. CASE \E s \in Stoppers : Stop(s) \/ Cancel(s) \/ Stopped(s) \/ GiveUp(s)
  BY <1>3, StopRefines DEF AsService!ServiceNext
<1> QED
  BY <1>1, <1>2, <1>3 DEF Next

\* Listener keeps the contract Lifecycle is built on, for any number of calls.
THEOREM Refinement == Spec => ImplementsService
<1>1. Init => AsService!ServiceInit
  BY InitRefines
<1>2. ListenerInv /\ [Next]_vars => [AsService!ServiceNext]_(AsService!serviceVars)
  BY StepRefines
<1> QED
  BY <1>1, <1>2, ListenerInvariant, PTL DEF Spec, ImplementsService, AsService!ServiceSpec
=============================================================================
