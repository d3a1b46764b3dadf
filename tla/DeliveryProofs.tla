--------------------------- MODULE DeliveryProofs ---------------------------
(***************************************************************************)
(* Proofs about Delivery: a client that is behind is about to be told, for *)
(* any number of replicas, tabs and commits and any size of channel.       *)
(***************************************************************************)
EXTENDS Delivery, TLAPS

USE BufferAssumption, CommitsAssumption
USE DEF Rounds

\* A reading never finds less than what is shown, so that applying it cannot
\* take a client back; with that, WakeUpComing is inductive.
ReadsInOrder ==
  \A c \in Clients :
    /\ seen[c] <= committed
    /\ run[c] = "served" => seen[c] <= snapshot[c] /\ snapshot[c] <= committed

DeliveryInv == TypeOK /\ ReadsInOrder /\ WakeUpComing

LEMMA InitInv == Init => DeliveryInv
BY DEF Init, DeliveryInv, TypeOK, ReadsInOrder, WakeUpComing

-----------------------------------------------------------------------------
(* PostgreSQL and the replicas.                                            *)

LEMMA CommitInv ==
  ASSUME DeliveryInv, Commit
  PROVE  DeliveryInv'
<1>0. UNCHANGED <<up, listening, on, alive, buffer, wire, phase, run, snapshot, queued, error, seen>>
  BY DEF Commit, streams, reads
<1>1. TypeOK'
  BY <1>0 DEF DeliveryInv, TypeOK, Commit
<1>2. ReadsInOrder'
  BY <1>0 DEF DeliveryInv, TypeOK, ReadsInOrder, Commit
<1>3. ASSUME NEW c \in alive
      PROVE  Coming(c)' \/ c \in missed'
  <2>1. CASE on[c] \in listening
    <3>1. on[c] \in Replicas /\ queue'[on[c]] = queue[on[c]] + 1 /\ queue[on[c]] \in Nat
      BY <2>1 DEF DeliveryInv, TypeOK, Commit
    <3> QED
      BY <1>0, <3>1 DEF Coming
  <2>2. CASE on[c] \notin listening
    BY <2>2 DEF Commit
  <2> QED
    BY <2>1, <2>2
<1> QED
  BY <1>0, <1>1, <1>2, <1>3 DEF DeliveryInv, WakeUpComing

LEMMA PublishInv ==
  ASSUME DeliveryInv, NEW r \in Replicas, Publish(r)
  PROVE  DeliveryInv'
<1>0. UNCHANGED <<committed, up, listening, on, alive, wire, phase, run, snapshot, queued, error,
                  seen, missed>>
  BY DEF Publish, database, reads
<1>1. TypeOK'
  BY <1>0 DEF DeliveryInv, TypeOK, Publish
<1>2. ASSUME NEW c \in alive, Coming(c)
      PROVE  Coming(c)'
  <2>1. c \in Clients /\ buffer[c] \in 0 .. Buffer
    BY DEF DeliveryInv, TypeOK
  <2>2. CASE on[c] = r
    <3>1. buffer'[c] > 0
      BY <2>1, <2>2 DEF Publish, Served
    <3> QED
      BY <3>1 DEF Coming
  <2>3. CASE on[c] # r
    <3>1. queue'[on[c]] = queue[on[c]] /\ buffer'[c] = buffer[c]
      BY <2>1, <2>3 DEF Publish, Served, DeliveryInv, TypeOK
    <3> QED
      BY <1>0, <1>2, <3>1 DEF Coming
  <2> QED
    BY <2>2, <2>3
<1> QED
  BY <1>0, <1>1, <1>2 DEF DeliveryInv, ReadsInOrder, WakeUpComing

LEMMA OutageInv ==
  ASSUME DeliveryInv, NEW r \in Replicas, Outage(r)
  PROVE  DeliveryInv'
<1>0. UNCHANGED <<committed, up, on, alive, buffer, wire, phase, run, snapshot, queued, error, seen>>
  BY DEF Outage, database, streams, reads
<1>1. TypeOK'
  BY <1>0 DEF DeliveryInv, TypeOK, Outage, Served
<1>2. ASSUME NEW c \in alive, Coming(c)
      PROVE  Coming(c)' \/ c \in missed'
  <2>1. CASE on[c] = r /\ queue[r] > 0
    BY <2>1 DEF Outage, Served
  <2>2. CASE ~(on[c] = r /\ queue[r] > 0)
    <3>1. queue[on[c]] > 0 => queue'[on[c]] > 0
      BY <2>2 DEF Outage, DeliveryInv, TypeOK
    <3> QED
      BY <1>0, <1>2, <3>1 DEF Coming
  <2> QED
    BY <2>1, <2>2
<1>3. missed \subseteq missed'
  BY DEF Outage
<1> QED
  BY <1>0, <1>1, <1>2, <1>3 DEF DeliveryInv, ReadsInOrder, WakeUpComing

\* A broken stream is no longer alive; the others are not touched.
LEMMA SeverInv ==
  ASSUME DeliveryInv, NEW S \in SUBSET Clients, Sever(S),
         UNCHANGED <<committed, run, snapshot, queued, error, seen, missed>>,
         up' \subseteq Replicas, listening' \subseteq up', queue' \in [Replicas -> Nat],
         \A c \in alive \ S : queue'[on[c]] = queue[on[c]]
  PROVE  DeliveryInv'
<1>1. TypeOK'
  BY DEF DeliveryInv, TypeOK, Sever, Set
<1>2. alive' = alive \ S /\ on' = on
  BY DEF Sever
<1>3. \A c \in Clients \ S : buffer'[c] = buffer[c] /\ wire'[c] = wire[c] /\ phase'[c] = phase[c]
  BY DEF DeliveryInv, TypeOK, Sever, Set
<1>4. \A c \in alive \ S : c \in Clients
  BY DEF DeliveryInv, TypeOK
<1>5. ASSUME NEW c \in alive', Coming(c)
      PROVE  Coming(c)'
  BY <1>2, <1>3, <1>4, <1>5 DEF Coming
<1> QED
  BY <1>1, <1>2, <1>5 DEF DeliveryInv, ReadsInOrder, WakeUpComing

LEMMA ReplicaInv ==
  ASSUME DeliveryInv, NEW r \in Replicas, ReplicaNext(r)
  PROVE  DeliveryInv'
<1>1. CASE Relisten(r)
  BY <1>1 DEF Relisten, database, streams, reads, DeliveryInv, TypeOK, ReadsInOrder, WakeUpComing, Coming
<1>2. CASE Boot(r)
  BY <1>2 DEF Boot, database, streams, reads, DeliveryInv, TypeOK, ReadsInOrder, WakeUpComing, Coming
<1>3. CASE Crash(r)
  <2>1. Served(r) \in SUBSET Clients /\ Sever(Served(r))
        /\ UNCHANGED <<committed, run, snapshot, queued, error, seen, missed>>
    BY <1>3 DEF Crash, Served, database, reads, DeliveryInv, TypeOK
  <2>2. up' \subseteq Replicas /\ listening' \subseteq up' /\ queue' \in [Replicas -> Nat]
    BY <1>3 DEF Crash, DeliveryInv, TypeOK
  <2>3. \A c \in alive \ Served(r) : queue'[on[c]] = queue[on[c]]
    BY <1>3 DEF Crash, Served, DeliveryInv, TypeOK
  <2> QED
    BY <2>1, <2>2, <2>3, SeverInv
<1> QED
  BY <1>1, <1>2, <1>3, PublishInv, OutageInv DEF ReplicaNext

-----------------------------------------------------------------------------
(* The stream's handler.                                                   *)

LEMMA SubscribeInv ==
  ASSUME DeliveryInv, NEW c \in Clients, NEW r \in Replicas, Subscribe(c, r)
  PROVE  DeliveryInv'
<1>0. UNCHANGED <<committed, up, listening, queue, buffer, wire, run, snapshot, queued, error, seen>>
  BY DEF Subscribe, database, replicas, reads
<1>1. TypeOK'
  BY <1>0 DEF DeliveryInv, TypeOK, Subscribe, At
<1>2. phase'[c] = "subscribed"
  BY DEF DeliveryInv, TypeOK, Subscribe, At
<1>3. ASSUME NEW d \in alive', d # c
      PROVE  d \in alive /\ (Coming(d) => Coming(d)') /\ (d \in missed => d \in missed')
  BY <1>0, <1>3 DEF DeliveryInv, TypeOK, Subscribe, At, Coming
<1> QED
  BY <1>0, <1>1, <1>2, <1>3 DEF DeliveryInv, ReadsInOrder, WakeUpComing, Coming

LEMMA WriteInv ==
  ASSUME DeliveryInv, NEW c \in Clients, Write(c)
  PROVE  DeliveryInv'
<1>0. UNCHANGED <<committed, up, listening, queue, on, alive, phase, run, snapshot, queued, error,
                  seen, missed>>
  BY DEF Write, database, replicas, reads
<1>1. TypeOK'
  BY <1>0 DEF DeliveryInv, TypeOK, Write
<1>2. wire'[c] > 0
  BY DEF DeliveryInv, TypeOK, Write
<1>3. ASSUME NEW d \in alive, d # c, Coming(d)
      PROVE  Coming(d)'
  BY <1>0, <1>3 DEF DeliveryInv, TypeOK, Write, Coming
<1> QED
  BY <1>0, <1>1, <1>2, <1>3 DEF DeliveryInv, ReadsInOrder, WakeUpComing, Coming

LEMMA DeadlineInv ==
  ASSUME DeliveryInv, NEW c \in Clients, Deadline(c)
  PROVE  DeliveryInv'
<1>0. UNCHANGED <<committed, up, listening, queue, on, wire, phase, run, snapshot, queued, error,
                  seen, missed>>
  BY DEF Deadline, database, replicas, reads
<1>1. TypeOK'
  BY <1>0 DEF DeliveryInv, TypeOK, Deadline
<1>2. ASSUME NEW d \in alive'
      PROVE  d \in alive /\ (Coming(d) => Coming(d)')
  BY <1>0 DEF DeliveryInv, TypeOK, Deadline, Coming
<1> QED
  BY <1>0, <1>1, <1>2 DEF DeliveryInv, ReadsInOrder, WakeUpComing

LEMMA BreakInv ==
  ASSUME DeliveryInv, NEW c \in Clients, Break(c)
  PROVE  DeliveryInv'
<1>1. Sever({c}) /\ UNCHANGED <<committed, up, listening, queue, run, snapshot, queued, error, seen,
                                missed>>
  BY DEF Break, database, replicas, reads
<1>2. up' \subseteq Replicas /\ listening' \subseteq up' /\ queue' \in [Replicas -> Nat]
  BY <1>1 DEF DeliveryInv, TypeOK
<1> QED
  BY <1>1, <1>2, SeverInv

-----------------------------------------------------------------------------
(* The client.                                                             *)

\* Whatever asks for a reconciliation is answered by a read that is still to be
\* served, or by a queued reason.
LEMMA ReconcileInv ==
  ASSUME DeliveryInv, NEW c \in Clients, Reconcile(c),
         UNCHANGED <<committed, up, listening, queue, on, alive, buffer, missed>>,
         phase' \in [Clients -> {"closed", "asked", "subscribed", "connected", "reading"}],
         wire' \in [Clients -> Nat],
         \A d \in Clients \ {c} : phase'[d] = phase[d] /\ wire'[d] = wire[d]
  PROVE  DeliveryInv'
<1>1. TypeOK'
  BY DEF DeliveryInv, TypeOK, Reconcile
<1>2. run'[c] = "sent" \/ c \in queued'
  BY DEF DeliveryInv, TypeOK, Reconcile
<1>3. \A d \in Clients \ {c} : run'[d] = run[d] /\ (d \in queued <=> d \in queued')
                               /\ (d \in error <=> d \in error')
  BY DEF DeliveryInv, TypeOK, Reconcile
<1>4. seen' = seen /\ snapshot' = snapshot
  BY DEF Reconcile
<1>5. ReadsInOrder'
  BY <1>3, <1>4 DEF DeliveryInv, TypeOK, ReadsInOrder, Reconcile
<1>6. ASSUME NEW d \in alive
      PROVE  d \in Clients
  BY DEF DeliveryInv, TypeOK
<1>7. ASSUME NEW d \in alive, seen[d] < committed
      PROVE  Coming(d)' \/ d \in missed \/ d \in error'
  <2>1. CASE d = c
    BY <1>2, <2>1 DEF Coming
  <2>2. CASE d # c
    BY <1>3, <1>4, <1>6, <1>7, <2>2 DEF Coming, DeliveryInv, WakeUpComing
  <2> QED
    BY <2>1, <2>2
<1> QED
  BY <1>1, <1>4, <1>5, <1>7 DEF DeliveryInv, WakeUpComing

\* The end of a round takes up the queued reason, or shows its failure.
LEMMA NextRoundInv ==
  ASSUME DeliveryInv, NEW c \in Clients, NEW failed \in BOOLEAN, NextRound(c, failed),
         failed => run[c] \in {"sent", "served"}, ~failed => run[c] = "applied",
         UNCHANGED <<committed, up, listening, queue, on, alive, buffer, wire, snapshot, seen, missed>>
  PROVE  DeliveryInv'
<1>1. TypeOK'
  BY DEF DeliveryInv, TypeOK, NextRound
<1>2. \/ run'[c] = "sent"
      \/ run'[c] = "idle" /\ failed /\ c \in error'
      \/ run'[c] = "idle" /\ ~failed /\ c \notin queued /\ (c \in error => c \in error')
  BY DEF DeliveryInv, TypeOK, NextRound
<1>3. \A d \in Clients \ {c} : run'[d] = run[d] /\ (d \in queued <=> d \in queued')
                               /\ (d \in error <=> d \in error') /\ phase'[d] = phase[d]
  BY DEF DeliveryInv, TypeOK, NextRound
<1>4. phase[c] = "subscribed" => phase'[c] = "subscribed"
  BY DEF DeliveryInv, TypeOK, NextRound
<1>5. ReadsInOrder'
  BY <1>2, <1>3 DEF DeliveryInv, TypeOK, ReadsInOrder
<1>6. ASSUME NEW d \in alive, seen[d] < committed
      PROVE  Coming(d)' \/ d \in missed \/ d \in error'
  <2>0. d \in Clients /\ (Coming(d) \/ d \in missed \/ d \in error)
    BY <1>6 DEF DeliveryInv, TypeOK, WakeUpComing
  <2>1. CASE d = c
    BY <1>2, <1>4, <2>0, <2>1 DEF Coming
  <2>2. CASE d # c
    BY <1>3, <2>0, <2>2 DEF Coming
  <2> QED
    BY <2>1, <2>2
<1> QED
  BY <1>1, <1>5, <1>6 DEF DeliveryInv, WakeUpComing

LEMMA ServeInv ==
  ASSUME DeliveryInv, NEW c \in Clients, Serve(c)
  PROVE  DeliveryInv'
<1>0. UNCHANGED <<committed, up, listening, queue, on, alive, buffer, wire, phase, queued, error, seen>>
  BY DEF Serve, database, replicas, streams
<1>1. TypeOK'
  BY <1>0 DEF DeliveryInv, TypeOK, Serve
<1>2. run'[c] = "served" /\ snapshot'[c] = committed
  BY DEF DeliveryInv, TypeOK, Serve
<1>3. \A d \in Clients \ {c} : run'[d] = run[d] /\ snapshot'[d] = snapshot[d]
                               /\ (d \in missed => d \in missed')
  BY DEF DeliveryInv, TypeOK, Serve
<1>4. ReadsInOrder'
  BY <1>0, <1>2, <1>3 DEF DeliveryInv, TypeOK, ReadsInOrder
<1>5. ASSUME NEW d \in alive, seen[d] < committed
      PROVE  Coming(d)' \/ d \in missed' \/ d \in error'
  <2>0. d \in Clients /\ (Coming(d) \/ d \in missed \/ d \in error)
    BY <1>5 DEF DeliveryInv, TypeOK, WakeUpComing
  <2>1. CASE d = c
    BY <1>0, <1>2, <2>1 DEF Coming
  <2>2. CASE d # c
    BY <1>0, <1>3, <2>0, <2>2 DEF Coming
  <2> QED
    BY <2>1, <2>2
<1> QED
  BY <1>0, <1>1, <1>4, <1>5 DEF DeliveryInv, WakeUpComing

LEMMA ApplyInv ==
  ASSUME DeliveryInv, NEW c \in Clients, Apply(c)
  PROVE  DeliveryInv'
<1>0. UNCHANGED <<committed, up, listening, queue, on, alive, buffer, wire, phase, snapshot, queued,
                  error, missed>>
  BY DEF Apply, database, replicas, streams
<1>1. TypeOK'
  BY <1>0 DEF DeliveryInv, TypeOK, Apply
<1>2. run[c] = "served" /\ run'[c] = "applied" /\ seen'[c] = snapshot[c]
  BY DEF DeliveryInv, TypeOK, Apply
<1>3. \A d \in Clients \ {c} : run'[d] = run[d] /\ seen'[d] = seen[d]
  BY DEF DeliveryInv, TypeOK, Apply
<1>4. ReadsInOrder'
  BY <1>0, <1>2, <1>3 DEF DeliveryInv, TypeOK, ReadsInOrder
<1>5. ASSUME NEW d \in alive, seen'[d] < committed
      PROVE  Coming(d)' \/ d \in missed \/ d \in error
  <2>0. d \in Clients
    BY DEF DeliveryInv, TypeOK
  <2>1. CASE d = c
    <3>1. snapshot[c] < committed /\ seen[c] <= snapshot[c]
      BY <1>2, <1>5, <2>1 DEF DeliveryInv, ReadsInOrder
    <3>2. seen[c] < committed /\ snapshot[c] # committed
      BY <3>1 DEF DeliveryInv, TypeOK
    <3>3. Coming(c) \/ c \in missed \/ c \in error
      BY <2>1, <3>2 DEF DeliveryInv, WakeUpComing
    <3> QED
      BY <1>0, <1>2, <2>1, <3>2, <3>3 DEF Coming
  <2>2. CASE d # c
    BY <1>0, <1>3, <1>5, <2>0, <2>2 DEF Coming, DeliveryInv, WakeUpComing
  <2> QED
    BY <2>1, <2>2
<1> QED
  BY <1>0, <1>1, <1>4, <1>5 DEF DeliveryInv, WakeUpComing

LEMMA ReadInv ==
  ASSUME DeliveryInv, NEW c \in Clients, ReadNext(c)
  PROVE  DeliveryInv'
<1>1. CASE ReadFails(c)
  BY <1>1, NextRoundInv DEF ReadFails, database, replicas, streams
<1>2. CASE AccountsLoaded(c)
  BY <1>2, NextRoundInv DEF AccountsLoaded, database, replicas, streams
<1>3. CASE Look(c)
  BY <1>3, ReconcileInv DEF Look, database, replicas, streams, DeliveryInv, TypeOK
<1> QED
  BY <1>1, <1>2, <1>3, ServeInv, ApplyInv DEF ReadNext

\* Moves of a client that is not subscribed, or whose stream is over.
LEMMA MoveInv ==
  ASSUME DeliveryInv, NEW c \in Clients, NEW from \in {"closed", "asked", "reading"},
         NEW to \in {"closed", "asked"}, At(c, from, to),
         UNCHANGED <<database, replicas, streams, reads, missed>>
  PROVE  DeliveryInv'
<1>1. TypeOK'
  BY DEF DeliveryInv, TypeOK, At, database, replicas, streams, reads
<1>2. \A d \in Clients : phase[d] = "subscribed" => phase'[d] = "subscribed"
  BY DEF DeliveryInv, TypeOK, At
<1>3. ASSUME NEW d \in alive, Coming(d)
      PROVE  Coming(d)'
  BY <1>2, <1>3 DEF Coming, DeliveryInv, TypeOK, database, replicas, streams, reads
<1> QED
  BY <1>1, <1>3 DEF DeliveryInv, ReadsInOrder, WakeUpComing, database, replicas, streams, reads

LEMMA StreamInv ==
  ASSUME DeliveryInv, NEW c \in Clients, StreamNext(c)
  PROVE  DeliveryInv'
<1>1. CASE Ask(c) \/ AskFails(c) \/ Ended(c)
  BY <1>1, MoveInv DEF Ask, AskFails, Ended
<1>2. CASE Connected(c)
  <2>1. phase' \in [Clients -> {"closed", "asked", "subscribed", "connected", "reading"}]
        /\ \A d \in Clients \ {c} : phase'[d] = phase[d]
    BY <1>2 DEF Connected, At, DeliveryInv, TypeOK
  <2> QED
    BY <1>2, <2>1, ReconcileInv DEF Connected, database, replicas, streams, DeliveryInv, TypeOK
<1>3. CASE ReadFrame(c)
  <2>1. wire' \in [Clients -> Nat] /\ \A d \in Clients \ {c} : wire'[d] = wire[d]
    BY <1>3 DEF ReadFrame, DeliveryInv, TypeOK
  <2> QED
    BY <1>3, <2>1, ReconcileInv DEF ReadFrame, database, replicas, DeliveryInv, TypeOK
<1> QED
  BY <1>1, <1>2, <1>3, SubscribeInv, WriteInv, DeadlineInv, BreakInv DEF StreamNext

LEMMA NextInv ==
  ASSUME DeliveryInv, [Next]_vars
  PROVE  DeliveryInv'
<1>1. CASE UNCHANGED vars
  BY <1>1 DEF DeliveryInv, TypeOK, ReadsInOrder, WakeUpComing, Coming,
              vars, database, replicas, streams, reads
<1> QED
  BY <1>1, CommitInv, ReplicaInv, StreamInv, ReadInv DEF Next

LEMMA DeliveryInvariant == Spec => []DeliveryInv
<1>1. Init => DeliveryInv
  BY InitInv
<1>2. DeliveryInv /\ [Next]_vars => DeliveryInv'
  BY NextInv
<1> QED
  BY <1>1, <1>2, PTL DEF Spec

\* A subscriber's channel never holds more than its capacity.
THEOREM ChannelsBounded == Spec => []TypeOK
<1>1. DeliveryInv => TypeOK
  BY DEF DeliveryInv
<1> QED
  BY <1>1, DeliveryInvariant, PTL

\* No wake-up that matters is lost between the commit and the client, save for
\* an outage of LISTEN or a read whose failure the client shows.
THEOREM NoWakeUpLost == Spec => []WakeUpComing
<1>1. DeliveryInv => WakeUpComing
  BY DEF DeliveryInv
<1> QED
  BY <1>1, DeliveryInvariant, PTL

\* Replies are applied in the order of their reads.
THEOREM ShownGrows == Spec => [][\A c \in Clients : seen'[c] >= seen[c]]_vars
<1>1. ASSUME DeliveryInv, [Next]_vars
      PROVE  [\A c \in Clients : seen'[c] >= seen[c]]_vars
  <2>1. seen' = seen \/ \E d \in Clients : Apply(d)
    <3>1. ASSUME NEW d \in Clients, ReadNext(d)
          PROVE  seen' = seen \/ Apply(d)
      BY <3>1 DEF ReadNext, Serve, ReadFails, AccountsLoaded, Look, Reconcile
    <3>2. ASSUME NEW d \in Clients, StreamNext(d)
          PROVE  seen' = seen
      BY <3>2 DEF StreamNext, Subscribe, Write, Deadline, Break, Ask, AskFails, Connected, ReadFrame,
                  Ended, Reconcile, reads
    <3>3. ASSUME NEW r \in Replicas, ReplicaNext(r)
          PROVE  seen' = seen
      BY <3>3 DEF ReplicaNext, Publish, Outage, Relisten, Crash, Boot, reads
    <3> QED
      BY <1>1, <3>1, <3>2, <3>3 DEF Next, Commit, vars, reads
  <2>2. CASE seen' = seen
    BY <1>1, <2>2 DEF DeliveryInv, TypeOK
  <2>3. ASSUME NEW d \in Clients, Apply(d)
        PROVE  \A c \in Clients : seen'[c] >= seen[c]
    BY <1>1, <2>3 DEF Apply, DeliveryInv, TypeOK, ReadsInOrder
  <2> QED
    BY <2>1, <2>2, <2>3
<1> QED
  BY <1>1, DeliveryInvariant, PTL DEF Spec
=============================================================================
