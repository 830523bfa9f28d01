-------------------------- MODULE EventDeliveryProofs --------------------------
(***************************************************************************)
(* Proofs about EventDelivery, for every number of workers, entries,       *)
(* attempts, crashes and lost SETs.                                        *)
(***************************************************************************)
EXTENDS EventDelivery, TLAPS

USE GroupAssumption, DeliveryAssumption

\* Every entry that is pending, in a worker's hand or still to be served by one is an
\* entry the group has read.
Placed ==
    /\ \A e \in Pending : e <= lastDelivered
    /\ \A w \in Workers :
         /\ job[w] # NoJob => job[w].entry <= lastDelivered
         /\ \A d \in todo[w] : d.entry <= lastDelivered

Shape == TypeOK /\ Placed

-------------------------------------------------------------------------------
(* Types.                                                                  *)

\* Publishing never moves an entry: what a worker read stays where it was.
LEMMA StreamStable ==
    ASSUME TypeOK, [Next]_vars
    PROVE  /\ Len(stream) <= Len(stream')
           /\ \A e \in 1..Len(stream) : stream'[e] = stream[e]
<1>1. CASE \E ev \in Events : Publish(ev)
  BY <1>1 DEF Publish, XAdd, TypeOK
<1>2. CASE UNCHANGED stream
  BY <1>2 DEF TypeOK
<1>3. CASE ~ \E ev \in Events : Publish(ev)
  <2>1. UNCHANGED stream
    BY <1>3 DEF Next, vars, Consume, Handle, TimePasses, GrowIdle, ReadNew, XReadGroup,
       ReadBlocksOut, ListPending, LoopDone, ServeBatch, ClaimNext, XClaim, ClaimLost, Ack,
       XAck, LookUp, Enter, HandlerSucceeds, HandlerFails, Commit, CommitFails, Requeue,
       GiveUp, PublishDeadLetter, Seal, Crash, Restart, groupVars
  <2>2. QED BY <2>1, <1>2
<1>4. QED BY <1>1, <1>3

\* The event in hand is an event, at a place of the stream the group has read.
LEMMA EventInHand ==
    ASSUME Shape, NEW w \in Workers, pc[w] \in HasJob
    PROVE  /\ job[w] \in Delivery
           /\ job[w].entry \in 1..lastDelivered
           /\ job[w].entry \in 1..Len(stream)
           /\ EventOf(w) \in Events
<1>1. job[w] \in Delivery /\ job[w] # NoJob
  BY DEF Shape, TypeOK
<1>2. job[w].entry \in Entries /\ job[w].entry <= lastDelivered
  BY <1>1 DEF Shape, Placed, Delivery
<1>3. QED
  BY <1>1, <1>2 DEF Shape, TypeOK, EventOf, Entries

\* The state the loop keeps for itself: each part of Shape, action by action.
LEMMA ShapeInit == Init => Shape
BY DEF Init, GroupInit, Shape, TypeOK, Placed, Pending, KeyState, Step, HasJob, Handling,
       NoJob, Entries

\* Publishing an entry leaves the bookkeeping of the workers as it is.
LEMMA ShapePublish == ASSUME Shape, NEW ev \in Events, Publish(ev) PROVE Shape'
BY DEF Publish, XAdd, Shape, TypeOK, Placed, Pending, subscriberVars, workerVars, boundVars

\* Time makes pending entries idle and nothing else.
LEMMA ShapeTime == ASSUME Shape, NEW e \in Entries, TimePasses(e) PROVE Shape'
BY DEF TimePasses, GrowIdle, Shape, TypeOK, Placed, Pending, subscriberVars, workerVars,
       boundVars

\* What XREADGROUP reads lies between the last entry delivered and the end of the stream.
LEMMA UnreadRange ==
    ASSUME TypeOK
    PROVE  /\ ReadTo \in Nat /\ ReadTo <= Len(stream)
           /\ lastDelivered <= ReadTo
           /\ \A e \in Unread : e \in Entries /\ lastDelivered < e /\ e <= ReadTo
<1>1. lastDelivered \in Nat /\ Len(stream) \in Nat /\ lastDelivered <= Len(stream)
  BY DEF TypeOK
<1>2. Len(stream) <= MaxEntries
  BY DEF TypeOK
<1>3. ReadTo \in Nat /\ ReadTo <= Len(stream) /\ lastDelivered <= ReadTo
  BY <1>1 DEF ReadTo
<1>4. QED
  BY <1>1, <1>2, <1>3 DEF Unread, Entries

\* Taking a delivery in hand keeps the bookkeeping of the workers, whatever the group does.
LEMMA ShapeDispatch ==
    ASSUME Shape, NEW w \in Workers, NEW d \in todo[w], pc[w] = "next", Dispatch(w, d),
           UNCHANGED lastDelivered
    PROVE  /\ pc' \in [Workers -> Step]
           /\ loop' \in [Workers -> {"new", "pending"}]
           /\ todo' \in [Workers -> SUBSET Delivery]
           /\ job' \in [Workers -> Delivery \cup {NoJob}]
           /\ \A v \in Workers : pc'[v] \in HasJob <=> job'[v] # NoJob
           /\ \A v \in Workers :
                /\ job'[v] # NoJob => job'[v].entry <= lastDelivered
                /\ \A other \in todo'[v] : other.entry <= lastDelivered
<1>1. d \in Delivery /\ d.entry <= lastDelivered /\ d # NoJob
  BY DEF Shape, TypeOK, Placed, Delivery, NoJob, Entries
<1>2. /\ pc' \in [Workers -> Step] /\ todo' \in [Workers -> SUBSET Delivery]
      /\ loop' \in [Workers -> {"new", "pending"}]
      /\ job' \in [Workers -> Delivery \cup {NoJob}]
  BY <1>1 DEF Dispatch, Goto, Shape, TypeOK, Step, HasJob
<1>3. \A v \in Workers : pc'[v] \in HasJob <=> job'[v] # NoJob
  <2> TAKE v \in Workers
  <2>1. CASE v = w
    BY <1>1, <2>1 DEF Dispatch, Goto, Shape, TypeOK, HasJob
  <2>2. CASE v # w
    BY <2>2 DEF Dispatch, Goto, Shape, TypeOK
  <2>3. QED BY <2>1, <2>2
<1>4. \A v \in Workers : /\ job'[v] # NoJob => job'[v].entry <= lastDelivered
                         /\ \A other \in todo'[v] : other.entry <= lastDelivered
  BY <1>1 DEF Dispatch, Shape, TypeOK, Placed
<1>5. QED BY <1>2, <1>3, <1>4

\* A batch read with XREADGROUP enters the pending list and the worker's loop together.
LEMMA ShapeReadNew == ASSUME Shape, NEW w \in Workers, ReadNew(w) PROVE Shape'
<1>1. /\ lastDelivered' \in 0..Len(stream) /\ lastDelivered <= lastDelivered'
      /\ \A e \in Unread : e \in Entries /\ e <= lastDelivered'
      /\ lastDelivered \in Nat /\ lastDelivered' \in Nat
  BY UnreadRange DEF ReadNew, XReadGroup, Shape, TypeOK
<1>2. /\ deliveries' = [e \in Entries |-> IF e \in Unread THEN 1 ELSE deliveries[e]]
      /\ idle' = idle
  BY DEF ReadNew, XReadGroup
<1>3. deliveries' \in [Entries -> Nat] /\ idle' \in SUBSET Pending'
  BY <1>2 DEF Shape, TypeOK, Pending
<1>4. \A e \in Pending' : e <= lastDelivered'
  <2> TAKE e \in Pending'
  <2>1. e \in Nat
    BY DEF Pending, Entries
  <2>2. e \in Unread \/ e \in Pending
    BY <1>2 DEF Pending
  <2>3. QED
    BY <1>1, <2>1, <2>2 DEF Shape, Placed
<1>5. todo' \in [Workers -> SUBSET Delivery]
  BY <1>1 DEF ReadNew, Delivery, Shape, TypeOK
<1>6. job' = job /\ \A v \in Workers : job[v] # NoJob => job[v].entry \in Nat
  BY DEF ReadNew, Shape, TypeOK, Delivery, Entries
<1>7. \A v \in Workers : job'[v] # NoJob => job'[v].entry <= lastDelivered'
  <2> SUFFICES ASSUME NEW v \in Workers, job[v] # NoJob
               PROVE  job[v].entry <= lastDelivered'
    BY <1>6
  <2>1. job[v].entry \in Nat /\ job[v].entry <= lastDelivered
    BY <1>6 DEF Shape, Placed
  <2>2. QED BY <1>1, <2>1
<1>8. \A v \in Workers : \A d \in todo'[v] : d.entry <= lastDelivered'
  <2> TAKE v \in Workers
  <2> TAKE d \in todo'[v]
  <2>1. d.entry \in Nat
    BY <1>5 DEF Delivery, Entries
  <2>2. CASE v = w
    <3>1. todo'[v] = {[entry |-> e, attempt |-> 1] : e \in Unread}
      BY <2>2 DEF ReadNew, Shape, TypeOK
    <3>2. QED BY <1>1, <3>1
  <2>3. CASE v # w
    <3>1. d \in todo[v]
      BY <2>3 DEF ReadNew, Shape, TypeOK
    <3>2. d.entry <= lastDelivered
      BY <3>1 DEF Shape, Placed
    <3>3. QED BY <1>1, <2>1, <3>2
  <2>4. QED BY <2>2, <2>3
<1>9. Placed'
  BY <1>4, <1>7, <1>8 DEF Placed
<1>10. /\ pc' \in [Workers -> Step] /\ loop' \in [Workers -> {"new", "pending"}]
       /\ \A v \in Workers : pc'[v] \in HasJob <=> job'[v] # NoJob
  BY DEF ReadNew, Goto, Shape, TypeOK, Step, HasJob, Handling
<1>11. TypeOK'
  BY <1>1, <1>3, <1>5, <1>6, <1>10
     DEF ReadNew, XReadGroup, Shape, TypeOK, subscriberVars, boundVars
<1>12. QED
  BY <1>9, <1>11 DEF Shape

\* A page of XPENDING is a set of deliveries of entries the group has read.
LEMMA ShapeListPending == ASSUME Shape, NEW w \in Workers, ListPending(w) PROVE Shape'
<1>1. \A e \in PendingPage : e \in Entries /\ deliveries[e] \in Nat \ {0} /\ e <= lastDelivered
  BY DEF PendingPage, Pending, Shape, TypeOK, Placed
<1>2. /\ todo' = [todo EXCEPT ![w] =
                    {[entry |-> e, attempt |-> deliveries[e]] : e \in PendingPage \cap idle}]
      /\ UNCHANGED <<stream, lastDelivered, deliveries, idle, key, dlq, job, crashes, faults,
                     completions, gaveUp, interrupted>>
  BY DEF ListPending, groupVars, subscriberVars, boundVars
<1>3. todo' \in [Workers -> SUBSET Delivery]
  BY <1>1, <1>2 DEF Delivery, Shape, TypeOK
<1>4. \A v \in Workers : \A d \in todo'[v] : d.entry <= lastDelivered
  BY <1>1, <1>2 DEF Shape, TypeOK, Placed
<1>5. Placed'
  BY <1>2, <1>4 DEF Shape, Placed, Pending
<1>6. /\ pc' \in [Workers -> Step] /\ loop' \in [Workers -> {"new", "pending"}]
      /\ \A v \in Workers : pc'[v] \in HasJob <=> job'[v] # NoJob
  BY DEF ListPending, Goto, Shape, TypeOK, Step, HasJob, Handling
<1>7. TypeOK'
  BY <1>2, <1>3, <1>6 DEF Shape, TypeOK, Pending
<1>8. QED
  BY <1>5, <1>7 DEF Shape

\* Serving a fresh batch takes a delivery that XREADGROUP returned.
LEMMA ShapeServeBatch == ASSUME Shape, NEW w \in Workers, ServeBatch(w) PROVE Shape'
<1>1. PICK d \in todo[w] : Dispatch(w, d) /\ pc[w] = "next" /\ UNCHANGED groupVars
  BY DEF ServeBatch
<1>2. UNCHANGED <<stream, lastDelivered, deliveries, idle, key, dlq, crashes, faults,
                  completions, gaveUp, interrupted>>
  BY <1>1 DEF Dispatch, groupVars, subscriberVars, boundVars
<1>3. /\ pc' \in [Workers -> Step]
      /\ loop' \in [Workers -> {"new", "pending"}]
      /\ todo' \in [Workers -> SUBSET Delivery]
      /\ job' \in [Workers -> Delivery \cup {NoJob}]
      /\ \A v \in Workers : pc'[v] \in HasJob <=> job'[v] # NoJob
  BY <1>1, <1>2, ShapeDispatch
<1>4. Placed'
  BY <1>1, <1>2, ShapeDispatch DEF Shape, Placed, Pending
<1>5. TypeOK'
  BY <1>2, <1>3 DEF Shape, TypeOK, Pending
<1>6. QED
  BY <1>4, <1>5 DEF Shape

\* Claiming takes an idle, hence pending, entry of the page.
LEMMA ShapeClaimNext == ASSUME Shape, NEW w \in Workers, ClaimNext(w) PROVE Shape'
<1>1. PICK d \in todo[w] : Dispatch(w, d) /\ pc[w] = "next" /\ XClaim(d.entry)
  BY DEF ClaimNext
<1>2. UNCHANGED <<stream, lastDelivered, key, dlq, crashes, faults, completions, gaveUp,
                  interrupted>>
  BY <1>1 DEF Dispatch, XClaim, subscriberVars, boundVars
<1>3. Pending' = Pending /\ deliveries' \in [Entries -> Nat] /\ idle' \in SUBSET Pending'
  BY <1>1 DEF XClaim, Shape, TypeOK, Pending
<1>4. /\ pc' \in [Workers -> Step]
      /\ loop' \in [Workers -> {"new", "pending"}]
      /\ todo' \in [Workers -> SUBSET Delivery]
      /\ job' \in [Workers -> Delivery \cup {NoJob}]
      /\ \A v \in Workers : pc'[v] \in HasJob <=> job'[v] # NoJob
  BY <1>1, <1>2, ShapeDispatch
<1>5. Placed'
  BY <1>1, <1>2, <1>3, ShapeDispatch DEF Shape, Placed
<1>6. TypeOK'
  BY <1>2, <1>3, <1>4 DEF Shape, TypeOK
<1>7. QED
  BY <1>5, <1>6 DEF Shape

\* Every step of the consume loop keeps Shape.
LEMMA ShapeConsume == ASSUME Shape, NEW w \in Workers, Consume(w) PROVE Shape'
<1> USE DEF Shape, TypeOK, Placed, Pending, Step, HasJob, Handling, Goto, subscriberVars,
        boundVars, groupVars
<1>1. CASE ReadBlocksOut(w)
  BY <1>1 DEF ReadBlocksOut
<1>2. CASE LoopDone(w)
  BY <1>2 DEF LoopDone
<1>3. CASE ClaimLost(w)
  BY <1>3 DEF ClaimLost, IsNext
<1>4. CASE Ack(w)
  BY <1>4 DEF Ack, XAck, NoJob
<1>5. QED
  BY <1>1, <1>2, <1>3, <1>4, ShapeReadNew, ShapeListPending, ShapeServeBatch,
     ShapeClaimNext DEF Consume

\* Every await of EventSubscriber.handle keeps Shape.
LEMMA ShapeHandle == ASSUME Shape, NEW w \in Workers, Handle(w) PROVE Shape'
<1> USE DEF Shape, TypeOK, Placed, Pending, Step, HasJob, Handling, NoJob, KeyState,
        Goto, SetKey, Caught, subscriberVars, boundVars, groupVars
<1>0. pc[w] \in HasJob => EventOf(w) \in Events
  BY EventInHand
<1>1. CASE LookUp(w)
  BY <1>1 DEF LookUp
<1>2. CASE Enter(w)
  BY <1>2 DEF Enter
<1>3. CASE HandlerSucceeds(w)
  <2>1. completions' \in [Events -> Nat]
    BY <1>0, <1>3 DEF HandlerSucceeds
  <2>2. pc' = [pc EXCEPT ![w] = "commit"] /\ pc[w] \in HasJob
    BY <1>3 DEF HandlerSucceeds
  <2>3. QED
    BY <1>3, <2>1, <2>2 DEF HandlerSucceeds
<1>4. CASE HandlerFails(w)
  <2>1. pc' = [pc EXCEPT ![w] = "requeue"] \/ pc' = [pc EXCEPT ![w] = "giveUp"]
    BY <1>4 DEF HandlerFails
  <2>2. QED
    BY <1>4, <2>1 DEF HandlerFails
<1>5. CASE Commit(w)
  BY <1>5 DEF Commit
<1>6. CASE CommitFails(w)
  <2>1. key' \in [Events -> KeyState]
    BY <1>6 DEF CommitFails
  <2>2. faults' \in 0..MaxStoreFaults
    BY <1>6 DEF CommitFails
  <2>3. pc' \in [Workers -> Step] /\ \A v \in Workers : pc'[v] \in HasJob <=> job[v] # NoJob
    BY <1>6 DEF CommitFails
  <2>4. QED
    BY <1>6, <2>1, <2>2, <2>3 DEF CommitFails
<1>7. CASE Requeue(w)
  BY <1>7 DEF Requeue
<1>8. CASE GiveUp(w)
  BY <1>0, <1>8 DEF GiveUp
<1>9. CASE PublishDeadLetter(w)
  BY <1>0, <1>9 DEF PublishDeadLetter
<1>10. CASE Seal(w)
  BY <1>10 DEF Seal
<1>11. QED
  BY <1>1, <1>2, <1>3, <1>4, <1>5, <1>6, <1>7, <1>8, <1>9, <1>10 DEF Handle

\* A crash forgets what the process held in memory; a restart starts from reading.
LEMMA ShapeProcess == ASSUME Shape, NEW w \in Workers, Crash(w) \/ Restart(w) PROVE Shape'
<1> USE DEF Shape, TypeOK, Placed, Pending, Step, HasJob, Handling, NoJob, Goto,
        subscriberVars, boundVars, groupVars
<1>0. pc[w] \in HasJob => EventOf(w) \in Events
  BY EventInHand
<1>1. CASE Crash(w)
  BY <1>0, <1>1 DEF Crash
<1>2. CASE Restart(w)
  BY <1>2 DEF Restart
<1>3. QED BY <1>1, <1>2

\* Shape is inductive.
LEMMA ShapeStep == Shape /\ [Next]_vars => Shape'
<1> SUFFICES ASSUME Shape, [Next]_vars PROVE Shape'
  OBVIOUS
<1>1. CASE UNCHANGED vars
  BY <1>1 DEF vars, Shape, TypeOK, Placed, Pending
<1>2. CASE Next
  BY <1>2, ShapePublish, ShapeTime, ShapeConsume, ShapeHandle, ShapeProcess DEF Next
<1>3. QED BY <1>1, <1>2

\* Shape holds in every reachable state.
LEMMA ShapeAlways == Spec => []Shape
BY ShapeInit, ShapeStep, PTL DEF Spec

\* In every reachable state of every instance the variables keep their types and the
\* worker's bookkeeping its shape (TypeOK).
THEOREM TypeCorrect == Spec => []TypeOK
<1>1. Shape => TypeOK
  BY DEF Shape
<1>2. QED BY <1>1, ShapeAlways, PTL

-------------------------------------------------------------------------------
(* Safety: what an acknowledged entry stands for.                          *)

\* What the await a worker is at says about the event it has in hand.
Hand(w) ==
    /\ pc[w] \in Handling \cup {"lookup"} => EventOf(w) \in HandledEvents
    /\ pc[w] = "commit" => EventOf(w) \in Completed
    /\ pc[w] \in {"deadLetter", "seal"} => EventOf(w) \in gaveUp
    /\ pc[w] = "ack" => (EventOf(w) \in HandledEvents => EventOf(w) \in Completed \cup gaveUp)

\* A key that settles an event is true, whoever wrote it and however often.
KeysHonest ==
    \A ev \in Events : /\ key[ev] = "processed" => ev \in Completed
                       /\ key[ev] = "failed" => ev \in gaveUp

\* An event given up is on its way to the dead letter stream, there, or was interrupted.
Accounted == \A ev \in gaveUp : ev \in dlq \cup interrupted \/ WritingDeadLetter(ev)

IInv ==
    /\ Shape
    /\ \A w \in Workers : Hand(w)
    /\ KeysHonest
    /\ Accounted
    /\ AckedMeansSettled

WorkerStep(w) == Consume(w) \/ Handle(w) \/ Crash(w) \/ Restart(w)

\* Nothing that happened is undone.
LEMMA HistoryGrows ==
    ASSUME Shape, [Next]_vars
    PROVE  /\ Completed \subseteq Completed' /\ gaveUp \subseteq gaveUp'
           /\ dlq \subseteq dlq' /\ interrupted \subseteq interrupted'
<1> USE DEF Shape, TypeOK, Completed
<1>1. CASE UNCHANGED <<completions, gaveUp, dlq, interrupted>>
  BY <1>1
<1>2. ASSUME NEW w \in Workers, HandlerSucceeds(w) PROVE Completed \subseteq Completed'
  <2>1. EventOf(w) \in Events
    BY <1>2, EventInHand DEF HandlerSucceeds, HasJob, Handling
  <2>2. QED BY <1>2, <2>1 DEF HandlerSucceeds
<1>3. ASSUME NEW w \in Workers, HandlerSucceeds(w)
      PROVE  UNCHANGED <<gaveUp, dlq, interrupted>>
  BY <1>3 DEF HandlerSucceeds
<1>4. ASSUME NEW w \in Workers, GiveUp(w) \/ PublishDeadLetter(w) \/ Crash(w)
      PROVE  /\ completions' = completions /\ gaveUp \subseteq gaveUp'
             /\ dlq \subseteq dlq' /\ interrupted \subseteq interrupted'
  BY <1>4 DEF GiveUp, PublishDeadLetter, Crash
<1>5. CASE ~ \E w \in Workers : HandlerSucceeds(w) \/ GiveUp(w) \/ PublishDeadLetter(w) \/ Crash(w)
  <2>1. UNCHANGED <<completions, gaveUp, dlq, interrupted>>
    BY <1>5 DEF Next, vars, Publish, TimePasses, Consume, Handle, ReadNew, ReadBlocksOut,
       ListPending, LoopDone, ServeBatch, ClaimNext, Dispatch, ClaimLost, Ack, LookUp, Enter,
       HandlerFails, Commit, CommitFails, Requeue, Seal, Restart, subscriberVars
  <2>2. QED BY <2>1, <1>1
<1>6. QED
  BY <1>2, <1>3, <1>4, <1>5

\* A worker's step leaves the stream and the other workers alone.
LEMMA OthersKeep ==
    ASSUME Shape, NEW w \in Workers, WorkerStep(w)
    PROVE  /\ stream' = stream
           /\ \A v \in Workers \ {w} : pc'[v] = pc[v] /\ job'[v] = job[v]
<1>1. stream' = stream
  BY DEF WorkerStep, Consume, Handle, ReadNew, XReadGroup, ReadBlocksOut, ListPending,
     LoopDone, ServeBatch, ClaimNext, XClaim, ClaimLost, Ack, XAck, LookUp, Enter,
     HandlerSucceeds, HandlerFails, Commit, CommitFails, Requeue, GiveUp,
     PublishDeadLetter, Seal, Crash, Restart, groupVars
<1>2. \A v \in Workers \ {w} : pc'[v] = pc[v]
  BY DEF WorkerStep, Consume, Handle, ReadNew, ReadBlocksOut, ListPending, LoopDone,
     ServeBatch, ClaimNext, Dispatch, ClaimLost, Ack, LookUp, Enter, HandlerSucceeds,
     HandlerFails, Caught, Commit, CommitFails, Requeue, GiveUp, PublishDeadLetter, Seal,
     Crash, Restart, Goto, Shape, TypeOK
<1>3. \A v \in Workers \ {w} : job'[v] = job[v]
  BY DEF WorkerStep, Consume, Handle, ReadNew, ReadBlocksOut, ListPending, LoopDone,
     ServeBatch, ClaimNext, Dispatch, ClaimLost, Ack, LookUp, Enter, HandlerSucceeds,
     HandlerFails, Commit, CommitFails, Requeue, GiveUp, PublishDeadLetter, Seal,
     Crash, Restart, Shape, TypeOK
<1>4. QED BY <1>1, <1>2, <1>3

\* The event in a worker's hand stays the same event when entries are published.
LEMMA EventOfStable ==
    ASSUME Shape, [Next]_vars, NEW v \in Workers, pc[v] \in HasJob, job'[v] = job[v]
    PROVE  EventOf(v)' = EventOf(v)
BY EventInHand, StreamStable DEF EventOf, Shape

\* The loop dispatches an event to the handler only if the handler subscribed to it.
LEMMA HandConsume ==
    ASSUME IInv, NEW w \in Workers, Consume(w)
    PROVE  Hand(w)'
<1> USE DEF IInv, Shape, TypeOK, Goto
<1>1. CASE pc'[w] \notin HasJob
  BY <1>1 DEF Hand, HasJob, Handling
<1>2. CASE ServeBatch(w) \/ ClaimNext(w)
  <2>1. PICK d \in todo[w] : Dispatch(w, d) /\ stream' = stream
    BY <1>2 DEF ServeBatch, ClaimNext, XClaim, groupVars
  <2>2. EventOf(w)' = stream[d.entry]
    BY <2>1 DEF Dispatch, EventOf
  <2>3. \/ stream[d.entry] \in HandledEvents /\ pc'[w] = "lookup"
        \/ stream[d.entry] \notin HandledEvents /\ pc'[w] = "ack"
    BY <2>1 DEF Dispatch
  <2>4. QED BY <2>2, <2>3 DEF Hand, Handling
<1>3. CASE ReadNew(w) \/ ReadBlocksOut(w) \/ ListPending(w) \/ LoopDone(w)
           \/ ClaimLost(w) \/ Ack(w)
  <2>1. pc'[w] \in {"next", "page", "read"}
    BY <1>3 DEF ReadNew, ReadBlocksOut, ListPending, LoopDone, ClaimLost, Ack
  <2>2. QED BY <2>1, <1>1 DEF HasJob, Handling
<1>4. QED BY <1>2, <1>3 DEF Consume

\* Each await of handle establishes what the next one relies on.
LEMMA HandHandle ==
    ASSUME IInv, NEW w \in Workers, Handle(w)
    PROVE  Hand(w)'
<1> USE DEF IInv, Shape, TypeOK, Goto, Handling, HasJob
<1>0. pc[w] \in HasJob /\ pc[w] # "ack" /\ Hand(w) /\ WorkerStep(w) /\ [Next]_vars
  BY DEF WorkerStep, Next, Handle, LookUp, Enter, HandlerSucceeds, HandlerFails, Commit,
     CommitFails, Requeue, GiveUp, PublishDeadLetter, Seal
<1>1. EventOf(w) \in Events /\ EventOf(w) \in HandledEvents
  BY <1>0, EventInHand DEF Hand
<1>2. CASE Requeue(w)
  BY <1>2 DEF Requeue, Hand
<1>3. CASE ~ Requeue(w)
  <2>1. job' = job /\ EventOf(w)' = EventOf(w)
    <3>1. job' = job
      BY <1>3 DEF Handle, LookUp, Enter, HandlerSucceeds, HandlerFails, Commit, CommitFails,
         GiveUp, PublishDeadLetter, Seal
    <3>2. QED BY <3>1, <1>0, EventOfStable
  <2>2. Completed \subseteq Completed' /\ gaveUp \subseteq gaveUp'
    BY <1>0, HistoryGrows
  <2>3. CASE LookUp(w)
    BY <2>1, <2>2, <2>3, <1>0, <1>1 DEF LookUp, Hand, KeysHonest
  <2>4. CASE Enter(w)
    BY <2>1, <2>4, <1>1 DEF Enter, Hand
  <2>5. CASE HandlerSucceeds(w)
    <3>1. EventOf(w) \in Completed'
      BY <2>5, <1>1 DEF HandlerSucceeds, Completed
    <3>2. QED BY <2>1, <2>5, <3>1, <1>1 DEF HandlerSucceeds, Hand
  <2>6. CASE HandlerFails(w) \/ CommitFails(w)
    <3>1. pc'[w] \in {"requeue", "giveUp"}
      BY <2>6 DEF HandlerFails, CommitFails, Caught
    <3>2. QED BY <2>1, <3>1, <1>1 DEF Hand
  <2>7. CASE Commit(w)
    BY <2>1, <2>2, <2>7, <1>0 DEF Commit, Hand
  <2>8. CASE GiveUp(w)
    BY <2>1, <2>8, <1>1 DEF GiveUp, Hand
  <2>9. CASE PublishDeadLetter(w)
    BY <2>1, <2>9, <1>0, <1>1 DEF PublishDeadLetter, Hand
  <2>10. CASE Seal(w)
    BY <2>1, <2>2, <2>10, <1>0 DEF Seal, Hand
  <2>11. QED
    BY <1>3, <2>3, <2>4, <2>5, <2>6, <2>7, <2>8, <2>9, <2>10 DEF Handle
<1>4. QED BY <1>2, <1>3

\* What the awaits of handle rely on survives the steps of everybody else.
LEMMA HandStep ==
    ASSUME IInv, [Next]_vars, NEW v \in Workers
    PROVE  Hand(v)'
<1> USE DEF IInv
<1>1. Completed \subseteq Completed' /\ gaveUp \subseteq gaveUp'
  BY HistoryGrows
<1>2. ASSUME pc'[v] = pc[v], job'[v] = job[v] PROVE Hand(v)'
  <2>1. CASE pc[v] \in HasJob
    <3>1. EventOf(v)' = EventOf(v)
      BY <1>2, <2>1, EventOfStable
    <3>2. QED BY <1>1, <1>2, <3>1 DEF Hand
  <2>2. CASE pc[v] \notin HasJob
    BY <1>2, <2>2 DEF Hand, HasJob, Handling
  <2>3. QED BY <2>1, <2>2
<1>3. ASSUME NEW w \in Workers, WorkerStep(w) PROVE Hand(v)'
  <2>1. CASE v # w
    BY <1>2, <1>3, <2>1, OthersKeep
  <2>2. CASE v = w /\ (Crash(w) \/ Restart(w))
    <3>1. pc'[v] \in {"down", "read"}
      BY <2>2 DEF Crash, Restart, Goto, Shape, TypeOK
    <3>2. QED BY <3>1 DEF Hand, Handling
  <2>3. CASE v = w /\ ~ (Crash(w) \/ Restart(w))
    BY <1>3, <2>3, HandConsume, HandHandle DEF WorkerStep
  <2>4. QED BY <2>1, <2>2, <2>3
<1>4. CASE UNCHANGED <<pc, job>>
  BY <1>2, <1>4
<1>5. CASE ~ \E w \in Workers : WorkerStep(w)
  <2>1. UNCHANGED <<pc, job>>
    BY <1>5 DEF Next, vars, WorkerStep, Publish, TimePasses, workerVars
  <2>2. QED BY <2>1, <1>4
<1>6. QED BY <1>3, <1>5

\* Keys are written by the worker that has the evidence for them.
LEMMA KeysStep == ASSUME IInv, [Next]_vars PROVE KeysHonest'
<1> USE DEF IInv
<1>1. Completed \subseteq Completed' /\ gaveUp \subseteq gaveUp'
  BY HistoryGrows
<1>2. CASE UNCHANGED key
  BY <1>1, <1>2 DEF KeysHonest
<1>3. ASSUME NEW w \in Workers, Enter(w) \/ Requeue(w) PROVE KeysHonest'
  BY <1>1, <1>3 DEF Enter, Requeue, SetKey, KeysHonest, Shape, TypeOK
<1>4. ASSUME NEW w \in Workers, Commit(w) \/ CommitFails(w) PROVE KeysHonest'
  <2>1. EventOf(w) \in Completed
    BY <1>4 DEF Commit, CommitFails, Hand
  <2>2. key' = key \/ key' = [key EXCEPT ![EventOf(w)] = "processed"]
    BY <1>4 DEF Commit, CommitFails, SetKey
  <2>3. QED BY <1>1, <2>1, <2>2 DEF KeysHonest, Shape, TypeOK
<1>5. ASSUME NEW w \in Workers, GiveUp(w) \/ Seal(w) PROVE KeysHonest'
  <2>1. EventOf(w) \in gaveUp'
    BY <1>1, <1>5 DEF GiveUp, Seal, Hand
  <2>2. key' = [key EXCEPT ![EventOf(w)] = "failed"]
    BY <1>5 DEF GiveUp, Seal, SetKey
  <2>3. QED BY <1>1, <2>1, <2>2 DEF KeysHonest, Shape, TypeOK
<1>6. CASE ~ \E w \in Workers : \/ Enter(w) \/ Requeue(w) \/ Commit(w) \/ CommitFails(w)
                                \/ GiveUp(w) \/ Seal(w)
  <2>1. UNCHANGED key
    BY <1>6 DEF Next, vars, Publish, TimePasses, Consume, Handle, ReadNew, ReadBlocksOut,
       ListPending, LoopDone, ServeBatch, ClaimNext, Dispatch, ClaimLost, Ack, LookUp,
       HandlerSucceeds, HandlerFails, PublishDeadLetter, Crash, Restart, subscriberVars
  <2>2. QED BY <2>1, <1>2
<1>7. QED BY <1>3, <1>4, <1>5, <1>6

\* Acknowledging is the only step that adds to Acked, one entry at a time.
LEMMA AckedStep ==
    ASSUME Shape, [Next]_vars
    PROVE  \/ Acked' = Acked
           \/ \E w \in Workers : Ack(w) /\ Acked' = Acked \cup {job[w].entry}
<1> USE DEF Shape, TypeOK
<1>1. ASSUME NEW w \in Workers, ReadNew(w) PROVE Acked' = Acked
  <2>1. /\ ReadTo \in Nat /\ lastDelivered \in Nat /\ lastDelivered <= ReadTo
        /\ lastDelivered' = ReadTo
        /\ \A e \in Unread : e \in Entries /\ lastDelivered < e /\ e <= ReadTo
    BY <1>1, UnreadRange DEF ReadNew, XReadGroup
  <2>2. \A e \in Entries : e \in Pending' <=> e \in Unread \/ e \in Pending
    BY <1>1 DEF ReadNew, XReadGroup, Pending
  <2>3. Pending' \subseteq Entries /\ Pending \subseteq Entries
    BY DEF Pending
  <2>4. Unread = (lastDelivered + 1)..ReadTo
    BY DEF Unread
  <2>5. ASSUME NEW e PROVE e \in Acked' <=> e \in Acked
    <3>1. e \in Acked' <=> e \in 1..ReadTo /\ e \notin Pending'
      BY <2>1 DEF Acked
    <3>2. e \in Acked <=> e \in 1..lastDelivered /\ e \notin Pending
      BY DEF Acked
    <3>3. e \in Unread <=> e \in 1..ReadTo /\ e \notin 1..lastDelivered
      BY <2>1, <2>4
    <3>4. e \in 1..lastDelivered => e \in 1..ReadTo
      BY <2>1
    <3>5. e \in Pending' <=> e \in Unread \/ e \in Pending
      BY <2>1, <2>2, <2>3
    <3>6. QED BY <3>1, <3>2, <3>3, <3>4, <3>5
  <2>6. QED BY <2>5
<1>2. ASSUME NEW w \in Workers, ClaimNext(w) PROVE Acked' = Acked
  <2>1. lastDelivered' = lastDelivered /\ Pending' = Pending
    BY <1>2 DEF ClaimNext, XClaim, Pending
  <2>2. QED BY <2>1 DEF Acked
<1>3. ASSUME NEW w \in Workers, Ack(w) PROVE Acked' = Acked \cup {job[w].entry}
  <2>1. job[w].entry \in 1..lastDelivered /\ job[w].entry \in Entries
    BY <1>3, EventInHand DEF Ack, HasJob, Delivery
  <2>2. lastDelivered' = lastDelivered /\ Pending' = Pending \ {job[w].entry}
    BY <1>3, <2>1 DEF Ack, XAck, Pending
  <2>3. QED BY <2>1, <2>2 DEF Acked
<1>4. CASE ~ \E w \in Workers : ReadNew(w) \/ ClaimNext(w) \/ Ack(w)
  <2>1. UNCHANGED <<lastDelivered, deliveries>>
    BY <1>4 DEF Next, vars, Publish, XAdd, TimePasses, GrowIdle, Consume, Handle,
       ReadBlocksOut, ListPending, LoopDone, ServeBatch, ClaimLost, LookUp, Enter,
       HandlerSucceeds, HandlerFails, Commit, CommitFails, Requeue, GiveUp,
       PublishDeadLetter, Seal, Crash, Restart, groupVars
  <2>2. QED BY <2>1 DEF Pending, Acked
<1>5. QED BY <1>1, <1>2, <1>3, <1>4

\* An entry is acknowledged only on evidence that its event is settled.
LEMMA AckedSettledStep == ASSUME IInv, [Next]_vars PROVE AckedMeansSettled'
<1> USE DEF IInv
<1>1. Completed \subseteq Completed' /\ gaveUp \subseteq gaveUp'
  BY HistoryGrows
<1>2. \A e \in Acked : stream'[e] = stream[e]
  BY StreamStable DEF Shape, TypeOK, Acked
<1>3. CASE Acked' = Acked
  BY <1>1, <1>2, <1>3 DEF AckedMeansSettled
<1>4. ASSUME NEW w \in Workers, Ack(w), Acked' = Acked \cup {job[w].entry}
      PROVE  AckedMeansSettled'
  <2>1. EventOf(w) \in HandledEvents => EventOf(w) \in Completed \cup gaveUp
    BY <1>4 DEF Ack, Hand
  <2>2. stream'[job[w].entry] = EventOf(w)
    BY <1>4 DEF Ack, XAck, EventOf
  <2>3. QED BY <1>1, <1>2, <1>4, <2>1, <2>2 DEF AckedMeansSettled
<1>5. QED BY <1>3, <1>4, AckedStep

\* A dead letter owed stays owed until it is written or its writer crashes.
LEMMA AccountedStep == ASSUME IInv, [Next]_vars PROVE Accounted'
<1> USE DEF IInv
<1>1. dlq \subseteq dlq' /\ interrupted \subseteq interrupted'
  BY HistoryGrows
<1> SUFFICES ASSUME NEW ev \in gaveUp', ev \notin dlq' \cup interrupted'
             PROVE  WritingDeadLetter(ev)'
  BY DEF Accounted
<1>3. ASSUME NEW v \in Workers, pc[v] = "deadLetter", EventOf(v) = ev,
             pc'[v] = pc[v], job'[v] = job[v]
      PROVE  WritingDeadLetter(ev)'
  BY <1>3, EventOfStable DEF WritingDeadLetter, HasJob, Handling
<1>4. CASE ev \in gaveUp
  <2>1. PICK v \in Workers : pc[v] = "deadLetter" /\ EventOf(v) = ev
    BY <1>1, <1>4 DEF Accounted, WritingDeadLetter
  <2>2. CASE UNCHANGED <<pc, job>>
    BY <1>3, <2>1, <2>2
  <2>3. ASSUME NEW w \in Workers, WorkerStep(w) PROVE WritingDeadLetter(ev)'
    <3>1. CASE v # w
      BY <1>3, <2>1, <2>3, <3>1, OthersKeep
    <3>2. CASE v = w
      <4>1. PublishDeadLetter(w) \/ Crash(w)
        BY <2>1, <2>3, <3>2 DEF WorkerStep, Consume, Handle, ReadNew, ReadBlocksOut,
           ListPending, LoopDone, ServeBatch, ClaimNext, ClaimLost, Ack, LookUp, Enter,
           HandlerSucceeds, HandlerFails, Commit, CommitFails, Requeue, GiveUp, Seal,
           Restart
      <4>2. ev \in dlq' \cup interrupted'
        BY <2>1, <3>2, <4>1 DEF PublishDeadLetter, Crash
      <4>3. QED BY <4>2
    <3>3. QED BY <3>1, <3>2
  <2>4. CASE ~ \E w \in Workers : WorkerStep(w)
    <3>1. UNCHANGED <<pc, job>>
      BY <2>4 DEF Next, vars, WorkerStep, Publish, TimePasses, workerVars
    <3>2. QED BY <3>1, <2>2
  <2>5. QED BY <2>3, <2>4
<1>5. CASE ev \notin gaveUp
  <2>1. PICK w \in Workers : GiveUp(w)
    BY <1>5 DEF Next, vars, Publish, TimePasses, Consume, Handle, ReadNew, ReadBlocksOut,
       ListPending, LoopDone, ServeBatch, ClaimNext, Dispatch, ClaimLost, Ack, LookUp, Enter,
       HandlerSucceeds, HandlerFails, Commit, CommitFails, Requeue, PublishDeadLetter, Seal,
       Crash, Restart, subscriberVars
  <2>2. ev = EventOf(w) /\ pc'[w] = "deadLetter" /\ UNCHANGED <<stream, job>>
    BY <1>5, <2>1 DEF GiveUp, Goto, groupVars, Shape, TypeOK
  <2>3. QED BY <2>2 DEF WritingDeadLetter, EventOf
<1>6. QED BY <1>4, <1>5

\* The inductive invariant holds at first: nothing is read and no key is set.
LEMMA IInvInit == Init => IInv
<1> SUFFICES ASSUME Init PROVE IInv
  OBVIOUS
<1>1. Shape
  BY ShapeInit
<1>2. Acked = {}
  BY DEF Init, GroupInit, Acked
<1>3. QED
  BY <1>1, <1>2 DEF Init, IInv, Hand, Handling, KeysHonest, Accounted, AckedMeansSettled

\* The inductive invariant is kept by every step.
LEMMA IInvStep == IInv /\ [Next]_vars => IInv'
<1> SUFFICES ASSUME IInv, [Next]_vars PROVE IInv'
  OBVIOUS
<1>1. Shape'
  BY ShapeStep DEF IInv
<1>2. \A w \in Workers : Hand(w)'
  BY HandStep
<1>3. QED
  BY <1>1, <1>2, KeysStep, AccountedStep, AckedSettledStep DEF IInv

\* The inductive invariant holds in every reachable state.
LEMMA IInvAlways == Spec => []IInv
BY IInvInit, IInvStep, PTL DEF Spec

\* No event is dropped in silence, however many replicas race on the idempotency key and
\* crash: an acknowledged event was completed by a handler run or given up.
THEOREM NothingDroppedSilently == Spec => []AckedMeansSettled
<1>1. IInv => AckedMeansSettled
  BY DEF IInv
<1>2. QED BY <1>1, IInvAlways, PTL

\* A dead letter is lost in one way only: the worker crashes between marking the event
\* failed and writing the dead letter.
THEOREM DeadLetterKept == Spec => []DeadLetterLostOnlyByCrash
<1>1. IInv => DeadLetterLostOnlyByCrash
  BY DEF IInv, AckedMeansSettled, Accounted, DeadLetterLostOnlyByCrash
<1>2. QED BY <1>1, IInvAlways, PTL

-------------------------------------------------------------------------------
(* Refinement: the subscriber and its loop implement AtLeastOnce.          *)

\* An event in hand has been published.
LEMMA InHandPublished ==
    ASSUME Shape, NEW w \in Workers, pc[w] \in HasJob
    PROVE  EventOf(w) \in Queue!Published
BY EventInHand DEF EventOf, Queue!Published, Shape, TypeOK

\* Each step of the code completes an event, gives one up, closes an entry, publishes
\* one, or is invisible to the abstract queue.
LEMMA QueueStep == ASSUME IInv, [Next]_vars PROVE [Queue!Next]_(Queue!vars)
<1> USE DEF IInv
<1>1. ASSUME NEW ev \in Events, Publish(ev) PROVE Queue!Next
  <2>1. Queue!Publish(ev)
    BY <1>1 DEF Publish, XAdd, Queue!Publish, subscriberVars, Completed, Acked, Pending
  <2>2. QED BY <2>1 DEF Queue!Next
<1>2. ASSUME NEW w \in Workers, HandlerSucceeds(w) PROVE Queue!Next
  <2>1. EventOf(w) \in Events /\ EventOf(w) \in HandledEvents
    BY <1>2, EventInHand DEF HandlerSucceeds, Hand, Handling, HasJob
  <2>2. EventOf(w) \in Queue!Published
    BY <1>2, InHandPublished DEF HandlerSucceeds, HasJob, Handling
  <2>3. Completed' = Completed \cup {EventOf(w)}
    BY <1>2, <2>1 DEF HandlerSucceeds, Completed, Shape, TypeOK
  <2>4. UNCHANGED stream /\ UNCHANGED gaveUp /\ Acked' = Acked
    BY <1>2 DEF HandlerSucceeds, groupVars, Acked, Pending
  <2>5. Queue!Complete(EventOf(w))
    BY <2>1, <2>2, <2>3, <2>4 DEF Queue!Complete
  <2>6. QED BY <2>1, <2>5 DEF Queue!Next
<1>3. ASSUME NEW w \in Workers, GiveUp(w) PROVE Queue!Next
  <2>1. EventOf(w) \in Events /\ EventOf(w) \in HandledEvents
    BY <1>3, EventInHand DEF GiveUp, Hand, Handling, HasJob
  <2>2. EventOf(w) \in Queue!Published
    BY <1>3, InHandPublished DEF GiveUp, HasJob, Handling
  <2>3. /\ gaveUp' = gaveUp \cup {EventOf(w)} /\ UNCHANGED stream
        /\ Completed' = Completed /\ Acked' = Acked
    BY <1>3 DEF GiveUp, groupVars, Completed, Acked, Pending
  <2>4. Queue!GiveUp(EventOf(w))
    BY <2>1, <2>2, <2>3 DEF Queue!GiveUp
  <2>5. QED BY <2>1, <2>4 DEF Queue!Next
<1>4. ASSUME NEW w \in Workers, Ack(w), Acked' = Acked \cup {job[w].entry}
      PROVE  Queue!Next
  <2>1. job[w].entry \in DOMAIN stream
    BY <1>4, EventInHand DEF Ack, HasJob, Shape, TypeOK
  <2>2. Queue!Settled(stream[job[w].entry])
    BY <1>4 DEF Ack, Hand, EventOf, Queue!Settled
  <2>3. UNCHANGED stream /\ UNCHANGED gaveUp /\ Completed' = Completed
    BY <1>4 DEF Ack, XAck, subscriberVars, Completed
  <2>4. Queue!Close(job[w].entry)
    BY <1>4, <2>1, <2>2, <2>3 DEF Queue!Close
  <2>5. QED BY <2>1, <2>4 DEF Queue!Next
<1>5. CASE /\ ~ \E ev \in Events : Publish(ev)
           /\ ~ \E w \in Workers : HandlerSucceeds(w) \/ GiveUp(w)
           /\ Acked' = Acked
  <2>1. UNCHANGED <<stream, completions, gaveUp>>
    BY <1>5 DEF Next, vars, TimePasses, GrowIdle, Consume, Handle, ReadNew, XReadGroup,
       ReadBlocksOut, ListPending, LoopDone, ServeBatch, ClaimNext, XClaim, Dispatch,
       ClaimLost, Ack, XAck, LookUp, Enter, HandlerFails, Commit, CommitFails, Requeue,
       PublishDeadLetter, Seal, Crash, Restart, subscriberVars, groupVars
  <2>2. QED BY <2>1, <1>5 DEF Queue!vars, Completed
<1>6. QED BY <1>1, <1>2, <1>3, <1>4, <1>5, AckedStep

\* EventDelivery implements AtLeastOnce, for every number of replicas and crashes.
THEOREM ImplementsAtLeastOnce == Spec => RefinesAtLeastOnce
<1>1. Init => Queue!Init
  BY DEF Init, GroupInit, Queue!Init, Completed, Acked
<1>2. IInv /\ [Next]_vars => [Queue!Next]_(Queue!vars)
  BY QueueStep
<1>3. QED
  BY <1>1, <1>2, IInvAlways, PTL DEF Spec, Queue!Spec, RefinesAtLeastOnce
================================================================================
