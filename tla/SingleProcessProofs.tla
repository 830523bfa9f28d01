-------------------------- MODULE SingleProcessProofs --------------------------
(***************************************************************************)
(* Proofs about EventDelivery with one process on the queue, for every     *)
(* number of entries, attempts, crashes and lost SETs: what the            *)
(* idempotency key and the attempt number are good for when nobody else    *)
(* writes the one or claims the entries behind the other.                  *)
(***************************************************************************)
EXTENDS EventDeliveryProofs

USE GroupAssumption, DeliveryAssumption

OneProcess == \A v, w \in Workers : v = w

\* As long as no SET was lost, the key of an event being handled does not say processed.
HandledOpen == faults = 0 => \A w \in Workers : pc[w] \in Handling => key[EventOf(w)] # "processed"

\* Every completion so far is paid for by a crash or a lost SET.
Paid(ev) == completions[ev] <= crashes + faults

\* An event completes once more than that only at "commit", or for good: its key is closed.
Completions ==
    /\ \A ev \in Events : completions[ev] <= 1 + crashes + faults
    /\ \A ev \in Events : key[ev] \in {"none", "processing"} =>
           Paid(ev) \/ \E w \in Workers : pc[w] = "commit" /\ EventOf(w) = ev
    /\ \A w \in Workers : pc[w] \in Handling \ {"commit"} => Paid(EventOf(w))

Holds(w, e) == pc[w] \in HasJob /\ job[w].entry = e

\* A delivery in hand may be one more than max_attempts, since its attempt is one behind
\* the counter of the group; what waits in the loop is not behind.
Attempts ==
    /\ \A e \in Entries : \/ deliveries[e] <= MaxAttempts + crashes
                          \/ /\ deliveries[e] <= MaxAttempts + 1 + crashes
                             /\ \E w \in Workers : Holds(w, e)
    /\ \A w \in Workers :
         /\ pc[w] \in HasJob => deliveries[job[w].entry] <= job[w].attempt + 1
         /\ pc[w] = "requeue" => job[w].attempt < MaxAttempts
         /\ \A d \in todo[w] : deliveries[d.entry] <= d.attempt
         /\ \A d, other \in todo[w] : d.entry = other.entry => d = other

-------------------------------------------------------------------------------
(* The steps of a process, by what they do.                                *)

\* A step is one of a process, or a publication, the clock or a stutter.
LEMMA StepKinds ==
    ASSUME Shape, [Next]_vars
    PROVE  \/ UNCHANGED <<subscriberVars, workerVars, boundVars, deliveries>>
           \/ \E w \in Workers : WorkerStep(w)
BY DEF Next, vars, WorkerStep, Publish, XAdd, TimePasses, GrowIdle, subscriberVars, workerVars,
       boundVars

\* The bounds only grow.
LEMMA BoundsGrow ==
    ASSUME Shape, [Next]_vars
    PROVE  /\ crashes \in Nat /\ crashes' \in Nat /\ crashes <= crashes'
           /\ faults \in Nat /\ faults' \in Nat /\ faults <= faults'
<1>1. crashes \in Nat /\ faults \in Nat
  BY DEF Shape, TypeOK
<1>2. ASSUME NEW w \in Workers, CommitFails(w) \/ Crash(w)
      PROVE  /\ crashes' = crashes \/ crashes' = crashes + 1
             /\ faults' = faults \/ faults' = faults + 1
  BY <1>2 DEF CommitFails, Crash
<1>3. CASE ~ \E w \in Workers : CommitFails(w) \/ Crash(w)
  <2>1. UNCHANGED <<crashes, faults>>
    BY <1>3 DEF Next, vars, Publish, TimePasses, Consume, Handle, ReadNew, ReadBlocksOut,
       ListPending, LoopDone, ServeBatch, ClaimNext, Dispatch, ClaimLost, Ack, LookUp, Enter,
       HandlerSucceeds, HandlerFails, Commit, Requeue, GiveUp, PublishDeadLetter, Seal,
       Restart, boundVars
  <2>2. QED BY <1>1, <2>1
<1>4. QED BY <1>1, <1>2, <1>3

\* The loop works between two deliveries and changes neither key nor counter of an event.
LEMMA ConsumeEffect ==
    ASSUME Shape, NEW w \in Workers, Consume(w)
    PROVE  /\ pc[w] \notin Handling /\ pc'[w] \notin Handling
           /\ UNCHANGED <<subscriberVars, boundVars>>
<1> USE DEF Shape, TypeOK, Goto, Handling, subscriberVars, boundVars
<1>1. CASE ServeBatch(w) \/ ClaimNext(w)
  <2>1. PICK d \in todo[w] : Dispatch(w, d) /\ pc[w] = "next"
    BY <1>1 DEF ServeBatch, ClaimNext
  <2>2. QED BY <2>1 DEF Dispatch
<1>2. CASE ReadNew(w) \/ ReadBlocksOut(w) \/ ListPending(w) \/ LoopDone(w) \/ ClaimLost(w)
           \/ Ack(w)
  BY <1>2 DEF ReadNew, ReadBlocksOut, ListPending, LoopDone, ClaimLost, Ack
<1>3. QED BY <1>1, <1>2 DEF Consume

\* A process that goes down or comes up has nothing in hand.
LEMMA ProcessEffect ==
    ASSUME Shape, NEW w \in Workers, Crash(w) \/ Restart(w)
    PROVE  /\ pc'[w] \notin Handling
           /\ UNCHANGED <<key, completions, faults>>
           /\ \/ Crash(w) /\ crashes' = crashes + 1
              \/ pc[w] = "down" /\ crashes' = crashes
BY DEF Crash, Restart, Goto, Handling, Shape, TypeOK, subscriberVars, boundVars

\* Handling an event keeps it in hand until it is acknowledged or left pending.
LEMMA HandleEffect ==
    ASSUME Shape, NEW w \in Workers, Handle(w)
    PROVE  /\ pc[w] \in HasJob /\ EventOf(w) \in Events
           /\ UNCHANGED <<todo, deliveries, crashes>>
           /\ \/ Requeue(w)
              \/ /\ ~ Requeue(w) /\ job' = job /\ EventOf(w)' = EventOf(w)
                 /\ pc'[w] \in HasJob
<1>1. pc[w] \in HasJob /\ WorkerStep(w)
  BY DEF WorkerStep, Handle, LookUp, Enter, HandlerSucceeds, HandlerFails, Commit, CommitFails,
     Requeue, GiveUp, PublishDeadLetter, Seal, HasJob, Handling
<1>2. EventOf(w) \in Events
  BY <1>1, EventInHand
<1>3. UNCHANGED <<todo, deliveries, crashes, stream>>
  BY DEF Handle, LookUp, Enter, HandlerSucceeds, HandlerFails, Commit, CommitFails,
     Requeue, GiveUp, PublishDeadLetter, Seal, groupVars, boundVars
<1>4. CASE ~ Requeue(w)
  <2>1. job' = job
    BY <1>4 DEF Handle, LookUp, Enter, HandlerSucceeds, HandlerFails, Commit, CommitFails,
       GiveUp, PublishDeadLetter, Seal
  <2>2. pc'[w] \in HasJob
    BY <1>4 DEF Handle, LookUp, Enter, HandlerSucceeds, HandlerFails, Caught, Commit,
       CommitFails, GiveUp, PublishDeadLetter, Seal, Goto, HasJob, Handling, Shape, TypeOK
  <2>3. QED BY <1>1, <1>2, <1>3, <1>4, <2>1, <2>2 DEF EventOf
<1>5. QED BY <1>1, <1>2, <1>3, <1>4

-------------------------------------------------------------------------------
(* The key: a processed event is not opened again.                         *)

\* As long as no SET was lost, what is being handled is not marked processed.
LEMMA HandledOpenStep ==
    ASSUME OneProcess, Shape, HandledOpen, [Next]_vars
    PROVE  HandledOpen'
<1> USE DEF Shape, TypeOK, Goto, Handling
<1> SUFFICES ASSUME faults' = 0, NEW w \in Workers, pc'[w] \in Handling
             PROVE  key'[EventOf(w)'] # "processed"
  BY DEF HandledOpen
<1>1. faults = 0
  BY BoundsGrow
<1>2. CASE UNCHANGED <<subscriberVars, workerVars>>
  <2>1. EventOf(w)' = EventOf(w)
    BY <1>2, EventOfStable DEF workerVars, HasJob
  <2>2. QED BY <1>1, <1>2, <2>1 DEF HandledOpen, workerVars, subscriberVars
<1>3. CASE WorkerStep(w)
  <2>1. Handle(w) /\ ~ Requeue(w)
    BY <1>3, ConsumeEffect, ProcessEffect DEF WorkerStep, Requeue
  <2>2. EventOf(w)' = EventOf(w) /\ EventOf(w) \in Events
    BY <2>1, HandleEffect
  <2>3. CASE LookUp(w)
    <3>1. key' = key /\ key[EventOf(w)] \notin {"processed", "failed"}
      BY <2>3 DEF LookUp, subscriberVars
    <3>2. QED BY <2>2, <3>1
  <2>4. CASE Enter(w) \/ GiveUp(w) \/ Seal(w)
    BY <2>2, <2>4 DEF Enter, GiveUp, Seal, SetKey
  <2>5. CASE HandlerSucceeds(w) \/ HandlerFails(w) \/ PublishDeadLetter(w)
    <3>1. key' = key /\ pc[w] \in Handling
      BY <2>5 DEF HandlerSucceeds, HandlerFails, PublishDeadLetter, subscriberVars
    <3>2. QED BY <1>1, <2>2, <3>1 DEF HandledOpen
  <2>6. ~ Commit(w) /\ ~ CommitFails(w)
    BY <1>1 DEF Commit, CommitFails
  <2>7. QED BY <2>1, <2>3, <2>4, <2>5, <2>6 DEF Handle
<1>4. QED BY <1>2, <1>3, StepKinds DEF OneProcess

\* A step of the process closes keys or opens those that are not marked processed.
LEMMA FinalStep ==
    ASSUME Shape, HandledOpen, [Next]_vars, faults = 0, NEW ev \in Events, key[ev] = "processed"
    PROVE  key'[ev] = "processed"
<1> USE DEF Shape, TypeOK, Handling
<1>1. ASSUME NEW w \in Workers, Enter(w) \/ Requeue(w) \/ GiveUp(w) \/ Seal(w)
      PROVE  key'[ev] = "processed"
  <2>1. key[EventOf(w)] # "processed"
    BY <1>1 DEF Enter, Requeue, GiveUp, Seal, HandledOpen
  <2>2. QED BY <1>1, <2>1 DEF Enter, Requeue, GiveUp, Seal, SetKey
<1>2. ASSUME NEW w \in Workers, Commit(w) \/ CommitFails(w) PROVE key'[ev] = "processed"
  BY <1>2 DEF Commit, CommitFails, SetKey
<1>3. CASE ~ \E w \in Workers : \/ Enter(w) \/ Requeue(w) \/ Commit(w) \/ CommitFails(w)
                                \/ GiveUp(w) \/ Seal(w)
  <2>1. key' = key
    BY <1>3 DEF Next, vars, Publish, TimePasses, Consume, Handle, ReadNew, ReadBlocksOut,
       ListPending, LoopDone, ServeBatch, ClaimNext, Dispatch, ClaimLost, Ack, LookUp,
       HandlerSucceeds, HandlerFails, PublishDeadLetter, Crash, Restart, subscriberVars
  <2>2. QED BY <2>1
<1>4. QED BY <1>1, <1>2, <1>3

\* With one process, a key marked processed stays so, whatever is redelivered, repeated in
\* the stream or interrupted by a crash, until the first SET is lost.
THEOREM ProcessedStays == OneProcess => (Spec => ProcessedIsFinal)
<1> SUFFICES ASSUME OneProcess PROVE Spec => ProcessedIsFinal
  OBVIOUS
<1>1. Init => HandledOpen
  BY DEF Init, HandledOpen, Handling
<1>2. Shape /\ HandledOpen /\ [Next]_vars => HandledOpen'
  BY HandledOpenStep
<1>3. Shape /\ HandledOpen /\ [Next]_vars =>
          [faults = 0 => \A ev \in Events : key[ev] = "processed" => key'[ev] = "processed"]_key
  BY FinalStep
<1>4. QED BY <1>1, <1>2, <1>3, ShapeAlways, PTL DEF Spec, ProcessedIsFinal

-------------------------------------------------------------------------------
(* The counter of completions.                                             *)

\* A crash or a lost SET pays for every completion there was.
LEMMA PaidByFault ==
    ASSUME Shape, Completions, NEW ev \in Events, completions'[ev] = completions[ev],
           \/ crashes' = crashes + 1 /\ faults' = faults
           \/ crashes' = crashes /\ faults' = faults + 1
    PROVE  Paid(ev)'
BY DEF Shape, TypeOK, Completions, Paid

\* A run completes an event whose earlier completions are paid for.
LEMMA CompletionsSucceeds ==
    ASSUME OneProcess, Shape, Completions, NEW w \in Workers, HandlerSucceeds(w)
    PROVE  Completions'
<1> USE DEF Shape, TypeOK, Goto
<1>1. EventOf(w) \in Events /\ EventOf(w)' = EventOf(w) /\ Paid(EventOf(w))
  BY HandleEffect DEF Handle, HandlerSucceeds, Requeue, Completions, Handling
<1>2. /\ completions' = [completions EXCEPT ![EventOf(w)] = @ + 1]
      /\ UNCHANGED <<key, crashes, faults>>
      /\ pc' = [pc EXCEPT ![w] = "commit"] /\ pc[w] = "run"
  BY DEF HandlerSucceeds, boundVars
<1>3. \A ev \in Events : completions'[ev] <= 1 + crashes' + faults'
  BY <1>1, <1>2 DEF Completions, Paid
<1>4. \A ev \in Events : key'[ev] \in {"none", "processing"} =>
          Paid(ev)' \/ \E v \in Workers : pc'[v] = "commit" /\ EventOf(v)' = ev
  <2> TAKE ev \in Events
  <2>1. CASE ev = EventOf(w)
    BY <1>1, <1>2, <2>1
  <2>2. CASE ev # EventOf(w)
    <3>1. completions'[ev] = completions[ev]
      BY <1>2, <2>2
    <3>2. ~ \E v \in Workers : pc[v] = "commit"
      BY <1>2 DEF OneProcess
    <3>3. QED BY <1>2, <3>1, <3>2 DEF Completions, Paid
  <2>3. QED BY <2>1, <2>2
<1>5. \A v \in Workers : pc'[v] \notin Handling \ {"commit"}
  BY <1>2 DEF OneProcess
<1>6. QED BY <1>3, <1>4, <1>5 DEF Completions

\* The counter of completions stays bounded.
LEMMA CompletionsStep ==
    ASSUME OneProcess, Shape, Completions, [Next]_vars
    PROVE  Completions'
<1> USE DEF Shape, TypeOK, Goto, Handling
<1>1. CASE UNCHANGED <<subscriberVars, workerVars, boundVars>>
  <2>1. \A w \in Workers : pc[w] \in Handling => EventOf(w)' = EventOf(w)
    BY <1>1, EventOfStable DEF workerVars, HasJob
  <2>2. \A ev \in Events : Paid(ev)' <=> Paid(ev)
    BY <1>1 DEF Paid, subscriberVars, boundVars
  <2>3. \A w \in Workers : pc[w] \in Handling => EventOf(w) \in Events
    BY EventInHand DEF HasJob
  <2>4. UNCHANGED <<pc, key, completions, crashes, faults>>
    BY <1>1 DEF subscriberVars, workerVars, boundVars
  <2>5. \A ev \in Events : completions'[ev] <= 1 + crashes' + faults'
    BY <2>4 DEF Completions
  <2>6. \A ev \in Events : key'[ev] \in {"none", "processing"} =>
            Paid(ev)' \/ \E v \in Workers : pc'[v] = "commit" /\ EventOf(v)' = ev
    BY <2>1, <2>2, <2>4 DEF Completions
  <2>7. \A w \in Workers : pc'[w] \in Handling \ {"commit"} => Paid(EventOf(w))'
    <3> SUFFICES ASSUME NEW w \in Workers, pc'[w] \in Handling \ {"commit"}
                 PROVE  Paid(EventOf(w))'
      OBVIOUS
    <3>1. Paid(EventOf(w)) /\ EventOf(w)' = EventOf(w) /\ EventOf(w) \in Events
      BY <2>1, <2>3, <2>4 DEF Completions
    <3>2. QED BY <2>4, <3>1 DEF Paid
  <2>8. QED BY <2>5, <2>6, <2>7 DEF Completions
<1>2. ASSUME NEW w \in Workers, Consume(w) PROVE Completions'
  <2>1. UNCHANGED <<key, completions, crashes, faults>>
    BY <1>2, ConsumeEffect DEF subscriberVars, boundVars
  <2>2. \A v \in Workers : pc[v] \notin Handling /\ pc'[v] \notin Handling
    BY <1>2, ConsumeEffect DEF OneProcess
  <2>3. QED BY <2>1, <2>2 DEF Completions, Paid
<1>3. ASSUME NEW w \in Workers, Crash(w) \/ Restart(w) PROVE Completions'
  <2>1. \A v \in Workers : pc'[v] \notin Handling
    BY <1>3, ProcessEffect DEF OneProcess
  <2>2. UNCHANGED <<key, completions, faults>>
    BY <1>3, ProcessEffect
  <2>3. CASE crashes' = crashes + 1
    BY <2>1, <2>2, <2>3, PaidByFault DEF Completions, Paid
  <2>4. CASE pc[w] = "down" /\ crashes' = crashes
    <3>1. \A v \in Workers : pc[v] # "commit"
      BY <2>4 DEF OneProcess
    <3>2. QED BY <2>1, <2>2, <2>4, <3>1 DEF Completions, Paid
  <2>5. QED BY <1>3, <2>3, <2>4, ProcessEffect
<1>4. ASSUME NEW w \in Workers, Handle(w) PROVE Completions'
  <2>0. /\ EventOf(w) \in Events /\ crashes' = crashes
        /\ ~ Requeue(w) => EventOf(w)' = EventOf(w)
    BY <1>4, HandleEffect
  <2>1. CASE HandlerSucceeds(w)
    BY <2>1, CompletionsSucceeds
  <2>2. CASE CommitFails(w)
    <3>1. completions' = completions /\ faults' = faults + 1
      BY <2>2 DEF CommitFails
    <3>2. \A ev \in Events : Paid(ev)'
      BY <2>0, <3>1, PaidByFault
    <3>3. \A v \in Workers : EventOf(v)' \in Events
      BY <2>0, <2>2 DEF OneProcess, CommitFails, Requeue
    <3>4. \A v \in Workers : pc'[v] # "commit"
      BY <2>2 DEF CommitFails, Caught, OneProcess
    <3>5. QED BY <2>0, <3>1, <3>2, <3>3, <3>4 DEF Completions, Paid
  <2>3. CASE ~ HandlerSucceeds(w) /\ ~ CommitFails(w)
    <3>1. UNCHANGED <<completions, faults>>
      BY <1>4, <2>3 DEF Handle, LookUp, Enter, HandlerFails, Commit, Requeue, GiveUp,
         PublishDeadLetter, Seal, subscriberVars, boundVars
    <3>2. \A ev \in Events : Paid(ev)' <=> Paid(ev)
      BY <2>0, <3>1 DEF Paid
    <3>3. \A ev \in Events : completions'[ev] <= 1 + crashes' + faults'
      BY <2>0, <3>1 DEF Completions
    <3>4. \A ev \in Events : key'[ev] \in {"none", "processing"} => Paid(ev)
      <4> SUFFICES ASSUME NEW ev \in Events, key'[ev] \in {"none", "processing"}
                   PROVE  Paid(ev)
        OBVIOUS
      <4>1. CASE LookUp(w) \/ HandlerFails(w) \/ PublishDeadLetter(w)
        <5>1. key' = key /\ pc[w] # "commit"
          BY <4>1 DEF LookUp, HandlerFails, PublishDeadLetter, subscriberVars
        <5>2. QED BY <5>1 DEF Completions, OneProcess
      <4>2. CASE Enter(w) \/ Requeue(w)
        <5>1. Paid(EventOf(w)) /\ pc[w] # "commit"
          BY <4>2 DEF Enter, Requeue, Completions
        <5>2. ev # EventOf(w) => key'[ev] = key[ev]
          BY <4>2 DEF Enter, Requeue, SetKey
        <5>3. QED BY <5>1, <5>2 DEF Completions, OneProcess
      <4>3. CASE Commit(w)
        <5>1. key' = [key EXCEPT ![EventOf(w)] = "processed"]
          BY <4>3 DEF Commit, SetKey
        <5>2. ev # EventOf(w) /\ key[ev] \in {"none", "processing"}
          BY <2>0, <5>1
        <5>3. QED BY <5>2 DEF Completions, OneProcess
      <4>4. CASE GiveUp(w) \/ Seal(w)
        <5>1. key' = [key EXCEPT ![EventOf(w)] = "failed"] /\ pc[w] # "commit"
          BY <4>4 DEF GiveUp, Seal, SetKey
        <5>2. key[ev] \in {"none", "processing"}
          BY <2>0, <5>1
        <5>3. QED BY <5>1, <5>2 DEF Completions, OneProcess
      <4>5. QED BY <1>4, <2>3, <4>1, <4>2, <4>3, <4>4 DEF Handle
    <3>5. \A v \in Workers : pc'[v] \in Handling \ {"commit"} => Paid(EventOf(v))'
      <4> SUFFICES ASSUME pc'[w] \in Handling \ {"commit"} PROVE Paid(EventOf(w))'
        BY DEF OneProcess
      <4>1. ~ Requeue(w) /\ EventOf(w)' = EventOf(w)
        BY <2>0 DEF Requeue
      <4>2. Paid(EventOf(w))
        <5>1. CASE LookUp(w)
          <6>1. key[EventOf(w)] \in {"none", "processing"} /\ pc[w] # "commit"
            BY <2>0, <5>1 DEF LookUp, KeyState
          <6>2. QED BY <2>0, <6>1 DEF Completions, OneProcess
        <5>2. CASE ~ LookUp(w)
          <6>1. pc[w] \in Handling \ {"commit"}
            BY <1>4, <2>3, <5>2 DEF Handle, Enter, HandlerFails, Commit, Requeue, GiveUp,
               PublishDeadLetter, Seal
          <6>2. QED BY <6>1 DEF Completions
        <5>3. QED BY <5>1, <5>2
      <4>3. QED BY <2>0, <3>1, <4>1, <4>2 DEF Paid
    <3>6. QED BY <3>2, <3>3, <3>4, <3>5 DEF Completions
  <2>4. QED BY <2>1, <2>2, <2>3
<1>5. QED BY <1>1, <1>2, <1>3, <1>4, StepKinds DEF WorkerStep

\* With one process, redeliveries and repetitions in the stream are absorbed by the key:
\* an event completes once and once more for each crash and each lost SET (EffectivelyOnce).
THEOREM CompletesOnce == OneProcess => (Spec => []EffectivelyOnce)
<1> SUFFICES ASSUME OneProcess PROVE Spec => []EffectivelyOnce
  OBVIOUS
<1>1. Init => Completions
  BY DEF Init, Completions, Paid, Handling
<1>2. Shape /\ Completions /\ [Next]_vars => Completions'
  BY CompletionsStep
<1>3. Completions => EffectivelyOnce
  BY DEF Completions, EffectivelyOnce
<1>4. QED BY <1>1, <1>2, <1>3, ShapeAlways, PTL DEF Spec

-------------------------------------------------------------------------------
(* The counter of deliveries.                                              *)

\* Between two deliveries no entry has used the attempt that a delivery in hand may have.
LEMMA NothingHeld ==
    ASSUME OneProcess, Shape, Attempts, NEW w \in Workers, pc[w] \notin HasJob
    PROVE  \A e \in Entries : deliveries[e] <= MaxAttempts + crashes
BY DEF Attempts, OneProcess, Holds

\* Whoever has nothing in hand and did not lengthen his list keeps what he had.
LEMMA AttemptsIdle ==
    ASSUME OneProcess, Shape, Attempts, NEW w \in Workers, pc'[w] \notin HasJob,
           todo'[w] \subseteq todo[w], deliveries' = deliveries,
           \A e \in Entries : deliveries[e] <= MaxAttempts + crashes'
    PROVE  Attempts'
BY DEF Attempts, OneProcess, HasJob, Handling

\* A batch of XREADGROUP enters with one delivery and attempt one.
LEMMA AttemptsReadNew ==
    ASSUME OneProcess, Shape, Attempts, NEW w \in Workers, ReadNew(w)
    PROVE  Attempts'
<1>1. /\ deliveries' = [e \in Entries |-> IF e \in Unread THEN 1 ELSE deliveries[e]]
      /\ todo'[w] = {[entry |-> e, attempt |-> 1] : e \in Unread}
      /\ crashes' = crashes /\ pc[w] \notin HasJob /\ pc'[w] = "next"
  BY DEF ReadNew, XReadGroup, Goto, boundVars, Shape, TypeOK, HasJob, Handling
<1>2. \A e \in Unread : e \in Entries
  BY UnreadRange DEF Shape
<1>3. crashes \in Nat
  BY DEF Shape, TypeOK
<1>4. \A e \in Entries : deliveries[e] <= MaxAttempts + crashes
  BY <1>1, NothingHeld
<1>5. \A e \in Entries : deliveries'[e] <= MaxAttempts + crashes'
  BY <1>1, <1>3, <1>4
<1>6. \A d \in todo'[w] : deliveries'[d.entry] <= d.attempt
  BY <1>1, <1>2
<1>7. \A d, other \in todo'[w] : d.entry = other.entry => d = other
  BY <1>1
<1>8. QED
  BY <1>1, <1>5, <1>6, <1>7 DEF Attempts, OneProcess, HasJob, Handling

\* A page of XPENDING takes the counters for attempts.
LEMMA AttemptsListPending ==
    ASSUME OneProcess, Shape, Attempts, NEW w \in Workers, ListPending(w)
    PROVE  Attempts'
<1>1. /\ todo'[w] = {[entry |-> e, attempt |-> deliveries[e]] : e \in PendingPage \cap idle}
      /\ deliveries' = deliveries /\ crashes' = crashes
      /\ pc[w] \notin HasJob /\ pc'[w] = "next"
  BY DEF ListPending, groupVars, Goto, boundVars, Shape, TypeOK, HasJob, Handling
<1>2. \A e \in PendingPage : deliveries[e] \in Nat
  BY DEF PendingPage, Pending, Shape, TypeOK
<1>3. \A e \in Entries : deliveries'[e] <= MaxAttempts + crashes'
  BY <1>1, NothingHeld
<1>4. \A d \in todo'[w] : deliveries'[d.entry] <= d.attempt
  BY <1>1, <1>2
<1>5. \A d, other \in todo'[w] : d.entry = other.entry => d = other
  BY <1>1
<1>6. QED
  BY <1>1, <1>3, <1>4, <1>5 DEF Attempts, OneProcess, HasJob, Handling

\* A delivery taken in hand is at most one behind its counter.
LEMMA AttemptsDispatch ==
    ASSUME OneProcess, Shape, Attempts, NEW w \in Workers, ServeBatch(w) \/ ClaimNext(w)
    PROVE  Attempts'
<1>1. PICK d \in todo[w] : /\ Dispatch(w, d) /\ pc[w] = "next"
                           /\ deliveries' = deliveries \/ XClaim(d.entry)
  BY DEF ServeBatch, ClaimNext, groupVars
<1>2. d \in Delivery /\ d.entry \in Entries /\ d.attempt \in Nat
  BY DEF Shape, TypeOK, Delivery
<1>3. /\ todo'[w] = todo[w] \ {d} /\ job'[w] = d /\ crashes' = crashes
      /\ pc'[w] \in {"lookup", "ack"}
  BY <1>1 DEF Dispatch, Goto, boundVars, Shape, TypeOK
<1>4. /\ deliveries' \in [Entries -> Nat] /\ crashes \in Nat
      /\ \A e \in Entries : e # d.entry => deliveries'[e] = deliveries[e]
      /\ deliveries[d.entry] \in Nat /\ deliveries'[d.entry] <= deliveries[d.entry] + 1
  <2>1. deliveries \in [Entries -> Nat] /\ crashes \in Nat
    BY DEF Shape, TypeOK
  <2>2. \/ deliveries' = deliveries
        \/ deliveries' = [deliveries EXCEPT ![d.entry] = @ + 1]
    BY <1>1 DEF XClaim
  <2>3. deliveries' \in [Entries -> Nat]
    BY <1>2, <2>1, <2>2
  <2>4. \A e \in Entries : e # d.entry => deliveries'[e] = deliveries[e]
    BY <2>1, <2>2
  <2>5. QED BY <1>2, <2>1, <2>2, <2>3, <2>4
<1>5. Holds(w, d.entry)'
  BY <1>3 DEF Holds, HasJob
<1>6. \A e \in Entries : deliveries[e] \in Nat /\ deliveries[e] <= MaxAttempts + crashes
  BY <1>1, NothingHeld DEF HasJob, Handling, Shape, TypeOK
<1>7. \A e \in Entries : \/ deliveries'[e] <= MaxAttempts + crashes'
                         \/ /\ deliveries'[e] <= MaxAttempts + 1 + crashes'
                            /\ \E v \in Workers : Holds(v, e)'
  <2> TAKE e \in Entries
  <2>1. CASE e = d.entry
    BY <1>2, <1>3, <1>4, <1>5, <1>6, <2>1
  <2>2. CASE e # d.entry
    BY <1>3, <1>4, <1>6, <2>2
  <2>3. QED BY <2>1, <2>2
<1>8. deliveries'[job'[w].entry] <= job'[w].attempt + 1
  <2>1. deliveries[d.entry] <= d.attempt
    BY DEF Attempts
  <2>2. QED BY <1>2, <1>3, <1>4, <2>1
<1>9. \A f \in todo'[w] : deliveries'[f.entry] <= f.attempt
  <2> TAKE f \in todo'[w]
  <2>1. f \in todo[w] /\ f # d /\ f.entry \in Entries
    BY <1>3 DEF Shape, TypeOK, Delivery
  <2>2. f.entry # d.entry /\ deliveries[f.entry] <= f.attempt
    BY <2>1 DEF Attempts
  <2>3. QED BY <1>4, <2>1, <2>2
<1>10. \A f, other \in todo'[w] : f.entry = other.entry => f = other
  BY <1>3 DEF Attempts
<1>11. QED
  BY <1>3, <1>7, <1>8, <1>9, <1>10 DEF Attempts, OneProcess

\* Acknowledging takes the counter back; the entry left pending has attempts to spare.
LEMMA AttemptsLetGo ==
    ASSUME OneProcess, Shape, Attempts, NEW w \in Workers, Ack(w) \/ Requeue(w)
    PROVE  Attempts'
<1>1. /\ pc[w] \in HasJob /\ pc'[w] = "next" /\ UNCHANGED <<todo, crashes>>
  BY DEF Ack, Requeue, Goto, boundVars, HasJob, Handling, Shape, TypeOK
<1>2. job[w] \in Delivery /\ job[w].entry \in Entries /\ job[w].attempt \in Nat
  BY <1>1, EventInHand DEF Delivery
<1>3. /\ deliveries' \in [Entries -> Nat] /\ crashes \in Nat /\ deliveries \in [Entries -> Nat]
      /\ \A e \in Entries : deliveries'[e] <= deliveries[e]
      /\ \A e \in Entries : e # job[w].entry => deliveries'[e] = deliveries[e]
      /\ deliveries'[job[w].entry] <= MaxAttempts
  <2>1. CASE Ack(w)
    BY <1>2, <2>1 DEF Ack, XAck, Shape, TypeOK
  <2>2. CASE Requeue(w)
    <3>1. deliveries' = deliveries
      BY <2>2 DEF Requeue, groupVars
    <3>2. job[w].attempt < MaxAttempts /\ deliveries[job[w].entry] <= job[w].attempt + 1
      BY <1>1, <2>2 DEF Requeue, Attempts
    <3>3. QED BY <1>2, <3>1, <3>2 DEF Shape, TypeOK
  <2>3. QED BY <2>1, <2>2
<1>4. \A e \in Entries : deliveries'[e] <= MaxAttempts + crashes'
  <2> TAKE e \in Entries
  <2>1. CASE e = job[w].entry
    BY <1>1, <1>3, <2>1
  <2>2. CASE e # job[w].entry
    <3>1. ~ \E v \in Workers : Holds(v, e)
      BY <2>2 DEF OneProcess, Holds
    <3>2. QED BY <1>1, <1>3, <2>2, <3>1 DEF Attempts
  <2>3. QED BY <2>1, <2>2
<1>5. \A d \in todo'[w] : d \in Delivery /\ d.entry \in Entries /\ d.attempt \in Nat
  BY <1>1 DEF Shape, TypeOK, Delivery
<1>6. \A d \in todo'[w] : deliveries'[d.entry] <= d.attempt
  <2> TAKE d \in todo'[w]
  <2>1. deliveries[d.entry] <= d.attempt
    BY <1>1 DEF Attempts
  <2>2. QED BY <1>3, <1>5, <2>1
<1>7. QED
  BY <1>1, <1>4, <1>6 DEF Attempts, OneProcess, HasJob, Handling

\* Inside handle only the decision to retry concerns the counters.
LEMMA AttemptsHandle ==
    ASSUME OneProcess, Shape, Attempts, NEW w \in Workers, Handle(w), ~ Requeue(w)
    PROVE  Attempts'
<1>1. /\ pc[w] \in HasJob /\ pc'[w] \in HasJob
      /\ UNCHANGED <<todo, job, deliveries, crashes>>
  BY HandleEffect
<1>2. pc'[w] = "requeue" => job[w].attempt < MaxAttempts
  BY DEF Handle, LookUp, Enter, HandlerSucceeds, HandlerFails, Caught, ShouldRetry, Commit,
     CommitFails, GiveUp, PublishDeadLetter, Seal, Goto, Shape, TypeOK
<1>3. \A e \in Entries : (\E v \in Workers : Holds(v, e)) => \E v \in Workers : Holds(v, e)'
  BY <1>1 DEF Holds, OneProcess
<1>4. QED
  BY <1>1, <1>2, <1>3 DEF Attempts, OneProcess

\* The attempts stay in step with the counters of the group.
LEMMA AttemptsStep ==
    ASSUME OneProcess, Shape, Attempts, [Next]_vars
    PROVE  Attempts'
<1>1. CASE UNCHANGED <<workerVars, boundVars, deliveries>>
  BY <1>1 DEF workerVars, boundVars, Attempts, Holds
<1>2. ASSUME NEW w \in Workers, Crash(w) PROVE Attempts'
  <2>1. /\ crashes' = crashes + 1 /\ pc'[w] = "down" /\ todo'[w] = {}
        /\ deliveries' = deliveries
    BY <1>2 DEF Crash, Goto, groupVars, Shape, TypeOK
  <2>2. \A e \in Entries : deliveries[e] <= MaxAttempts + crashes'
    BY <2>1 DEF Attempts, Shape, TypeOK
  <2>3. QED BY <2>1, <2>2, AttemptsIdle DEF HasJob, Handling
<1>3. ASSUME NEW w \in Workers,
             Restart(w) \/ ReadBlocksOut(w) \/ LoopDone(w) \/ ClaimLost(w)
      PROVE  Attempts'
  <2>1. /\ crashes' = crashes /\ pc[w] \notin HasJob /\ pc'[w] \notin HasJob
        /\ todo'[w] \subseteq todo[w] /\ deliveries' = deliveries
    BY <1>3 DEF Restart, ReadBlocksOut, LoopDone, ClaimLost, Goto, groupVars, boundVars, Shape,
       TypeOK, HasJob, Handling
  <2>2. QED BY <2>1, NothingHeld, AttemptsIdle
<1>4. QED
  BY <1>1, <1>2, <1>3, StepKinds, AttemptsReadNew, AttemptsListPending, AttemptsDispatch,
     AttemptsLetGo, AttemptsHandle DEF WorkerStep, Consume

\* With one process, an entry is delivered at most max_attempts + 1 times and once more for
\* each crash: the attempt number lags one behind the group's counter, never more.
THEOREM DeliveriesAreBounded == OneProcess => (Spec => []DeliveryBudget)
<1> SUFFICES ASSUME OneProcess PROVE Spec => []DeliveryBudget
  OBVIOUS
<1>1. Init => Attempts
  BY DEF Init, GroupInit, Attempts, HasJob, Handling
<1>2. Shape /\ Attempts /\ [Next]_vars => Attempts'
  BY AttemptsStep
<1>3. Shape /\ Attempts => DeliveryBudget
  BY DEF Attempts, DeliveryBudget, Shape, TypeOK
<1>4. QED BY <1>1, <1>2, <1>3, ShapeAlways, PTL DEF Spec
================================================================================
