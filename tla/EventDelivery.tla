----------------------------- MODULE EventDelivery -----------------------------
(***************************************************************************)
(* Delivery of events to the handler of one queue: the consume loop of     *)
(* RedisStreamsEventBroker around EventSubscriber.handle and the           *)
(* idempotency keys.  A worker is one process running the loop; replicas   *)
(* share the queue name, the consumer id and hence the keys.  Every step   *)
(* is one command awaited by the code; between two awaits another worker,  *)
(* a publisher or the clock may act.                                       *)
(*                                                                         *)
(* A rejected Redis command outside the try block of handle escapes the    *)
(* loop as an unhandled rejection and ends the process: it is a Crash, as  *)
(* is close(), which disconnects under a running loop.                     *)
(***************************************************************************)
EXTENDS RedisStreamGroup

CONSTANTS Workers,         \* the processes consuming the queue
          HandledEvents,   \* events whose type the queue's handler subscribed to
          MaxAttempts,     \* SubscribeOptions.max_attempts
          MaxCrashes,      \* bound: process crashes
          MaxStoreFaults   \* bound: rejected SETs of the "processed" key

ASSUME DeliveryAssumption ==
    /\ HandledEvents \subseteq Events
    /\ MaxAttempts \in Nat \ {0}
    /\ MaxCrashes \in Nat
    /\ MaxStoreFaults \in Nat

VARIABLES key,     \* the idempotency store, by event: consumer:{consumer_id}:{event_id}
          dlq,     \* events on the dead letter stream
          pc,      \* the await each worker is at
          loop,    \* "new" in the batch loop of consume, "pending" in claimPending
          todo,    \* deliveries of the batch or of the XPENDING page still to serve
          job,     \* the delivery in hand
          crashes, faults

\* What has happened, for stating properties: no action reads these.
VARIABLES completions,  \* number of successful handler runs, by event
          gaveUp,       \* events for which a worker decided not to retry
          interrupted   \* events whose worker crashed between giving up and XADD to the DLQ

subscriberVars == <<key, dlq, completions, gaveUp, interrupted>>
workerVars == <<pc, loop, todo, job>>
boundVars == <<crashes, faults>>
vars == <<stream, lastDelivered, deliveries, idle, key, dlq, pc, loop, todo, job,
          crashes, faults, completions, gaveUp, interrupted>>

NoJob == [entry |-> 0, attempt |-> 0]
Delivery == [entry : Entries, attempt : Nat \ {0}]
KeyState == {"none", "processing", "processed", "failed"}

\* The awaits of a worker that is in EventSubscriber.handle, past the first lookup.
Handling == {"enter", "run", "commit", "requeue", "giveUp", "deadLetter", "seal"}
HasJob == Handling \cup {"lookup", "ack"}
Step == HasJob \cup {"read", "page", "next", "down"}

EventOf(w) == stream[job[w].entry]

Goto(w, step) == pc' = [pc EXCEPT ![w] = step]
SetKey(w, state) == key' = [key EXCEPT ![EventOf(w)] = state]

Init ==
    /\ GroupInit
    /\ key = [ev \in Events |-> "none"]
    /\ dlq = {}
    /\ pc = [w \in Workers |-> "read"]
    /\ loop = [w \in Workers |-> "new"]
    /\ todo = [w \in Workers |-> {}]
    /\ job = [w \in Workers |-> NoJob]
    /\ crashes = 0
    /\ faults = 0
    /\ completions = [ev \in Events |-> 0]
    /\ gaveUp = {}
    /\ interrupted = {}

-------------------------------------------------------------------------------
(* The producers and the clock.                                            *)

Publish(ev) ==
    /\ XAdd(ev)
    /\ UNCHANGED <<subscriberVars, workerVars, boundVars>>

TimePasses(e) ==
    /\ GrowIdle(e)
    /\ UNCHANGED <<subscriberVars, workerVars, boundVars>>

-------------------------------------------------------------------------------
(* RedisStreamsEventBroker: consume and claimPending.                      *)

\* Mutant of ReadNew: attempts counted from zero.
ReadNewFromZero(w) ==
    /\ pc[w] = "read"
    /\ XReadGroup
    /\ loop' = [loop EXCEPT ![w] = "new"]
    /\ todo' = [todo EXCEPT ![w] = {[entry |-> e, attempt |-> 0] : e \in Unread}]
    /\ Goto(w, "next")
    /\ UNCHANGED <<job, subscriberVars, boundVars>>

ReadNew(w) ==
    /\ pc[w] = "read"
    /\ XReadGroup
    /\ loop' = [loop EXCEPT ![w] = "new"]
    /\ todo' = [todo EXCEPT ![w] = {[entry |-> e, attempt |-> 1] : e \in Unread}]
    /\ Goto(w, "next")
    /\ UNCHANGED <<job, subscriberVars, boundVars>>

\* Mutant of ReadBlocksOut: the loop continues without claimPending.
ReadBlocksOutAndReads(w) ==
    /\ pc[w] = "read"
    /\ Unread = {}
    /\ Goto(w, "read")
    /\ UNCHANGED <<groupVars, loop, todo, job, subscriberVars, boundVars>>

\* XREADGROUP BLOCK runs into blockMs and answers null.
ReadBlocksOut(w) ==
    /\ pc[w] = "read"
    /\ Unread = {}
    /\ Goto(w, "page")
    /\ UNCHANGED <<groupVars, loop, todo, job, subscriberVars, boundVars>>

\* The attempt of a reclaimed entry is its counter at XPENDING, one less than
\* the counter XCLAIM leaves behind.
ListPending(w) ==
    /\ pc[w] = "page"
    /\ loop' = [loop EXCEPT ![w] = "pending"]
    /\ todo' = [todo EXCEPT ![w] =
                  {[entry |-> e, attempt |-> deliveries[e]] : e \in PendingPage \cap idle}]
    /\ Goto(w, "next")
    /\ UNCHANGED <<groupVars, job, subscriberVars, boundVars>>

IsNext(w, d) == d \in todo[w] /\ \A other \in todo[w] : d.entry <= other.entry

Dispatch(w, d) ==
    /\ todo' = [todo EXCEPT ![w] = @ \ {d}]
    /\ job' = [job EXCEPT ![w] = d]
    /\ Goto(w, IF stream[d.entry] \in HandledEvents THEN "lookup" ELSE "ack")
    /\ UNCHANGED <<loop, subscriberVars, boundVars>>

ServeBatch(w) ==
    /\ pc[w] = "next" /\ loop[w] = "new"
    /\ \E d \in todo[w] : IsNext(w, d) /\ Dispatch(w, d)
    /\ UNCHANGED groupVars

ClaimNext(w) ==
    /\ pc[w] = "next" /\ loop[w] = "pending"
    /\ \E d \in todo[w] : IsNext(w, d) /\ XClaim(d.entry) /\ Dispatch(w, d)

\* Acknowledged or claimed by another worker since XPENDING: XCLAIM returns nothing.
ClaimLost(w) ==
    /\ pc[w] = "next" /\ loop[w] = "pending"
    /\ \E d \in todo[w] :
         /\ IsNext(w, d)
         /\ d.entry \notin idle
         /\ todo' = [todo EXCEPT ![w] = @ \ {d}]
    /\ UNCHANGED <<groupVars, pc, loop, job, subscriberVars, boundVars>>

LoopDone(w) ==
    /\ pc[w] = "next" /\ todo[w] = {}
    /\ Goto(w, "read")
    /\ UNCHANGED <<groupVars, loop, todo, job, subscriberVars, boundVars>>

\* XACK after outcome "acked" or "dead_lettered", or when no handler matched.
Ack(w) ==
    /\ pc[w] = "ack"
    /\ XAck(job[w].entry)
    /\ job' = [job EXCEPT ![w] = NoJob]
    /\ Goto(w, "next")
    /\ UNCHANGED <<loop, todo, subscriberVars, boundVars>>

-------------------------------------------------------------------------------
(* EventSubscriber.handle.                                                 *)

\* Mutants of LookUp: an event in processing is taken for consumed; a processed one is
\* not recognised.
LookUpProcessingAsDone(w) ==
    /\ pc[w] = "lookup"
    /\ Goto(w, IF key[EventOf(w)] # "none" THEN "ack" ELSE "enter")
    /\ UNCHANGED <<groupVars, loop, todo, job, subscriberVars, boundVars>>

LookUpIgnoringProcessed(w) ==
    /\ pc[w] = "lookup"
    /\ Goto(w, IF key[EventOf(w)] = "failed" THEN "ack" ELSE "enter")
    /\ UNCHANGED <<groupVars, loop, todo, job, subscriberVars, boundVars>>

LookUp(w) ==
    /\ pc[w] = "lookup"
    /\ Goto(w, IF key[EventOf(w)] \in {"processed", "failed"} THEN "ack" ELSE "enter")
    /\ UNCHANGED <<groupVars, loop, todo, job, subscriberVars, boundVars>>

Enter(w) ==
    /\ pc[w] = "enter"
    /\ SetKey(w, "processing")
    /\ Goto(w, "run")
    /\ UNCHANGED <<groupVars, loop, todo, job, dlq, completions, gaveUp, interrupted, boundVars>>

HandlerSucceeds(w) ==
    /\ pc[w] = "run"
    /\ completions' = [completions EXCEPT ![EventOf(w)] = @ + 1]
    /\ Goto(w, "commit")
    /\ UNCHANGED <<groupVars, loop, todo, job, key, dlq, gaveUp, interrupted, boundVars>>

\* Mutant of ShouldRetry: one attempt too many.
ShouldRetryOffByOne(w, retryable) == job[w].attempt <= MaxAttempts /\ retryable

ShouldRetry(w, retryable) == job[w].attempt < MaxAttempts /\ retryable

Caught(w, retryable) == Goto(w, IF ShouldRetry(w, retryable) THEN "requeue" ELSE "giveUp")

HandlerFails(w) ==
    /\ pc[w] = "run"
    /\ \E retryable \in BOOLEAN : Caught(w, retryable)
    /\ UNCHANGED <<groupVars, loop, todo, job, subscriberVars, boundVars>>

Commit(w) ==
    /\ pc[w] = "commit"
    /\ SetKey(w, "processed")
    /\ Goto(w, "ack")
    /\ UNCHANGED <<groupVars, loop, todo, job, dlq, completions, gaveUp, interrupted, boundVars>>

\* The SET inside the try block rejects, applied or not: the catch block treats the
\* successful run as a failed one with the default, retryable error.
CommitFails(w) ==
    /\ pc[w] = "commit"
    /\ faults < MaxStoreFaults
    /\ faults' = faults + 1
    /\ SetKey(w, "processed") \/ UNCHANGED key
    /\ Caught(w, TRUE)
    /\ UNCHANGED <<groupVars, loop, todo, job, dlq, completions, gaveUp, interrupted, crashes>>

\* Mutant of Requeue: the entry of a failed run is acknowledged at once.
RequeueAcked(w) ==
    /\ pc[w] = "requeue"
    /\ SetKey(w, "processing")
    /\ Goto(w, "ack")
    /\ UNCHANGED <<groupVars, loop, todo, job, dlq, completions, gaveUp, interrupted, boundVars>>

\* Outcome "retry": the entry stays pending until it is idle and reclaimed.
Requeue(w) ==
    /\ pc[w] = "requeue"
    /\ SetKey(w, "processing")
    /\ job' = [job EXCEPT ![w] = NoJob]
    /\ Goto(w, "next")
    /\ UNCHANGED <<groupVars, loop, todo, dlq, completions, gaveUp, interrupted, boundVars>>

\* Mutant of GiveUp: the dead letter is not published.
GiveUpSilently(w) ==
    /\ pc[w] = "giveUp"
    /\ SetKey(w, "failed")
    /\ gaveUp' = gaveUp \cup {EventOf(w)}
    /\ Goto(w, "seal")
    /\ UNCHANGED <<groupVars, loop, todo, job, dlq, completions, interrupted, boundVars>>

\* The key says "failed" before the dead letter is written.
GiveUp(w) ==
    /\ pc[w] = "giveUp"
    /\ SetKey(w, "failed")
    /\ gaveUp' = gaveUp \cup {EventOf(w)}
    /\ Goto(w, "deadLetter")
    /\ UNCHANGED <<groupVars, loop, todo, job, dlq, completions, interrupted, boundVars>>

PublishDeadLetter(w) ==
    /\ pc[w] = "deadLetter"
    /\ dlq' = dlq \cup {EventOf(w)}
    /\ Goto(w, "seal")
    /\ UNCHANGED <<groupVars, loop, todo, job, key, completions, gaveUp, interrupted, boundVars>>

Seal(w) ==
    /\ pc[w] = "seal"
    /\ SetKey(w, "failed")
    /\ Goto(w, "ack")
    /\ UNCHANGED <<groupVars, loop, todo, job, dlq, completions, gaveUp, interrupted, boundVars>>

-------------------------------------------------------------------------------
(* Processes.                                                              *)

Crash(w) ==
    /\ pc[w] # "down"
    /\ crashes < MaxCrashes
    /\ crashes' = crashes + 1
    /\ interrupted' = IF pc[w] = "deadLetter" THEN interrupted \cup {EventOf(w)} ELSE interrupted
    /\ Goto(w, "down")
    /\ loop' = [loop EXCEPT ![w] = "new"]
    /\ todo' = [todo EXCEPT ![w] = {}]
    /\ job' = [job EXCEPT ![w] = NoJob]
    /\ UNCHANGED <<groupVars, key, dlq, completions, gaveUp, faults>>

Restart(w) ==
    /\ pc[w] = "down"
    /\ Goto(w, "read")
    /\ UNCHANGED <<groupVars, loop, todo, job, subscriberVars, boundVars>>

Consume(w) ==
    \/ ReadNew(w) \/ ReadBlocksOut(w) \/ ListPending(w) \/ LoopDone(w)
    \/ ServeBatch(w) \/ ClaimNext(w) \/ ClaimLost(w) \/ Ack(w)

Handle(w) ==
    \/ LookUp(w) \/ Enter(w) \/ HandlerSucceeds(w) \/ HandlerFails(w)
    \/ Commit(w) \/ CommitFails(w) \/ Requeue(w) \/ GiveUp(w)
    \/ PublishDeadLetter(w) \/ Seal(w)

Next ==
    \/ \E ev \in Events : Publish(ev)
    \/ \E e \in Entries : TimePasses(e)
    \/ \E w \in Workers : Consume(w) \/ Handle(w) \/ Crash(w) \/ Restart(w)

Spec == Init /\ [][Next]_vars

\* The event loop resumes a settled await, handlers return, the supervisor restarts
\* the process and time passes; nothing makes a publisher publish or a process crash.
Fairness ==
    /\ \A w \in Workers : WF_vars(Consume(w)) /\ WF_vars(Handle(w)) /\ WF_vars(Restart(w))
    /\ \A e \in Entries : WF_vars(TimePasses(e))

FairSpec == Spec /\ Fairness

-------------------------------------------------------------------------------
(* Properties.                                                             *)

\* Types, and the shape of the worker's bookkeeping: only pending entries can be idle,
\* and a worker holds a delivery exactly at the awaits between dispatch and XACK.
TypeOK ==
    /\ stream \in Seq(Events) /\ Len(stream) <= MaxEntries
    /\ lastDelivered \in 0..Len(stream)
    /\ deliveries \in [Entries -> Nat]
    /\ idle \in SUBSET Pending
    /\ key \in [Events -> KeyState]
    /\ dlq \in SUBSET Events
    /\ pc \in [Workers -> Step]
    /\ loop \in [Workers -> {"new", "pending"}]
    /\ todo \in [Workers -> SUBSET Delivery]
    /\ job \in [Workers -> Delivery \cup {NoJob}]
    /\ \A w \in Workers : pc[w] \in HasJob <=> job[w] # NoJob
    /\ crashes \in 0..MaxCrashes
    /\ faults \in 0..MaxStoreFaults
    /\ completions \in [Events -> Nat]
    /\ gaveUp \in SUBSET Events
    /\ interrupted \in SUBSET Events

Completed == {ev \in Events : completions[ev] > 0}
WritingDeadLetter(ev) == \E w \in Workers : pc[w] = "deadLetter" /\ EventOf(w) = ev

\* No event is dropped in silence: an entry leaves the pending list only when nobody
\* handles its event, a handler run succeeded, or the subscriber gave the event up.
\* The code decides this from a key several workers overwrite without a transaction.
AckedMeansSettled ==
    \A e \in Acked : stream[e] \in HandledEvents => stream[e] \in Completed \cup gaveUp

\* An acknowledged event that no run completed is on the dead letter stream, or a worker
\* is about to write it there; the one way to lose it is the crash of that worker.
DeadLetterLostOnlyByCrash ==
    \A e \in Acked :
        stream[e] \in HandledEvents \ Completed =>
            stream[e] \in dlq \cup interrupted \/ WritingDeadLetter(stream[e])

\* What the event bus document asks for, crashes or not: retries exhausted must reach
\* the dead letter queue and are never discarded.  The code does not keep it: the key
\* says "failed" before XADD, and the redelivery after a crash acknowledges on the key.
NoDeadLetterDropped ==
    \A e \in Acked :
        stream[e] \in HandledEvents \ Completed =>
            stream[e] \in dlq \/ WritingDeadLetter(stream[e])

\* With one process, an event completes once, plus at most one repetition for each crash
\* and each lost SET: duplicates in the stream and redeliveries are absorbed by the key.
EffectivelyOnce == \A ev \in Events : completions[ev] <= 1 + crashes + faults

\* With one process, Redis delivers an entry at most max_attempts + 1 times, plus once
\* for each crash: the lagging attempt number costs one run, never an endless retry.
DeliveryBudget == \A e \in Entries : deliveries[e] <= MaxAttempts + 1 + crashes

\* With one process, an event marked processed is never reopened, by whatever redelivery,
\* duplicate entry or crash; only a SET that was applied and then reported lost can do it.
ProcessedIsFinal ==
    [][faults = 0 => \A ev \in Events : key[ev] = "processed" => key'[ev] = "processed"]_key

\* Every published entry is eventually acknowledged, through retries, crashes and
\* restarts, and the group stays clear of poison entries.
EventuallyAcked == \A e \in Entries : e <= Len(stream) ~> e \in Acked

\* An event given up reaches the dead letter stream unless its worker crashes right then.
GivenUpReachesDLQ == \A ev \in Events : ev \in gaveUp ~> ev \in dlq \cup interrupted

\* The loop, the subscriber and the keys together implement the abstract queue: each
\* step is a step of AtLeastOnce or changes nothing of it.
Queue == INSTANCE AtLeastOnce WITH completed <- Completed, closed <- Acked
RefinesAtLeastOnce == Queue!Spec
================================================================================
