----------------------------- MODULE ServiceIngress -----------------------------
(***************************************************************************)
(* The fde-workstation process: its HTTP server, the long connection to    *)
(* Feishu in mode "websocket", the publisher behind both, the start of the *)
(* collaboration consumer and the shutdown on a signal.  With the Redis    *)
(* backend publishing appends to the stream, and EventDelivery tells what  *)
(* becomes of the entry; with the memory backend it runs the handler.      *)
(* A step ends at an await that really waits: for the network or a timer.  *)
(***************************************************************************)
EXTENDS Naturals

CONSTANTS Requests,    \* what arrives, by HTTP or pushed on the long connection
          Inputs,      \* HTTP requests: method, path, body and token
          Messages,    \* Feishu messages that are clicked or answered
          Backends,    \* values of FDE_EVENT_BACKEND
          MaxClock,    \* bound: milliseconds that pass
          MaxFaults,   \* bound: calls of Redis, Feishu and clients that fail
          MaxSignals   \* bound: SIGINT and SIGTERM received

ASSUME IngressAssumption ==
    /\ Backends \subseteq {"redis", "memory"}
    /\ {MaxClock, MaxFaults, MaxSignals} \subseteq Nat
    /\ Inputs # {}
    /\ \A in \in Inputs :
         /\ DOMAIN in = {"method", "path", "body", "token", "message"}
         /\ in.message \in Messages

VARIABLES backend,     \* event_backend
          alive,       \* the process runs
          listening,   \* server.listening
          start,       \* of startFeishuEventIngress: "subscribing", "connecting", "done", "failed"
          conn,        \* the WSClient: "none", "opening", "open", "failed", "closed"
          closers,     \* the calls of close(): "draining", "leaving"
          input,       \* of a request
          pc,          \* of a request: "new", "body", "ping", "publish", "handling", "answered"
          status,      \* the answer, 0 while there is none
          id,          \* id of its event, <<>> while there is none
          log,         \* requests whose event is in the stream or went to the subscriptions
          key,         \* MemoryIdempotencyStore: consumer key of an event id
          clock,       \* Date.now()
          faults

\* What happened, for stating properties: no action reads these.
VARIABLES inDoubt,     \* requests whose event was appended although the call rejected
          handled, broke,  \* requests whose handler returned, or threw
          cameAt,          \* when the event of a request got its id
          rejected         \* the consume loop rejected, and that ended the process

vars == <<backend, alive, listening, start, conn, closers, input, pc, status, id, log, key, clock,
          faults, inDoubt, handled, broke, cameAt, rejected>>
requestVars == <<input, pc, status, id, log, key, inDoubt, handled, broke, cameAt>>
processVars == <<backend, alive, listening, start, conn, closers, rejected>>

Pushed(m) == [method |-> "push", path |-> "feishu", body |-> "ok", token |-> "good", message |-> m]
InHand(r) == pc[r] \notin {"new", "answered"}
Closers == 1..MaxSignals
NoKey == "none"
MessageIds == Messages \X (0..MaxClock)

\* main.ts, in the callback of listen.  The memory broker has subscribed when it is over, and
\* the handshake of the long connection is under way; with Redis XGROUP CREATE is.
Init ==
    /\ backend \in Backends
    /\ alive = TRUE /\ listening = TRUE
    /\ start = (IF backend = "redis" THEN "subscribing" ELSE "connecting")
    /\ conn = (IF backend = "redis" THEN "none" ELSE "opening")
    /\ rejected = FALSE
    /\ closers = [c \in Closers |-> "idle"]
    /\ input = [r \in Requests |-> CHOOSE in \in Inputs : TRUE]
    /\ pc = [r \in Requests |-> "new"]
    /\ status = [r \in Requests |-> 0]
    /\ id = [r \in Requests |-> <<>>]
    /\ log = {}
    /\ key = [i \in MessageIds |-> NoKey]
    /\ clock = 0 /\ faults = 0
    /\ inDoubt = {} /\ handled = {} /\ broke = {}
    /\ cameAt = [r \in Requests |-> 0]

Fault == faults < MaxFaults /\ faults' = faults + 1
Redis == backend = "redis"

-------------------------------------------------------------------------------
(* Answering.                                                              *)

Answer(r, code) ==
    /\ pc' = [pc EXCEPT ![r] = "answered"]
    /\ status' = [status EXCEPT ![r] = code]

\* Mutant of PublishedCode: the answer tells that the event was archived.
ArchivedCode(in, published) == IF in.method = "push" THEN 200 ELSE 202

\* The long connection confirms a push whatever became of the event.
PublishedCode(in, published) ==
    IF in.method = "push" THEN 200 ELSE IF published THEN 202 ELSE 400

\* The webhooks with a static token; those of Kubernetes have none.
IngressRefuses(in) == in.path \in {"gitlab", "tekton", "argocd"} /\ in.token = "bad"

\* The Feishu callback looks at the verification token of a body of type url_verification and
\* at the signature of any other (a signing secret is configured).  It answers a challenge; a
\* verification without a challenge ("challengeless") goes on and becomes an event.
CallbackRefuses(in) == in.token = "bad"
Challenged(in) == in.path = "feishu" /\ in.body = "challenge" /\ ~CallbackRefuses(in)

Refused(in) ==
    \/ in.path = "feishu" /\ CallbackRefuses(in)
    \/ in.body = "invalid"
    \/ IngressRefuses(in)

\* Making the event throws: a field that String() cannot convert, a depth that overflows the
\* stack of redactSensitiveFields.
Breaks(in) == in.body = "breaking"

\* What is answered before the body is read, 0 if nothing: readPathname throws on a malformed
\* URL, and /health waits for nobody.
EarlyAnswer(in) ==
    IF in.path = "malformed" THEN 500
    ELSE IF in.method = "GET" /\ in.path = "health" THEN 200
    ELSE 0

\* What the server and the handlers answer by themselves when they have the body, which may be
\* too large, before they look at anything else; 0: the request becomes an event.
OwnAnswer(in) ==
    IF in.body = "large" THEN 413
    ELSE IF in.method # "POST" THEN 405
    ELSE IF in.path = "unknown" THEN 404
    ELSE IF Challenged(in) THEN 200
    ELSE IF Refused(in) THEN 400
    ELSE IF Breaks(in) THEN 500
    ELSE 0

\* normalizeEvent: every request becomes an event of its own.
FreshId(r) == <<"evt", r>>

\* Mutant of EventId: the time is not part of the id.
EventIdOfMessage(r, in) == IF in.path = "feishu" THEN <<in.message, 0>> ELSE FreshId(r)

\* A callback is known by its message and the millisecond, any other event by a fresh id.
EventId(r, in) == IF in.path = "feishu" THEN <<in.message, clock>> ELSE FreshId(r)

-------------------------------------------------------------------------------
(* Requests.                                                               *)

Arrive(r) ==
    /\ alive /\ listening /\ pc[r] = "new"
    /\ \E in \in Inputs :
         /\ input' = [input EXCEPT ![r] = in]
         /\ IF EarlyAnswer(in) # 0
            THEN Answer(r, EarlyAnswer(in))
            ELSE /\ pc' = [pc EXCEPT ![r] =
                             IF in.method = "GET" /\ in.path = "ready" THEN "ping" ELSE "body"]
                 /\ UNCHANGED status
    /\ UNCHANGED <<processVars, id, log, key, clock, faults, inDoubt, handled, broke, cameAt>>

\* A handler of the dispatcher: Feishu sends a click or a reply.
Push(r) ==
    /\ alive /\ conn = "open" /\ pc[r] = "new"
    /\ \E m \in Messages :
         /\ input' = [input EXCEPT ![r] = Pushed(m)]
         /\ id' = [id EXCEPT ![r] = EventId(r, Pushed(m))]
    /\ cameAt' = [cameAt EXCEPT ![r] = clock]
    /\ pc' = [pc EXCEPT ![r] = "publish"]
    /\ UNCHANGED <<processVars, status, log, key, clock, faults, inDoubt, handled, broke>>

\* The body is complete or too long; up to publishing nothing waits.
ReadBody(r) ==
    /\ alive /\ pc[r] = "body"
    /\ IF OwnAnswer(input[r]) # 0
       THEN Answer(r, OwnAnswer(input[r])) /\ UNCHANGED <<id, cameAt>>
       ELSE /\ pc' = [pc EXCEPT ![r] = "publish"]
            /\ id' = [id EXCEPT ![r] = EventId(r, input[r])]
            /\ cameAt' = [cameAt EXCEPT ![r] = clock]
            /\ UNCHANGED status
    /\ UNCHANGED <<processVars, input, log, key, clock, faults, inDoubt, handled, broke>>

\* The client goes away: the request emits an error and the server writes 500 to nobody.
ClientAborts(r) ==
    /\ alive /\ pc[r] = "body" /\ Fault
    /\ Answer(r, 500)
    /\ UNCHANGED <<processVars, input, id, log, key, clock, inDoubt, handled, broke, cameAt>>

\* requestTimeout, which Node's server checks from an interval that server.close() clears:
\* after the first signal nothing limits a body any more.
BodyTimesOut(r) ==
    /\ alive /\ listening /\ pc[r] = "body"
    /\ Answer(r, 408)
    /\ UNCHANGED <<processVars, input, id, log, key, clock, faults, inDoubt, handled, broke, cameAt>>

\* Mutant of Ready: the answer is written before the check has settled.
ReadyUnsettled(r) ==
    /\ alive /\ pc[r] = "ping"
    /\ \/ Answer(r, 0) /\ UNCHANGED faults
       \/ Redis /\ Fault /\ Answer(r, 503)
    /\ UNCHANGED <<processVars, input, id, log, key, clock, inDoubt, handled, broke, cameAt>>

\* /ready looks at Redis alone: neither the consumer nor the long connection counts.
Ready(r) ==
    /\ alive /\ pc[r] = "ping"
    /\ \/ Answer(r, 200) /\ UNCHANGED faults
       \/ Redis /\ Fault /\ Answer(r, 503)      \* PING rejects, or withTimeout does
    /\ UNCHANGED <<processVars, input, id, log, key, clock, inDoubt, handled, broke, cameAt>>

-------------------------------------------------------------------------------
(* EventPublisherService.publish: the archive is in memory and never fails. *)

Published(r, ok) == Answer(r, PublishedCode(input[r], ok))

XAdd(r) ==
    /\ alive /\ Redis /\ pc[r] = "publish"
    /\ log' = log \cup {r}
    /\ Published(r, TRUE)
    /\ UNCHANGED <<processVars, input, id, key, clock, faults, inDoubt, handled, broke, cameAt>>

\* XADD rejects; the entry may have been appended before the connection broke.
XAddFails(r) ==
    /\ alive /\ Redis /\ pc[r] = "publish" /\ Fault
    /\ \/ log' = log \cup {r} /\ inDoubt' = inDoubt \cup {r}
       \/ UNCHANGED <<log, inDoubt>>
    /\ Published(r, FALSE)
    /\ UNCHANGED <<processVars, input, id, key, clock, handled, broke, cameAt>>

\* MemoryEventBroker.publish: the collaboration consumer subscribes to callbacks alone.
DeliverToNobody(r) ==
    /\ alive /\ ~Redis /\ pc[r] = "publish" /\ input[r].path # "feishu"
    /\ log' = log \cup {r}
    /\ Published(r, TRUE)
    /\ UNCHANGED <<processVars, input, id, key, clock, faults, inDoubt, handled, broke, cameAt>>

\* Mutant of Deliver: an event whose id is at "processing" waits until that is over.
DeliverInTurn(r) ==
    /\ alive /\ ~Redis /\ pc[r] = "publish" /\ input[r].path = "feishu"
    /\ key[id[r]] # "processing"
    /\ log' = log \cup {r}
    /\ IF key[id[r]] \in {"processed", "failed"}
       THEN Published(r, TRUE) /\ UNCHANGED key
       ELSE /\ key' = [key EXCEPT ![id[r]] = "processing"]
            /\ pc' = [pc EXCEPT ![r] = "handling"]
            /\ UNCHANGED status
    /\ UNCHANGED <<processVars, input, id, clock, faults, inDoubt, handled, broke, cameAt>>

\* ... with the collaboration consumer, up to its first call of Feishu.  "processing"
\* does not stop a second event with the id.
Deliver(r) ==
    /\ alive /\ ~Redis /\ pc[r] = "publish" /\ input[r].path = "feishu"
    /\ log' = log \cup {r}
    /\ IF key[id[r]] \in {"processed", "failed"}
       THEN Published(r, TRUE) /\ UNCHANGED key
       ELSE /\ key' = [key EXCEPT ![id[r]] = "processing"]
            /\ pc' = [pc EXCEPT ![r] = "handling"]
            /\ UNCHANGED status
    /\ UNCHANGED <<processVars, input, id, clock, faults, inDoubt, handled, broke, cameAt>>

HandlerReturns(r) ==
    /\ alive /\ pc[r] = "handling"
    /\ key' = [key EXCEPT ![id[r]] = "processed"]
    /\ handled' = handled \cup {r}
    /\ Published(r, TRUE)
    /\ UNCHANGED <<processVars, input, id, log, clock, faults, inDoubt, broke, cameAt>>

\* A failed call of Feishu is retryable and this is attempt 1 of 3: the subscriber asks
\* for a retry, and the memory broker does not look at the outcome.
HandlerThrows(r) ==
    /\ alive /\ pc[r] = "handling" /\ Fault
    /\ key' = [key EXCEPT ![id[r]] = "processing"]
    /\ broke' = broke \cup {r}
    /\ Published(r, TRUE)
    /\ UNCHANGED <<processVars, input, id, log, clock, inDoubt, handled, cameAt>>

-------------------------------------------------------------------------------
(* startFeishuEventIngress, called once.  Nothing repeats a start that failed. *)

\* XGROUP CREATE succeeds: the consume loop starts, and the long connection's start runs up
\* to the handshake; its flag says started from here on.
Subscribe ==
    /\ alive /\ start = "subscribing"
    /\ start' = "connecting" /\ conn' = "opening"
    /\ UNCHANGED <<backend, alive, listening, closers, rejected, requestVars, clock, faults>>

\* XGROUP CREATE rejects.
SubscribeFails ==
    /\ alive /\ start = "subscribing" /\ Fault
    /\ start' = "failed"
    /\ UNCHANGED <<backend, alive, listening, conn, closers, rejected, requestVars, clock>>

\* The handshake ends; close() may have closed the client meanwhile.
Connect ==
    /\ alive /\ start = "connecting"
    /\ start' = "done"
    /\ conn' = IF conn = "opening" THEN "open" ELSE conn
    /\ UNCHANGED <<backend, alive, listening, closers, rejected, requestVars, clock, faults>>

ConnectFails ==
    /\ alive /\ start = "connecting" /\ Fault
    /\ start' = "failed"
    /\ conn' = IF conn = "opening" THEN "failed" ELSE conn
    /\ UNCHANGED <<backend, alive, listening, closers, rejected, requestVars, clock>>

\* The consumer subscribes in the step that opens the long connection.
Consuming == Redis /\ conn # "none"

\* The loop that subscribe started with "void this.consume(...)" runs until the Redis client is
\* closed.  A command of it, or of the subscriber it calls, rejects: nothing catches that, and an
\* unhandled rejection ends the process, whatever it has in hand.
ConsumeRejects ==
    /\ alive /\ Consuming
    /\ alive' = FALSE /\ rejected' = TRUE
    /\ UNCHANGED <<backend, listening, start, conn, closers, requestVars, clock, faults>>

-------------------------------------------------------------------------------
(* close(), once per signal.                                               *)

Signal(c) ==
    /\ alive /\ closers[c] = "idle" /\ \A d \in 1..(c - 1) : closers[d] # "idle"
    /\ conn' = IF conn = "none" THEN conn ELSE "closed"
    /\ listening' = FALSE
    /\ closers' = [closers EXCEPT ![c] = IF listening THEN "draining" ELSE "leaving"]
    /\ UNCHANGED <<backend, alive, start, rejected, requestVars, clock, faults>>

\* server.close calls back when the last connection has ended, which is the client's to decide
\* for a body that has not come.
Drained(c) ==
    /\ alive /\ closers[c] = "draining"
    /\ \A r \in Requests : InHand(r) => input[r].method = "push"
    /\ closers' = [closers EXCEPT ![c] = "leaving"]
    /\ UNCHANGED <<backend, alive, listening, start, conn, rejected, requestVars, clock, faults>>

\* Mutant of Exit: close() does not await the server.
ExitUndrained(c) ==
    /\ alive /\ closers[c] \in {"draining", "leaving"}
    /\ alive' = FALSE
    /\ UNCHANGED <<backend, listening, start, conn, closers, rejected, requestVars, clock, faults>>

\* Redis is disconnected and the process exits.  A second close() found the server no
\* longer listening and did not wait for what the first one waits for.
Exit(c) ==
    /\ alive /\ closers[c] = "leaving"
    /\ alive' = FALSE
    /\ UNCHANGED <<backend, listening, start, conn, closers, rejected, requestVars, clock, faults>>

MillisecondPasses ==
    /\ alive /\ clock < MaxClock /\ clock' = clock + 1
    /\ UNCHANGED <<processVars, requestVars, faults>>

-------------------------------------------------------------------------------
\* Awaits on nobody, on a call with a timer, or on a handler, whose calls of Feishu have one.
Work(r) ==
    Ready(r) \/ BodyTimesOut(r) \/ DeliverToNobody(r) \/ Deliver(r) \/ HandlerReturns(r)

Next ==
    \/ \E r \in Requests :
         \/ Arrive(r) \/ Push(r) \/ ReadBody(r) \/ ClientAborts(r)
         \/ XAdd(r) \/ XAddFails(r) \/ HandlerThrows(r) \/ Work(r)
    \/ Subscribe \/ SubscribeFails \/ Connect \/ ConnectFails \/ ConsumeRejects
    \/ \E c \in Closers : Signal(c) \/ Drained(c) \/ Exit(c)
    \/ MillisecondPasses

Spec == Init /\ [][Next]_vars

\* What the code itself sees to: withTimeout around PING, requestTimeout while the server listens
\* and the time-outs of fetch in the handler.  No fairness for clients that send or go away, for
\* XADD (the Redis client has no command timeout), for the shutdown or for faults.
FairSpec == Spec /\ \A r \in Requests : WF_vars(Work(r))

-------------------------------------------------------------------------------
(* Properties.                                                             *)

\* The types, and that a request has an answer exactly when it is through and an event
\* id before its event goes anywhere.
TypeOK ==
    /\ backend \in Backends /\ {alive, listening, rejected} \subseteq BOOLEAN
    /\ start \in {"subscribing", "connecting", "done", "failed"}
    /\ conn \in {"none", "opening", "open", "failed", "closed"}
    /\ closers \in [Closers -> {"idle", "draining", "leaving"}]
    /\ input \in [Requests -> Inputs \cup {Pushed(m) : m \in Messages}]
    /\ pc \in [Requests -> {"new", "body", "ping", "publish", "handling", "answered"}]
    /\ status \in [Requests -> {0, 200, 202, 400, 404, 405, 408, 413, 500, 503}]
    /\ \A r \in Requests : (pc[r] = "answered") <=> (status[r] # 0)
    /\ \A r \in log : id[r] # <<>>
    /\ key \in [MessageIds -> {NoKey, "processing", "processed", "failed"}]
    /\ cameAt \in [Requests -> 0..MaxClock]
    /\ clock \in 0..MaxClock /\ faults \in 0..MaxFaults
    /\ inDoubt \cup handled \cup broke \subseteq log

\* The answer to a webhook tells whether its event is with the broker: 202 only if it is,
\* and anything else, on which the sender repeats the request under a new event id, only
\* if it is not or the reply of Redis was lost (EventIngressService.handle).
AnswerTellsPublished ==
    \A r \in Requests : pc[r] = "answered" /\ input[r].method # "push" =>
        /\ status[r] = 202 => r \in log
        /\ r \in log => status[r] = 202 \/ r \in inDoubt

\* With the memory broker a click or reply that was confirmed reached the handler of the
\* collaboration agent, unless it came in the millisecond of another one for its message
\* that did (callback-event-publisher.ts:11).
ConfirmedReachesHandler ==
    \A r \in Requests :
        backend = "memory" /\ pc[r] = "answered" /\ r \in log /\ input[r].path = "feishu" =>
            \/ r \in handled \cup broke
            \/ \E q \in handled \cup broke :
                 q # r /\ input[q].message = input[r].message /\ cameAt[q] = cameAt[r]

\* The process ends without an answer for each of its HTTP requests only if a second signal
\* came, whose close() finds the server not listening and exits (service-runtime.ts:173), or if
\* the consume loop rejected (redis-streams-event-broker.ts:79).
DrainedBeforeExit ==
    ~alive /\ (\E r \in Requests : InHand(r) /\ input[r].method # "push") =>
        rejected \/ \A c \in Closers : c <= 2 => closers[c] # "idle"

\* Two awaits that nothing limits: for a body once the server is closing (fde-http-server.ts:50),
\* and for XADD (redis.ts:36).
Unlimited(r) ==
    \/ pc[r] = "body" /\ ~listening
    \/ pc[r] = "publish" /\ Redis

\* Every request and push the process has taken is answered in the end, whatever fails and
\* whoever goes quiet, while the process lives and it does not come to one of the awaits that
\* nothing limits.
TakenIsAnswered ==
    \A r \in Requests : InHand(r) ~> (pc[r] = "answered" \/ ~alive \/ Unlimited(r))
================================================================================
