-------------------------- MODULE CollaborationAgent ---------------------------
(***************************************************************************)
(* The collaboration agent: five handlers behind one queue, their          *)
(* idempotency keys, the progress records, and the Feishu connector they   *)
(* call.  One process serves the queue; a step is one awaited call of a    *)
(* handler, and each awaited call may be rejected, applied or not.         *)
(*                                                                         *)
(* The queue appears by what EventDelivery shows of it: an entry is        *)
(* delivered until its handler returns or its attempts are used up, and a  *)
(* crash leaves it pending.  Texts, timestamps and card layout are left    *)
(* out; an id is a member of a small set.                                  *)
(***************************************************************************)
EXTENDS Naturals, Sequences, FiniteSets

CONSTANTS Ids,          \* message and notification ids
          NoId,         \* an absent id, text or action
          Targets,      \* where escalation notices can be sent
          Fallback,     \* options.escalationTarget, or NoId
          RecordsKept,  \* an artifact store is configured
          Arrivals,     \* events the outside publishes
          MaxAttempts,  \* SubscribeOptions.max_attempts
          MaxArrivals,  \* bound: events published from outside
          MaxFailures   \* bound: rejected calls, revoked tokens and crashes

EventType == {"click", "reply", "sent", "timeout", "triggered"}

\* The fields of the five payloads the handlers read.  "say" is the action type of a
\* click and the classification of a reply; only a result has an escalation_message_id.
Event == {e \in [type : EventType, ntf : Ids \cup {NoId}, msg : Ids \cup {NoId},
                 esc : Ids \cup {NoId}, to : Targets \cup {NoId},
                 say : {"acknowledge", "claim", "mark_fixed", "open_url", "escalate",
                        "effective", "ineffective", NoId}] :
             e.esc # NoId => e.type = "sent"}

ASSUME CollaborationAssumption ==
    /\ NoId \notin Ids \cup Targets
    /\ Fallback \in Targets \cup {NoId}
    /\ RecordsKept \in BOOLEAN
    /\ Arrivals \subseteq Event
    /\ MaxAttempts \in Nat \ {0}
    /\ MaxArrivals \in Nat /\ MaxFailures \in Nat

VARIABLES queue,     \* the entries of agent.collaboration, with their deliveries
          key,       \* the idempotency keys that were ever set
          record,    \* progress-record.json, by scope
          progress,  \* published collaboration.progress.updated events
          token,     \* tokenCache of the connector: "none", "valid" or "revoked"
          pc,        \* the await the handler is at
          cur,       \* the entry in hand, 0 when idle
          result,    \* what sendCard returned
          arrivals, faults, crashes

\* What has happened at Feishu, for stating properties: no action reads these.
VARIABLES cards,     \* number of escalation notices posted, by key
          refused,   \* keys for which sendCard returned "failed"
          abandoned  \* keys left in "processing" by a crash or a rejected set

queueVars == <<queue, arrivals>>
history == <<cards, refused, abandoned>>
vars == <<queue, key, record, progress, token, pc, cur, result, arrivals, faults, crashes,
          cards, refused, abandoned>>

Init ==
    /\ queue = <<>>
    /\ key = [k \in {} |-> "none"]
    /\ record = [s \in Ids |-> NoId]
    /\ progress = {}
    /\ token = "none"
    /\ pc = "idle"
    /\ cur = 0
    /\ result = "none"
    /\ arrivals = 0 /\ faults = 0 /\ crashes = 0
    /\ cards = [k \in {} |-> 0]
    /\ refused = {}
    /\ abandoned = {}

-------------------------------------------------------------------------------
(* Reading an event.                                                       *)

Or(id, default) == IF id # NoId THEN id ELSE default

Target(e) == Or(e.to, Fallback)
Scope(e) == Or(e.ntf, e.msg)

\* A result that carries escalation_message_id is filed under the original message.
ProgressMessage(e) == Or(e.esc, e.msg)

Wanted(e) ==
    CASE e.type = "click" -> e.say \in {"acknowledge", "claim", "mark_fixed"} /\ e.msg # NoId
      [] e.type = "reply" -> e.say # NoId
      [] e.type \in {"sent", "timeout"} -> e.msg # NoId
      [] e.type = "triggered" -> Target(e) # NoId

\* Replies have no key.
KeyOf(e) ==
    CASE e.type = "click" -> <<"action", e.msg, e.say>>
      [] e.type = "sent" -> <<"sent", Or(e.ntf, ProgressMessage(e)),
                              IF e.esc # NoId THEN "escalated" ELSE "unread", ProgressMessage(e)>>
      [] e.type = "timeout" -> <<"timeout", Scope(e)>>
      [] e.type = "triggered" -> <<"escalation", Scope(e), Target(e)>>

Status(e) ==
    CASE e.type = "click" -> CASE e.say = "claim" -> "investigating"
                               [] e.say = "mark_fixed" -> "fixed"
                               [] OTHER -> "acknowledged"
      [] e.type = "reply" -> IF e.say = "effective" THEN "investigating" ELSE "ineffective_reply"
      [] e.type = "sent" -> IF e.esc # NoId THEN "escalated" ELSE "unread"
      [] e.type = "timeout" -> "needs_escalation"

\* Clicks and replies know the message only, so their record is not the notification's.
Progress(e) == [ntf |-> IF e.type \in {"click", "reply"} THEN NoId ELSE e.ntf,
                msg |-> ProgressMessage(e), status |-> Status(e)]

EscalationOf(e) == [e EXCEPT !.type = "triggered", !.esc = NoId, !.to = NoId, !.say = NoId]

\* Feishu may answer without a message id.
ResultOf(e) == [e EXCEPT !.type = "sent", !.esc = e.msg, !.to = NoId,
                         !.msg = IF result = "sent" THEN e.msg ELSE NoId]

-------------------------------------------------------------------------------
(* The queue.                                                              *)

Ev == queue[cur].event

Entry(e) == [event |-> e, state |-> "waiting", deliveries |-> 0]
Enqueue(e) == queue' = Append(queue, Entry(e))

Goto(step) == pc' = step

KeyState(k) == IF k \in DOMAIN key THEN key[k] ELSE "none"
SetKey(k, state) == key' = [j \in DOMAIN key \cup {k} |-> IF j = k THEN state ELSE key[j]]

Processing == Ev.type # "reply" /\ KeyState(KeyOf(Ev)) = "processing"

MayFail == faults + crashes < MaxFailures
Fault == MayFail /\ faults' = faults + 1

Arrive ==
    /\ arrivals < MaxArrivals
    /\ arrivals' = arrivals + 1
    /\ \E e \in Arrivals : Enqueue(e)
    /\ UNCHANGED <<key, record, progress, token, history, pc, cur, result, faults, crashes>>

\* New entries come in order, reclaimed ones at any time.
Deliverable(i) ==
    /\ queue[i].state = "waiting"
    /\ queue[i].deliveries = 0 => \A j \in 1..(i - 1) : queue[j].deliveries > 0

FirstStep(e) ==
    IF ~Wanted(e) THEN "return" ELSE IF e.type = "reply" THEN "record" ELSE "lookup"

Deliver ==
    /\ pc = "idle"
    /\ \E i \in DOMAIN queue :
         /\ Deliverable(i)
         /\ queue' = [queue EXCEPT ![i].deliveries = @ + 1]
         /\ cur' = i
         /\ Goto(FirstStep(queue[i].event))
    /\ UNCHANGED <<key, record, progress, token, history, result, arrivals, faults, crashes>>

\* Mutant of Leave: the entry that was settled stays in hand.
LeaveWithEntry(state) ==
    /\ queue' = [queue EXCEPT ![cur].state = state]
    /\ result' = "none"
    /\ Goto("idle")
    /\ UNCHANGED <<key, record, progress, cards, refused, cur, arrivals, faults>>

Leave(state) ==
    /\ queue' = [queue EXCEPT ![cur].state = state]
    /\ cur' = 0
    /\ result' = "none"
    /\ Goto("idle")
    /\ UNCHANGED <<key, record, progress, cards, refused, arrivals, faults>>

Return == pc = "return" /\ Leave("acked") /\ UNCHANGED <<token, abandoned, crashes>>

\* A reclaimed entry is numbered one less than its deliveries, see EventDelivery.
Attempt == IF queue[cur].deliveries = 1 THEN 1 ELSE queue[cur].deliveries - 1

Throw ==
    /\ pc = "throw"
    /\ Leave(IF Attempt < MaxAttempts THEN "waiting" ELSE "dead")
    /\ UNCHANGED <<token, abandoned, crashes>>

Crash ==
    /\ pc # "idle" /\ MayFail
    /\ crashes' = crashes + 1
    /\ token' = "none"
    /\ abandoned' = IF Processing THEN abandoned \cup {KeyOf(Ev)} ELSE abandoned
    /\ Leave("waiting")

-------------------------------------------------------------------------------
(* The idempotency keys.                                                   *)

\* Mutant of Taken: a key left in processing is taken up again.
TakenOnlyProcessed(k) == KeyState(k) = "processed"

Taken(k) == KeyState(k) \in {"processed", "processing"}

LookUp ==
    /\ pc = "lookup"
    /\ Goto(IF Taken(KeyOf(Ev)) THEN "return" ELSE "mark")
    /\ UNCHANGED <<key, record, progress, token, history, queueVars, cur, result, faults, crashes>>

AfterMark(e) == IF e.type \in {"sent", "timeout"} THEN "record" ELSE "token"

Mark ==
    /\ pc = "mark"
    /\ SetKey(KeyOf(Ev), "processing")
    /\ Goto(AfterMark(Ev))
    /\ UNCHANGED <<record, progress, token, history, queueVars, cur, result, faults, crashes>>

\* get and the first set are outside the try block: a rejection is thrown as it is, and
\* the set may have been applied.
LookUpFails ==
    /\ pc = "lookup" /\ Fault
    /\ Goto("throw")
    /\ UNCHANGED <<key, record, progress, token, history, queueVars, cur, result, crashes>>

MarkFails ==
    /\ pc = "mark" /\ Fault
    /\ \/ SetKey(KeyOf(Ev), "processing") /\ abandoned' = abandoned \cup {KeyOf(Ev)}
       \/ UNCHANGED <<key, abandoned>>
    /\ Goto("throw")
    /\ UNCHANGED <<record, progress, token, cards, refused, queueVars, cur, result, crashes>>

\* Mutant of Commit: a refused notice counts as processed.
CommitAlways ==
    /\ pc = "commit"
    /\ SetKey(KeyOf(Ev), "processed")
    /\ Goto("return")
    /\ UNCHANGED <<record, progress, token, history, queueVars, cur, result, faults, crashes>>

Commit ==
    /\ pc = "commit"
    /\ SetKey(KeyOf(Ev), IF result = "failed" THEN "failed" ELSE "processed")
    /\ Goto("return")
    /\ UNCHANGED <<record, progress, token, history, queueVars, cur, result, faults, crashes>>

CommitFails ==
    /\ pc = "commit" /\ Fault
    /\ SetKey(KeyOf(Ev), IF result = "failed" THEN "failed" ELSE "processed") \/ UNCHANGED key
    /\ Goto("caught")
    /\ UNCHANGED <<record, progress, token, history, queueVars, cur, result, crashes>>

\* Mutant of Catch: the key stays in processing.
CatchKeepsKey ==
    /\ pc = "caught"
    /\ Goto("throw")
    /\ UNCHANGED <<key, record, progress, token, history, queueVars, cur, result, faults, crashes>>

Catch ==
    /\ pc = "caught"
    /\ SetKey(KeyOf(Ev), "failed")
    /\ Goto("throw")
    /\ UNCHANGED <<record, progress, token, history, queueVars, cur, result, faults, crashes>>

\* The set of the catch block is rejected too, as in an outage of Redis: "processing" stays.
CatchFails ==
    /\ pc = "caught" /\ Fault
    /\ abandoned' = IF Processing THEN abandoned \cup {KeyOf(Ev)} ELSE abandoned
    /\ Goto("throw")
    /\ UNCHANGED <<key, record, progress, token, cards, refused, queueVars, cur, result, crashes>>

\* A reply has no key and no try block.
Raise(e) == Goto(IF e.type = "reply" THEN "throw" ELSE "caught")

-------------------------------------------------------------------------------
(* publishProgressUpdated and the events of the escalation chain.          *)

RecordScope(p) == Or(p.ntf, p.msg)

WriteRecord ==
    /\ pc = "record"
    /\ record' = IF RecordsKept
                 THEN [record EXCEPT ![RecordScope(Progress(Ev))] = Status(Ev)]
                 ELSE record
    /\ Goto("progress")
    /\ UNCHANGED <<key, progress, token, history, queueVars, cur, result, faults, crashes>>

WriteRecordFails ==
    /\ pc = "record" /\ RecordsKept /\ Fault
    /\ Raise(Ev)
    /\ UNCHANGED <<key, record, progress, token, history, queueVars, cur, result, crashes>>

\* Mutant of AfterProgress: the timeout handler does not trigger the escalation.
AfterProgressCommits(e) == IF e.type = "reply" THEN "return" ELSE "commit"

AfterProgress(e) ==
    CASE e.type = "timeout" -> "escalate"
      [] e.type = "reply" -> "return"
      [] OTHER -> "commit"

PublishProgress ==
    /\ pc = "progress"
    /\ progress' = progress \cup {Progress(Ev)}
    /\ Goto(AfterProgress(Ev))
    /\ UNCHANGED <<key, record, token, history, queueVars, cur, result, faults, crashes>>

PublishProgressFails ==
    /\ pc = "progress" /\ Fault
    /\ progress' = progress \cup {Progress(Ev)} \/ UNCHANGED progress
    /\ Raise(Ev)
    /\ UNCHANGED <<key, record, token, history, queueVars, cur, result, crashes>>

Escalate ==
    /\ pc = "escalate"
    /\ Enqueue(EscalationOf(Ev))
    /\ Goto("commit")
    /\ UNCHANGED <<key, record, progress, token, history, arrivals, cur, result, faults, crashes>>

EscalateFails ==
    /\ pc = "escalate" /\ Fault
    /\ Enqueue(EscalationOf(Ev)) \/ UNCHANGED queue
    /\ Raise(Ev)
    /\ UNCHANGED <<key, record, progress, token, history, arrivals, cur, result, crashes>>

\* Mutant of PublishResult: a refused notice is announced as sent.
PublishResultAlways ==
    /\ pc = "result"
    /\ Enqueue([ResultOf(Ev) EXCEPT !.msg = Ev.msg])
    /\ Goto("commit")
    /\ UNCHANGED <<key, record, progress, token, history, arrivals, cur, result, faults, crashes>>

\* collaboration.notification.failed has no subscriber.
PublishResult ==
    /\ pc = "result"
    /\ IF result = "failed" THEN UNCHANGED queue ELSE Enqueue(ResultOf(Ev))
    /\ Goto("commit")
    /\ UNCHANGED <<key, record, progress, token, history, arrivals, cur, result, faults, crashes>>

PublishResultFails ==
    /\ pc = "result" /\ Fault
    /\ \/ result # "failed" /\ Enqueue(ResultOf(Ev))
       \/ UNCHANGED queue
    /\ Goto("caught")
    /\ UNCHANGED <<key, record, progress, token, history, arrivals, cur, result, crashes>>

-------------------------------------------------------------------------------
(* OpenApiFeishuConnector: updateCard throws, sendCard returns its failure. *)

FetchToken ==
    /\ pc = "token"
    /\ token' = IF token = "none" THEN "valid" ELSE token
    /\ Goto("call")
    /\ UNCHANGED <<key, record, progress, history, queueVars, cur, result, faults, crashes>>

CallFails ==
    IF Ev.type = "click"
    THEN Raise(Ev) /\ UNCHANGED <<result, refused>>
    ELSE /\ result' = "failed"
         /\ refused' = refused \cup {KeyOf(Ev)}
         /\ Goto("result")

FetchTokenFails ==
    /\ pc = "token" /\ token = "none" /\ Fault
    /\ CallFails
    /\ UNCHANGED <<key, record, progress, token, cards, abandoned, queueVars, cur, crashes>>

Posted(k) == IF k \in DOMAIN cards THEN cards[k] ELSE 0
Post(k) == cards' = [j \in DOMAIN cards \cup {k} |-> IF j = k THEN Posted(k) + 1 ELSE cards[j]]

UpdateCard ==
    /\ pc = "call" /\ Ev.type = "click" /\ token = "valid"
    /\ Goto("record")
    /\ UNCHANGED <<key, record, progress, token, history, queueVars, cur, result, faults, crashes>>

SendCard ==
    /\ pc = "call" /\ Ev.type = "triggered" /\ token = "valid"
    /\ Post(KeyOf(Ev))
    /\ result' \in {"sent", "sent_without_id"}
    /\ Goto("result")
    /\ UNCHANGED <<key, record, progress, token, refused, abandoned, queueVars, cur, faults, crashes>>

\* The request or its answer is lost: a card may have been posted.
RequestFails ==
    /\ pc = "call" /\ Fault
    /\ CallFails
    /\ \/ Ev.type = "triggered" /\ token = "valid" /\ Post(KeyOf(Ev))
       \/ UNCHANGED cards
    /\ UNCHANGED <<key, record, progress, token, abandoned, queueVars, cur, crashes>>

\* Feishu rejects the token; the cache keeps it until its hour is over.
TokenRejected ==
    /\ pc = "call" /\ token = "revoked"
    /\ CallFails
    /\ UNCHANGED <<key, record, progress, token, cards, abandoned, queueVars, cur, faults, crashes>>

RevokeToken ==
    /\ token = "valid" /\ Fault
    /\ token' = "revoked"
    /\ UNCHANGED <<key, record, progress, history, queueVars, pc, cur, result, crashes>>

\* The cached token is an hour old.
TokenExpires ==
    /\ token # "none" /\ pc # "call"
    /\ token' = "none"
    /\ UNCHANGED <<key, record, progress, history, queueVars, pc, cur, result, faults, crashes>>

-------------------------------------------------------------------------------

Keys == LookUp \/ LookUpFails \/ Mark \/ MarkFails \/ Commit \/ CommitFails \/ Catch \/ CatchFails

Publishes ==
    \/ WriteRecord \/ WriteRecordFails \/ PublishProgress \/ PublishProgressFails
    \/ Escalate \/ EscalateFails \/ PublishResult \/ PublishResultFails

Calls ==
    \/ FetchToken \/ FetchTokenFails \/ UpdateCard \/ SendCard \/ RequestFails \/ TokenRejected

Handle == Deliver \/ Keys \/ Publishes \/ Calls \/ Return \/ Throw

Next == Arrive \/ Handle \/ Crash \/ RevokeToken \/ TokenExpires

Spec == Init /\ [][Next]_vars

\* The event loop resumes a settled await and entries left pending become idle and are
\* reclaimed; nothing makes an event arrive, a call fail or the process crash.
FairSpec == Spec /\ WF_vars(Handle)
-------------------------------------------------------------------------------
(* Properties.                                                             *)

Step == {"idle", "lookup", "mark", "token", "call", "record", "progress", "escalate", "result",
         "commit", "caught", "return", "throw"}

\* Types, and that the handler has an entry in hand exactly when it is not idle.
TypeOK ==
    /\ queue \in Seq([event : Event, state : {"waiting", "acked", "dead"}, deliveries : Nat])
    /\ \A k \in DOMAIN key : key[k] \in {"processing", "processed", "failed"}
    /\ record \in [Ids -> {"unread", "acknowledged", "investigating", "fixed",
                           "ineffective_reply", "needs_escalation", "escalated", NoId}]
    /\ token \in {"none", "valid", "revoked"}
    /\ pc \in Step
    /\ cur \in 0..Len(queue) /\ (cur = 0 <=> pc = "idle")
    /\ cur > 0 => queue[cur].state = "waiting"
    /\ result \in {"none", "sent", "sent_without_id", "failed"}
    /\ arrivals \in 0..MaxArrivals /\ faults \in Nat /\ crashes \in Nat /\ faults + crashes <= MaxFailures
    /\ refused \cup abandoned \subseteq DOMAIN key

EventsIn(state) == {queue[i].event : i \in {j \in DOMAIN queue : queue[j].state = state}}
Known == {queue[i].event : i \in DOMAIN queue}
ScopesOf(type) == {Scope(e) : e \in {f \in Known : f.type = type}} \ {NoId}

\* Two updates that say the same of the same record.
SameUpdate(p, q) == RecordScope(p) = RecordScope(q) /\ p.msg = q.msg /\ p.status = q.status

\* What the handler of a keyed event is there for, by what its key tells apart: two events
\* with one key ask for one effect.
Done(e) ==
    CASE e.type = "timeout" -> Scope(e) \in ScopesOf("triggered")
      [] e.type = "triggered" -> Posted(KeyOf(e)) > 0
      [] OTHER -> \E p \in progress : SameUpdate(p, Progress(e))

\* An event with a key is acknowledged only after its effect, or after Feishu refused the
\* notice, or when its key was left in "processing": by a crash, or by a rejected set that
\* was applied or was to undo it.  A single failing call anywhere else loses nothing.
AckedMeansDone ==
    \A e \in EventsIn("acked") :
        Wanted(e) /\ e.type # "reply" =>
            Done(e) \/ KeyOf(e) \in refused \cup abandoned

\* A key in "processed" stands for an effect that did take place, so skipping a duplicate
\* (a second timeout, a second click) skips nothing; a refused notice is not "processed"
\* and the next escalation of the notification tries again.
ProcessedMeansDone ==
    \A e \in Known : Wanted(e) /\ e.type # "reply" /\ KeyState(KeyOf(e)) = "processed" => Done(e)

\* An escalation notice is posted once to a target, plus at most once for each call that
\* failed after or while posting it; redeliveries, duplicate timeouts and crashes add none.
NoticesBounded == \A k \in DOMAIN cards : cards[k] <= 1 + faults

\* The handlers and their events together implement the chain timeout - escalation - notice
\* - report: no stage is reached without the one before, however runs fail and repeat.
Chain == INSTANCE EscalationChain WITH
    Scopes <- Ids,
    timedOut <- ScopesOf("timeout"),
    triggered <- ScopesOf("triggered"),
    carded <- {k[2] : k \in DOMAIN cards},
    reported <- {Or(p.ntf, p.msg) : p \in {q \in progress : q.status = "escalated"}}
RefinesEscalationChain == Chain!Spec

\* A timeout leads to a notice in the end, unless Feishu refused it, the attempts of the
\* timeout or of the escalation ran out, or one of their keys was left in "processing".
TimeoutAnswered ==
    \A s \in Ids :
        s \in ScopesOf("timeout") ~>
            \/ \E k \in DOMAIN cards \cup refused \cup abandoned : k[2] = s
            \/ \E e \in EventsIn("dead") : e.type \in {"timeout", "triggered"} /\ Scope(e) = s
================================================================================
