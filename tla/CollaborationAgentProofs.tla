------------------------ MODULE CollaborationAgentProofs ------------------------
(***************************************************************************)
(* Proofs about CollaborationAgent, for any ids, targets and events from   *)
(* outside, every attempt limit and any number of failing calls and        *)
(* crashes.                                                                *)
(***************************************************************************)
EXTENDS CollaborationAgent, SequenceTheorems, TLAPS

USE CollaborationAssumption

-------------------------------------------------------------------------------
(* The inductive invariant.                                                *)

Keyed(e) == Wanted(e) /\ e.type # "reply"

\* The awaits of a handler before and after it has claimed its key, in the try block.
Claimed == {"token", "call", "record", "progress", "escalate", "result", "commit", "caught"}
Claiming == {"lookup", "mark"}

\* Which handler is at which await, and what it may have from sendCard.
Stage ==
    /\ pc \in Claiming \cup Claimed => Wanted(Ev)
    /\ pc \in (Claiming \cup Claimed) \ {"record", "progress"} => Ev.type # "reply"
    /\ pc \in {"token", "call"} => Ev.type \in {"click", "triggered"}
    /\ pc \in {"record", "progress"} => Ev.type # "triggered"
    /\ pc = "escalate" => Ev.type = "timeout"
    /\ pc = "result" => Ev.type = "triggered" /\ result # "none"
    /\ pc \in Claiming \cup {"idle", "token", "call", "record", "progress", "escalate"} => result = "none"
    /\ pc = "commit" => (result = "none" <=> Ev.type # "triggered")

\* The handler in hand holds its key; any other key in "processing" was left there.
HoldsKey(k) == pc \in Claimed /\ Ev.type # "reply" /\ KeyOf(Ev) = k
HeldKeys ==
    /\ pc = "mark" => ~Taken(KeyOf(Ev))
    /\ pc \in Claimed /\ Ev.type # "reply" =>
         KeyOf(Ev) \in DOMAIN key /\ (pc # "caught" => key[KeyOf(Ev)] = "processing")
    /\ \A k \in DOMAIN key : key[k] = "processing" => k \in abandoned \/ HoldsKey(k)
    /\ pc \in Claimed /\ result = "failed" => KeyOf(Ev) \in refused

\* An effect comes before the key says so, and before the entry is acknowledged.
Settled(e) == Keyed(e) => Done(e) \/ KeyOf(e) \in refused \cup abandoned
Effects ==
    /\ \A e \in Event : Keyed(e) /\ KeyState(KeyOf(e)) = "processed" => Done(e)
    /\ pc = "result" => result = "failed" \/ Posted(KeyOf(Ev)) > 0
    /\ pc = "commit" => result = "failed" \/ Done(Ev)
    /\ pc = "return" => Settled(Ev)
    /\ \A i \in DOMAIN queue : queue[i].state = "acked" => Settled(queue[i].event)

\* A second notice under a key is paid for by a failed call.
Notices ==
    /\ \A k \in DOMAIN cards : cards[k] \in Nat /\ cards[k] <= 1 + faults
    /\ \A k \in DOMAIN cards : ~Taken(k) => cards[k] <= faults
    /\ pc \in {"token", "call", "caught"} => Posted(KeyOf(Ev)) <= faults
    /\ pc \in Claimed /\ result = "failed" => Posted(KeyOf(Ev)) <= faults

IInv == TypeOK /\ Stage /\ HeldKeys /\ Effects /\ Notices

Stages == {k[2] : k \in DOMAIN cards}

\* Escalations start here: nobody outside triggers one or reports its notice.
StartedHere == \A e \in Arrivals : e.type # "triggered" /\ e.esc = NoId

ChainInv ==
    /\ \A k \in DOMAIN cards : k[2] \in ScopesOf("triggered")
    /\ \A e \in Known :
         /\ e.type = "triggered" => e.msg # NoId /\ Scope(e) \in ScopesOf("timeout")
         /\ e.type = "sent" /\ e.esc # NoId => Or(e.ntf, e.esc) \in Stages

-------------------------------------------------------------------------------
(* Events and their keys.                                                  *)

\* The fields of an event, and which events carry an escalation.
LEMMA EventFields ==
    ASSUME NEW e \in Event
    PROVE  /\ e.type \in EventType /\ e.ntf \in Ids \cup {NoId} /\ e.msg \in Ids \cup {NoId}
           /\ e.esc \in Ids \cup {NoId} /\ e.to \in Targets \cup {NoId}
           /\ e.esc # NoId => e.type = "sent"
           /\ Scope(e) \in Ids \cup {NoId}
BY DEF Event, Scope, Or

\* What the handlers publish are events they read.
LEMMA DerivedEvents ==
    ASSUME NEW e \in Event
    PROVE  /\ EscalationOf(e) \in Event /\ EscalationOf(e).type = "triggered"
           /\ EscalationOf(e).ntf = e.ntf /\ EscalationOf(e).msg = e.msg
           /\ ResultOf(e) \in Event /\ ResultOf(e).type = "sent"
           /\ ResultOf(e).ntf = e.ntf /\ ResultOf(e).esc = e.msg
BY DEF Event, EscalationOf, ResultOf, EventType

\* The keys, type by type.
LEMMA KeysByType ==
    ASSUME NEW e \in Event
    PROVE  /\ e.type = "click" => KeyOf(e) = <<"action", e.msg, e.say>>
           /\ e.type = "sent" =>
                KeyOf(e) = <<"sent", Or(e.ntf, ProgressMessage(e)),
                             IF e.esc # NoId THEN "escalated" ELSE "unread", ProgressMessage(e)>>
           /\ e.type = "timeout" => KeyOf(e) = <<"timeout", Scope(e)>>
           /\ e.type = "triggered" => KeyOf(e) = <<"escalation", Scope(e), Target(e)>>
BY DEF KeyOf

\* What an event has to bring about, type by type.
LEMMA DoneByType ==
    ASSUME NEW e \in Event
    PROVE  /\ e.type = "timeout" => (Done(e) <=> Scope(e) \in ScopesOf("triggered"))
           /\ e.type = "triggered" => (Done(e) <=> Posted(KeyOf(e)) > 0)
           /\ e.type \in {"click", "sent", "reply"} =>
                (Done(e) <=> \E p \in progress : SameUpdate(p, Progress(e)))
BY DEF Done

\* A key begins with its handler, so that two handlers never share one.
LEMMA KeyTells ==
    ASSUME NEW e \in Event, e.type # "reply"
    PROVE  KeyOf(e)[1] = CASE e.type = "click" -> "action"
                           [] e.type = "triggered" -> "escalation"
                           [] OTHER -> e.type
<1>1. CASE e.type = "click"
  BY <1>1, KeysByType
<1>2. CASE e.type = "sent"
  BY <1>2, KeysByType
<1>3. CASE e.type = "timeout"
  BY <1>3, KeysByType
<1>4. CASE e.type = "triggered"
  BY <1>4, KeysByType
<1>5. QED BY <1>1, <1>2, <1>3, <1>4, EventFields DEF EventType

\* Events with one key are of one type and ask for one effect.
LEMMA SameKeySameEffect ==
    ASSUME NEW e \in Event, NEW f \in Event, Keyed(e), Keyed(f), KeyOf(e) = KeyOf(f)
    PROVE  e.type = f.type /\ (Done(e) <=> Done(f))
<1>1. e.type = f.type /\ e.type \in EventType \ {"reply"}
  BY KeyTells, EventFields DEF Keyed, EventType
<1>2. CASE e.type = "triggered"
  BY <1>1, <1>2, DoneByType
<1>3. CASE e.type = "timeout"
  <2>0. \A g \in {e, f} : KeyOf(g) = <<"timeout", Scope(g)>>
    BY <1>1, <1>3, KeysByType
  <2>1. Scope(e) = Scope(f)
    BY <2>0
  <2>2. QED BY <1>1, <1>3, <2>1, DoneByType
<1>4. CASE e.type = "click"
  <2>0. \A g \in {e, f} : KeyOf(g) = <<"action", g.msg, g.say>>
    BY <1>1, <1>4, KeysByType
  <2>1. e.msg = f.msg /\ e.say = f.say
    BY <2>0
  <2>2. e.esc = NoId /\ f.esc = NoId
    BY <1>1, <1>4, EventFields
  <2>3. Status(e) = Status(f) /\ ProgressMessage(e) = ProgressMessage(f)
    BY <1>1, <1>4, <2>1, <2>2 DEF Status, ProgressMessage
  <2>4. Progress(e) = Progress(f)
    BY <1>1, <1>4, <2>3 DEF Progress
  <2>5. QED BY <1>1, <1>4, <2>4, DoneByType
<1>5. CASE e.type = "sent"
  <2>0. \A g \in {e, f} :
          KeyOf(g) = <<"sent", Or(g.ntf, ProgressMessage(g)),
                       IF g.esc # NoId THEN "escalated" ELSE "unread", ProgressMessage(g)>>
    BY <1>1, <1>5, KeysByType
  <2>1. /\ Or(e.ntf, ProgressMessage(e)) = Or(f.ntf, ProgressMessage(f))
        /\ ProgressMessage(e) = ProgressMessage(f)
        /\ (e.esc # NoId) <=> (f.esc # NoId)
    BY <2>0
  <2>2. Status(e) = Status(f)
    BY <1>1, <1>5, <2>1 DEF Status
  <2>3. \A p : SameUpdate(p, Progress(e)) <=> SameUpdate(p, Progress(f))
    BY <1>1, <1>5, <2>1, <2>2 DEF SameUpdate, Progress, RecordScope
  <2>4. QED BY <1>1, <1>5, <2>3, DoneByType
<1>6. QED BY <1>1, <1>2, <1>3, <1>4, <1>5 DEF EventType

-------------------------------------------------------------------------------
(* The queue.                                                              *)

EntryType == [event : Event, state : {"waiting", "acked", "dead"}, deliveries : Nat]

\* A queue is a sequence of entries.
LEMMA QueueShape ==
    ASSUME queue \in Seq(EntryType)
    PROVE  /\ Len(queue) \in Nat /\ DOMAIN queue = 1..Len(queue)
           /\ \A i \in DOMAIN queue :
                /\ queue[i] \in EntryType /\ queue[i].event \in Event
                /\ queue[i].deliveries \in Nat
<1>1. Len(queue) \in Nat /\ DOMAIN queue = 1..Len(queue)
  BY LenProperties
<1>2. \A i \in DOMAIN queue : queue[i] \in EntryType
  BY <1>1, ElementOfSeq
<1>3. QED BY <1>1, <1>2 DEF EntryType

\* A new entry goes to the end and leaves the others as they are.
LEMMA Enqueued ==
    ASSUME queue \in Seq(EntryType), NEW e \in Event, Enqueue(e)
    PROVE  /\ queue' \in Seq(EntryType)
           /\ Len(queue') = Len(queue) + 1
           /\ DOMAIN queue' = DOMAIN queue \cup {Len(queue) + 1}
           /\ \A i \in DOMAIN queue : queue'[i] = queue[i]
           /\ queue'[Len(queue) + 1] = Entry(e)
           /\ Known' = Known \cup {e}
<1>1. Entry(e) \in EntryType /\ Entry(e).event = e
  BY DEF Entry, EntryType
<1>2. queue' = Append(queue, Entry(e))
  BY DEF Enqueue
<1>3. /\ queue' \in Seq(EntryType) /\ Len(queue') = Len(queue) + 1
      /\ \A i \in 1..Len(queue) : queue'[i] = queue[i]
      /\ queue'[Len(queue) + 1] = Entry(e)
  BY <1>1, <1>2, AppendProperties
<1>4. DOMAIN queue' = DOMAIN queue \cup {Len(queue) + 1}
  BY <1>3, LenProperties
<1>5. DOMAIN queue = 1..Len(queue)
  BY LenProperties
<1>6. Known' = Known \cup {e}
  BY <1>1, <1>3, <1>4, <1>5 DEF Known
<1>7. QED BY <1>3, <1>4, <1>5, <1>6

\* Only the state or the count of an entry changes in place.
LEMMA Replaced ==
    ASSUME queue \in Seq(EntryType), NEW i \in DOMAIN queue, NEW entry \in EntryType,
           queue' = [queue EXCEPT ![i] = entry], entry.event = queue[i].event
    PROVE  /\ queue' \in Seq(EntryType)
           /\ Len(queue') = Len(queue) /\ DOMAIN queue' = DOMAIN queue
           /\ \A j \in DOMAIN queue : queue'[j] = IF j = i THEN entry ELSE queue[j]
           /\ Known' = Known
<1>1. i \in 1..Len(queue) /\ DOMAIN queue = 1..Len(queue)
  BY LenProperties
<1>2. /\ queue' \in Seq(EntryType) /\ Len(queue') = Len(queue)
      /\ \A j \in 1..Len(queue) : queue'[j] = IF j = i THEN entry ELSE queue[j]
  BY <1>1, ExceptSeq
<1>3. DOMAIN queue' = DOMAIN queue
  BY <1>1, <1>2, LenProperties
<1>4. \A j \in DOMAIN queue : queue'[j].event = queue[j].event
  BY <1>1, <1>2
<1>5. Known' = Known
  BY <1>3, <1>4 DEF Known
<1>6. QED BY <1>1, <1>2, <1>3, <1>5

\* A handler runs for an entry that waits.
LEMMA EntryInHand ==
    ASSUME TypeOK, pc # "idle"
    PROVE  /\ queue \in Seq(EntryType) /\ cur \in DOMAIN queue
           /\ queue[cur] \in EntryType /\ Ev \in Event /\ queue[cur].state = "waiting"
<1>1. queue \in Seq(EntryType) /\ cur \in 0..Len(queue) /\ cur # 0
  BY DEF TypeOK, EntryType
<1>2. cur \in DOMAIN queue
  BY <1>1, QueueShape
<1>3. queue[cur].state = "waiting"
  BY <1>1 DEF TypeOK
<1>4. QED BY <1>1, <1>2, <1>3, QueueShape DEF Ev

\* The steps of a handler between its delivery and its end.
Hand == Keys \/ Publishes \/ Calls

\* What a handler may add to the queue.
Publishable(e) ==
    \/ pc = "escalate" /\ e = EscalationOf(Ev)
    \/ pc = "result" /\ result # "failed" /\ e = ResultOf(Ev)

\* A step of a handler leaves the entries alone, except for the event it publishes.
LEMMA HandQueue ==
    ASSUME TypeOK, Stage, Hand
    PROVE  /\ pc \in Claiming \cup Claimed /\ pc' \in Claimed \cup {"mark", "return", "throw"}
           /\ UNCHANGED <<cur, arrivals, crashes>>
           /\ queue' = queue \/ (\E e \in Event : Publishable(e) /\ Enqueue(e))
<1> USE DEF queueVars, history, Goto, Claiming, Claimed
<1>1. CASE Keys
  BY <1>1 DEF Keys, LookUp, LookUpFails, Mark, MarkFails, Commit, CommitFails, Catch, CatchFails,
              AfterMark
<1>2. CASE Publishes
  <2>1. Ev \in Event /\ EscalationOf(Ev) \in Event /\ ResultOf(Ev) \in Event
    <3>1. pc # "idle"
      BY <1>2 DEF Publishes, WriteRecord, WriteRecordFails, PublishProgress, PublishProgressFails,
              Escalate, EscalateFails, PublishResult, PublishResultFails
    <3>2. QED BY <3>1, EntryInHand, DerivedEvents
  <2>2. CASE WriteRecord \/ WriteRecordFails
    BY <2>2 DEF WriteRecord, WriteRecordFails, Raise
  <2>3. CASE PublishProgress \/ PublishProgressFails
    <3>1. AfterProgress(Ev) \in {"escalate", "return", "commit"}
      BY DEF AfterProgress
    <3>2. QED BY <2>3, <3>1 DEF PublishProgress, PublishProgressFails, Raise
  <2>4. CASE Escalate \/ EscalateFails
    BY <2>1, <2>4 DEF Escalate, EscalateFails, Raise, Publishable
  <2>5. CASE PublishResult \/ PublishResultFails
    BY <2>1, <2>5 DEF PublishResult, PublishResultFails, Publishable
  <2>6. QED BY <1>2, <2>2, <2>3, <2>4, <2>5 DEF Publishes
<1>3. CASE Calls
  BY <1>3 DEF Calls, FetchToken, FetchTokenFails, UpdateCard, SendCard, RequestFails, TokenRejected,
              CallFails, Raise
<1>4. QED BY <1>1, <1>2, <1>3 DEF Hand

\* The entry in hand stays what it is, whatever the handler publishes.
LEMMA HandFrame ==
    ASSUME TypeOK, Stage, Hand
    PROVE  /\ cur \in DOMAIN queue /\ Ev \in Event /\ queue[cur].state = "waiting"
           /\ Ev' = Ev /\ Known \subseteq Known'
           /\ queue' \in Seq(EntryType) /\ cur' \in 0..Len(queue') /\ cur' # 0
           /\ \A i \in DOMAIN queue : i \in DOMAIN queue' /\ queue'[i] = queue[i]
           /\ \A i \in DOMAIN queue' \ DOMAIN queue : queue'[i].state = "waiting"
<1>1. pc # "idle"
  BY HandQueue DEF Claiming, Claimed
<1>2. /\ queue \in Seq(EntryType) /\ cur \in DOMAIN queue /\ Ev \in Event
      /\ queue[cur].state = "waiting"
  BY <1>1, EntryInHand
<1>3. Len(queue) \in Nat /\ DOMAIN queue = 1..Len(queue)
  BY <1>2, QueueShape
<1>4. CASE queue' = queue
  BY <1>2, <1>3, <1>4, HandQueue DEF Ev, Known
<1>5. CASE \E e \in Event : Enqueue(e)
  <2>1. PICK e \in Event : Enqueue(e)
    BY <1>5
  <2>2. /\ queue' \in Seq(EntryType) /\ Len(queue') = Len(queue) + 1
        /\ DOMAIN queue' = DOMAIN queue \cup {Len(queue) + 1}
        /\ \A i \in DOMAIN queue : queue'[i] = queue[i]
        /\ queue'[Len(queue) + 1] = Entry(e) /\ Known' = Known \cup {e}
    BY <1>2, <2>1, Enqueued
  <2>3. cur' = cur
    BY HandQueue
  <2>4. Ev' = Ev
    BY <1>2, <2>2, <2>3 DEF Ev
  <2>5. QED BY <1>2, <1>3, <2>2, <2>3, <2>4 DEF Entry
<1>6. QED BY <1>4, <1>5, HandQueue

\* What the other steps do to the queue: a new entry, a delivery, or the end of a handler.
Leaving == \E state \in {"waiting", "acked", "dead"} : Leave(state)

\* A run ends at its return, at what it throws, or in a crash; keys, cards and records stay.
LEMMA LeavesBy ==
    ASSUME TypeOK, Return \/ Throw \/ Crash
    PROVE  /\ pc # "idle" /\ Leaving /\ UNCHANGED <<key, refused, cards, progress, record, arrivals, faults>>
           /\ result' = "none" /\ pc' = "idle" /\ cur' = 0
           /\ abandoned \subseteq abandoned'
BY DEF Return, Throw, Crash, Leaving, Leave, Goto

\* Leaving settles the entry in hand and no other.
LEMMA Left ==
    ASSUME TypeOK, pc # "idle", NEW state \in {"waiting", "acked", "dead"}, Leave(state)
    PROVE  /\ queue' \in Seq(EntryType) /\ Len(queue') = Len(queue) /\ DOMAIN queue' = DOMAIN queue
           /\ \A i \in DOMAIN queue :
                /\ queue'[i].event = queue[i].event
                /\ queue'[i].state = IF i = cur THEN state ELSE queue[i].state
           /\ Known' = Known
<1>1. /\ queue \in Seq(EntryType) /\ cur \in DOMAIN queue /\ queue[cur] \in EntryType
  BY EntryInHand
<1> DEFINE entry == [queue[cur] EXCEPT !.state = state]
<1>2. entry \in EntryType /\ entry.event = queue[cur].event /\ entry.state = state
  BY <1>1 DEF EntryType
<1>3. queue' = [queue EXCEPT ![cur] = entry]
  BY DEF Leave
<1> HIDE DEF entry
<1>4. QED BY <1>1, <1>2, <1>3, Replaced

\* A delivery takes up a waiting entry and counts an attempt.
LEMMA Delivered ==
    ASSUME TypeOK, Deliver
    PROVE  \E i \in DOMAIN queue :
             /\ queue' \in Seq(EntryType) /\ Len(queue') = Len(queue) /\ DOMAIN queue' = DOMAIN queue
             /\ \A j \in DOMAIN queue :
                  queue'[j].event = queue[j].event /\ queue'[j].state = queue[j].state
             /\ Known' = Known
             /\ queue[i].state = "waiting" /\ cur' = i
             /\ Ev' = queue[i].event /\ Ev' \in Event /\ pc' = FirstStep(Ev')
<1>1. queue \in Seq(EntryType)
  BY DEF TypeOK, EntryType
<1>2. PICK i \in DOMAIN queue :
        /\ queue[i].state = "waiting"
        /\ queue' = [queue EXCEPT ![i].deliveries = @ + 1]
        /\ cur' = i /\ pc' = FirstStep(queue[i].event)
  BY DEF Deliver, Deliverable, Goto
<1>3. queue[i] \in EntryType /\ queue[i].event \in Event /\ queue[i].deliveries \in Nat
  BY <1>1, QueueShape
<1> DEFINE entry == [queue[i] EXCEPT !.deliveries = @ + 1]
<1>4. entry \in EntryType /\ entry.event = queue[i].event /\ entry.state = queue[i].state
  BY <1>3 DEF EntryType
<1>5. queue' = [queue EXCEPT ![i] = entry]
  BY <1>2
<1> HIDE DEF entry
<1>6. /\ queue' \in Seq(EntryType) /\ Len(queue') = Len(queue) /\ DOMAIN queue' = DOMAIN queue
      /\ \A j \in DOMAIN queue : queue'[j] = IF j = i THEN entry ELSE queue[j]
      /\ Known' = Known
  BY <1>1, <1>4, <1>5, Replaced
<1>7. Ev' = queue[i].event
  BY <1>2, <1>4, <1>6 DEF Ev
<1>8. \A j \in DOMAIN queue : queue'[j].event = queue[j].event /\ queue'[j].state = queue[j].state
  BY <1>4, <1>6
<1>9. QED BY <1>2, <1>3, <1>6, <1>7, <1>8

-------------------------------------------------------------------------------
(* Types.                                                                  *)

\* The steps of nobody at the queue.
Aside == RevokeToken \/ TokenExpires \/ UNCHANGED vars

\* The actions, grouped by what they do to the queue.
LEMMA StepCases ==
    [Next]_vars => Arrive \/ Deliver \/ Hand \/ (Return \/ Throw \/ Crash) \/ Aside
BY DEF Next, Handle, Hand, Aside

\* What happens beside the handlers touches the token and the history of faults only.
LEMMA AsideFrame ==
    ASSUME Aside
    PROVE  /\ UNCHANGED <<queue, key, record, progress, pc, cur, result, arrivals, crashes,
                          cards, refused, abandoned>>
           /\ UNCHANGED <<Known, Ev>>
           /\ faults' = faults \/ Fault
<1>1. UNCHANGED <<queue, key, record, progress, pc, cur, result, arrivals, crashes,
                  cards, refused, abandoned>>
  BY DEF Aside, RevokeToken, TokenExpires, vars, queueVars, history
<1>2. faults' = faults \/ Fault
  BY DEF Aside, RevokeToken, TokenExpires, vars
<1>3. QED BY <1>1, <1>2 DEF Known, Ev

\* Setting a key sets that key.
LEMMA SetKeyResult ==
    ASSUME NEW k, NEW state, SetKey(k, state)
    PROVE  /\ DOMAIN key' = DOMAIN key \cup {k}
           /\ \A j \in DOMAIN key' : key'[j] = IF j = k THEN state ELSE key[j]
           /\ \A j : KeyState(j)' = IF j = k THEN state ELSE KeyState(j)
BY DEF SetKey, KeyState

\* A handler sets its own key, at three awaits.
LEMMA KeySteps ==
    ASSUME TypeOK, Stage, Hand
    PROVE  \/ key' = key
           \/ pc = "mark" /\ SetKey(KeyOf(Ev), "processing")
           \/ pc = "commit" /\ SetKey(KeyOf(Ev), IF result = "failed" THEN "failed" ELSE "processed")
           \/ pc = "caught" /\ SetKey(KeyOf(Ev), "failed")
<1>1. CASE Keys
  BY <1>1 DEF Keys, LookUp, LookUpFails, Mark, MarkFails, Commit, CommitFails, Catch, CatchFails
<1>2. CASE Publishes
  BY <1>2 DEF Publishes, WriteRecord, WriteRecordFails, PublishProgress, PublishProgressFails,
              Escalate, EscalateFails, PublishResult, PublishResultFails
<1>3. CASE Calls
  BY <1>3 DEF Calls, FetchToken, FetchTokenFails, UpdateCard, SendCard, RequestFails, TokenRejected
<1>4. QED BY <1>1, <1>2, <1>3 DEF Hand

\* The other variables a handler changes, and what it counts as a failed call.
LEMMA HandEffects ==
    ASSUME TypeOK, Stage, Hand
    PROVE  /\ faults' = faults \/ Fault
           /\ token' \in {token, "valid"}
           /\ result' = result \/ (pc \in {"token", "call"} /\ result' \in {"failed", "sent", "sent_without_id"})
           /\ record' = record \/
                (pc = "record" /\ record' = [record EXCEPT ![RecordScope(Progress(Ev))] = Status(Ev)])
           /\ progress' = progress \/ (pc = "progress" /\ progress' = progress \cup {Progress(Ev)})
           /\ refused' = refused \/ (pc \in {"token", "call"} /\ refused' = refused \cup {KeyOf(Ev)})
           /\ \/ abandoned' = abandoned
              \/ abandoned' = abandoned \cup {KeyOf(Ev)} /\ KeyOf(Ev) \in DOMAIN key'
<1> USE DEF history
<1>1. CASE Keys
  <2>1. CASE MarkFails
    BY <2>1, SetKeyResult DEF MarkFails
  <2>2. CASE CatchFails
    BY <2>2 DEF CatchFails, Processing, KeyState
  <2>3. CASE LookUp \/ LookUpFails \/ Mark \/ Commit \/ CommitFails \/ Catch
    BY <2>3 DEF LookUp, LookUpFails, Mark, Commit, CommitFails, Catch
  <2>4. QED BY <1>1, <2>1, <2>2, <2>3 DEF Keys
<1>2. CASE Publishes
  <2>1. CASE WriteRecord \/ WriteRecordFails \/ PublishProgress \/ PublishProgressFails
    BY <2>1 DEF WriteRecord, WriteRecordFails, PublishProgress, PublishProgressFails
  <2>2. CASE Escalate \/ EscalateFails \/ PublishResult \/ PublishResultFails
    BY <2>2 DEF Escalate, EscalateFails, PublishResult, PublishResultFails
  <2>3. QED BY <1>2, <2>1, <2>2 DEF Publishes
<1>3. CASE Calls
  BY <1>3 DEF Calls, FetchToken, FetchTokenFails, UpdateCard, SendCard, RequestFails, TokenRejected,
              CallFails
<1>4. QED BY <1>1, <1>2, <1>3 DEF Hand

\* Faults only grow, within the bound they share with the crashes.
LEMMA FaultCounts ==
    ASSUME TypeOK, faults' = faults \/ Fault, crashes' = crashes
    PROVE  /\ faults' \in Nat /\ faults \in Nat /\ faults <= faults'
           /\ crashes' \in Nat /\ faults' + crashes' <= MaxFailures
           /\ Fault => faults' = faults + 1
BY DEF TypeOK, Fault, MayFail

StatusType == {"unread", "acknowledged", "investigating", "fixed", "ineffective_reply",
               "needs_escalation", "escalated", NoId}

\* The handlers that record progress record a known status.
LEMMA StatusInType ==
    ASSUME NEW e \in Event, e.type # "triggered"
    PROVE  Status(e) \in StatusType
BY EventFields DEF Status, EventType, StatusType

\* The queue and the entry in hand.
QueueType ==
    /\ queue \in Seq(EntryType)
    /\ pc \in Step
    /\ cur \in 0..Len(queue) /\ (cur = 0 <=> pc = "idle")
    /\ cur > 0 => queue[cur].state = "waiting"

\* Every step keeps the types of the queue.
LEMMA QueueStep ==
    ASSUME TypeOK, Stage, [Next]_vars
    PROVE  QueueType'
<1>1. QueueType
  BY DEF TypeOK, QueueType, EntryType
<1>2. Len(queue) \in Nat /\ DOMAIN queue = 1..Len(queue)
  BY <1>1, QueueShape DEF QueueType
<1>3. CASE Arrive
  <2>1. PICK e \in Event : Enqueue(e)
    BY <1>3 DEF Arrive
  <2>2. /\ queue' \in Seq(EntryType) /\ Len(queue') = Len(queue) + 1
        /\ \A i \in DOMAIN queue : queue'[i] = queue[i]
    BY <1>1, <2>1, Enqueued DEF QueueType
  <2>3. UNCHANGED <<pc, cur>>
    BY <1>3 DEF Arrive
  <2>4. QED BY <1>1, <1>2, <2>2, <2>3 DEF QueueType
<1>4. CASE Deliver
  <2>1. PICK i \in DOMAIN queue :
          /\ queue' \in Seq(EntryType) /\ Len(queue') = Len(queue) /\ cur' = i
          /\ queue'[i].state = "waiting" /\ pc' = FirstStep(Ev')
    BY <1>4, Delivered
  <2>2. pc' \in Step \ {"idle"}
    BY <2>1 DEF FirstStep, Step
  <2>3. QED BY <1>2, <2>1, <2>2 DEF QueueType
<1>5. CASE Hand
  <2>1. /\ cur' \in 0..Len(queue') /\ cur' # 0 /\ cur' = cur /\ queue' \in Seq(EntryType)
        /\ queue'[cur'].state = "waiting"
    BY <1>5, HandFrame, HandQueue
  <2>2. pc' \in Step \ {"idle"}
    BY <1>5, HandQueue DEF Step, Claimed
  <2>3. QED BY <2>1, <2>2 DEF QueueType
<1>6. CASE Return \/ Throw \/ Crash
  <2>1. queue' \in Seq(EntryType) /\ pc' = "idle" /\ cur' = 0 /\ Len(queue') = Len(queue)
    BY <1>6, LeavesBy, Left DEF Leaving
  <2>2. QED BY <1>2, <2>1 DEF QueueType, Step
<1>7. CASE Aside
  BY <1>1, <1>7, AsideFrame DEF QueueType
<1>8. QED BY <1>3, <1>4, <1>5, <1>6, <1>7, StepCases

KeyType ==
    /\ \A k \in DOMAIN key : key[k] \in {"processing", "processed", "failed"}
    /\ refused \cup abandoned \subseteq DOMAIN key

\* Every step keeps the types of the keys, and no key is removed.
LEMMA KeyTypeStep ==
    ASSUME TypeOK, Stage, HeldKeys, [Next]_vars
    PROVE  KeyType' /\ DOMAIN key \subseteq DOMAIN key'
<1>1. KeyType
  BY DEF TypeOK, KeyType
<1>2. CASE Arrive \/ Deliver \/ Aside
  BY <1>1, <1>2, AsideFrame DEF Arrive, Deliver, history, KeyType
<1>3. CASE Hand
  <2>1. DOMAIN key \subseteq DOMAIN key' /\ \A k \in DOMAIN key' : key'[k] \in {"processing", "processed", "failed"}
    <3>1. CASE key' = key
      BY <1>1, <3>1 DEF KeyType
    <3>2. CASE \E state \in {"processing", "processed", "failed"} : SetKey(KeyOf(Ev), state)
      <4>1. PICK state \in {"processing", "processed", "failed"} : SetKey(KeyOf(Ev), state)
        BY <3>2
      <4>2. /\ DOMAIN key' = DOMAIN key \cup {KeyOf(Ev)}
            /\ \A j \in DOMAIN key' : key'[j] = IF j = KeyOf(Ev) THEN state ELSE key[j]
        BY <4>1, SetKeyResult
      <4>3. QED BY <1>1, <4>2 DEF KeyType
    <3>3. QED BY <1>3, <3>1, <3>2, KeySteps
  <2>2. pc \in {"token", "call"} => KeyOf(Ev) \in DOMAIN key
    BY DEF HeldKeys, Claimed, Stage
  <2>3. refused' \cup abandoned' \subseteq DOMAIN key'
    BY <1>1, <1>3, <2>1, <2>2, HandEffects DEF KeyType
  <2>4. QED BY <2>1, <2>3 DEF KeyType
<1>4. CASE Return \/ Throw \/ Crash
  <2>1. abandoned' \subseteq abandoned \cup DOMAIN key
    BY <1>4 DEF Return, Throw, Crash, Processing, KeyState
  <2>2. QED BY <1>1, <1>4, <2>1, LeavesBy DEF KeyType
<1>5. QED BY <1>2, <1>3, <1>4, StepCases

RestType ==
    /\ record \in [Ids -> StatusType]
    /\ token \in {"none", "valid", "revoked"}
    /\ result \in {"none", "sent", "sent_without_id", "failed"}
    /\ arrivals \in 0..MaxArrivals /\ faults \in Nat /\ crashes \in Nat /\ faults + crashes <= MaxFailures

\* Every step keeps the types of records, cards and counters.
LEMMA RestStep ==
    ASSUME TypeOK, Stage, [Next]_vars
    PROVE  RestType'
<1>1. RestType
  BY DEF TypeOK, RestType, StatusType
<1>2. CASE Arrive
  BY <1>1, <1>2 DEF Arrive, RestType
<1>3. CASE Deliver
  BY <1>1, <1>3 DEF Deliver, RestType
<1>4. CASE Hand
  <2>1. /\ faults' \in Nat /\ crashes' \in Nat /\ faults' + crashes' <= MaxFailures
        /\ arrivals' = arrivals
    BY <1>4, HandEffects, HandQueue, FaultCounts
  <2>2. pc = "record" => Status(Ev) \in StatusType
    BY <1>4, HandFrame, StatusInType DEF Stage
  <2>3. record' \in [Ids -> StatusType]
    BY <1>1, <1>4, <2>2, HandEffects DEF RestType
  <2>4. token' \in {"none", "valid", "revoked"} /\ result' \in {"none", "sent", "sent_without_id", "failed"}
    BY <1>1, <1>4, HandEffects DEF RestType
  <2>5. QED BY <1>1, <2>1, <2>3, <2>4 DEF RestType
<1>5. CASE Return \/ Throw \/ Crash
  <2>1. /\ crashes' \in Nat /\ faults + crashes' <= MaxFailures /\ token' \in {token, "none"}
    BY <1>1, <1>5 DEF Return, Throw, Crash, MayFail, RestType
  <2>2. QED BY <1>1, <1>5, <2>1, LeavesBy DEF RestType
<1>6. CASE Aside
  <2>1. /\ faults' \in Nat /\ crashes' \in Nat /\ faults' + crashes' <= MaxFailures
    BY <1>6, AsideFrame, FaultCounts
  <2>2. token' \in {token, "none", "revoked"}
    BY <1>6 DEF Aside, RevokeToken, TokenExpires, vars
  <2>3. QED BY <1>1, <1>6, <2>1, <2>2, AsideFrame DEF RestType
<1>7. QED BY <1>2, <1>3, <1>4, <1>5, <1>6, StepCases

\* TypeOK in three parts, which different steps disturb.
LEMMA TypeParts == TypeOK <=> QueueType /\ KeyType /\ RestType
BY DEF TypeOK, QueueType, KeyType, RestType, EntryType, StatusType

\* Every step keeps TypeOK.
LEMMA TypeStep ==
    ASSUME TypeOK, Stage, HeldKeys, [Next]_vars
    PROVE  TypeOK'
<1>1. QueueType' /\ KeyType' /\ RestType'
  BY QueueStep, KeyTypeStep, RestStep
<1>2. QED BY <1>1, TypeParts, PTL

-------------------------------------------------------------------------------
(* The handlers, await by await.                                           *)

\* An arrival adds its event to the queue and does nothing else.
LEMMA ArriveFrame ==
    ASSUME TypeOK, Arrive
    PROVE  /\ UNCHANGED <<key, record, progress, pc, cur, result, faults, crashes, cards, refused, abandoned>>
           /\ \E e \in Arrivals : Known' = Known \cup {e}
           /\ Known \subseteq Known'
           /\ pc # "idle" => Ev' = Ev
           /\ \A i \in DOMAIN queue : i \in DOMAIN queue' /\ queue'[i] = queue[i]
           /\ \A i \in DOMAIN queue' \ DOMAIN queue : queue'[i].state = "waiting"
<1>1. PICK e \in Arrivals : Enqueue(e)
  BY DEF Arrive
<1>2. queue \in Seq(EntryType) /\ e \in Event
  BY DEF TypeOK, EntryType
<1>3. /\ DOMAIN queue' = DOMAIN queue \cup {Len(queue) + 1}
      /\ \A i \in DOMAIN queue : queue'[i] = queue[i]
      /\ queue'[Len(queue) + 1] = Entry(e) /\ Known' = Known \cup {e}
  BY <1>1, <1>2, Enqueued
<1>4. UNCHANGED <<key, record, progress, pc, cur, result, faults, crashes, cards, refused, abandoned>>
  BY DEF Arrive, history
<1>5. pc # "idle" => Ev' = Ev
  BY <1>3, <1>4, EntryInHand DEF Ev
<1>6. QED BY <1>3, <1>4, <1>5 DEF Entry

\* Each await follows from the one before for the type in hand.
LEMMA StageStep ==
    ASSUME TypeOK, Stage, [Next]_vars
    PROVE  Stage'
<1> USE DEF Claiming, Claimed, Goto, history
<1>1. CASE Arrive
  BY <1>1, ArriveFrame DEF Stage
<1>2. CASE Deliver
  <2>1. pc' = FirstStep(Ev') /\ Ev' \in Event
    BY <1>2, Delivered
  <2>2. pc = "idle" /\ result' = result
    BY <1>2 DEF Deliver
  <2>3. QED BY <2>1, <2>2 DEF Stage, FirstStep
<1>3. CASE Hand
  <2>1. Ev' = Ev /\ Ev \in Event /\ Ev.type \in EventType
    BY <1>3, HandFrame, EventFields
  <2>2. CASE LookUp \/ LookUpFails \/ Commit \/ CommitFails \/ Catch \/ CatchFails
    BY <2>1, <2>2 DEF LookUp, LookUpFails, Commit, CommitFails, Catch, CatchFails, Stage
  <2>3. CASE Mark \/ MarkFails
    BY <2>1, <2>3 DEF Mark, MarkFails, AfterMark, Stage, EventType
  <2>4. CASE WriteRecord \/ WriteRecordFails
    BY <2>1, <2>4 DEF WriteRecord, WriteRecordFails, Raise, Stage
  <2>5. CASE PublishProgress \/ PublishProgressFails
    <3>1. /\ Ev.type = "timeout" => AfterProgress(Ev) = "escalate"
          /\ Ev.type = "reply" => AfterProgress(Ev) = "return"
          /\ Ev.type \notin {"timeout", "reply"} => AfterProgress(Ev) = "commit"
      BY DEF AfterProgress
    <3>2. QED BY <2>1, <2>5, <3>1 DEF PublishProgress, PublishProgressFails, Raise, Stage
  <2>6. CASE Escalate \/ EscalateFails
    BY <2>1, <2>6 DEF Escalate, EscalateFails, Raise, Stage
  <2>7. CASE PublishResult \/ PublishResultFails
    BY <2>1, <2>7 DEF PublishResult, PublishResultFails, Stage
  <2>8. CASE FetchToken \/ FetchTokenFails
    BY <2>1, <2>8 DEF FetchToken, FetchTokenFails, CallFails, Raise, Stage
  <2>9. CASE UpdateCard \/ SendCard
    BY <2>1, <2>9 DEF UpdateCard, SendCard, Stage
  <2>10. CASE RequestFails \/ TokenRejected
    BY <2>1, <2>10 DEF RequestFails, TokenRejected, CallFails, Raise, Stage
  <2>11. QED
    BY <1>3, <2>2, <2>3, <2>4, <2>5, <2>6, <2>7, <2>8, <2>9, <2>10 DEF Hand, Keys, Publishes, Calls
<1>4. CASE Return \/ Throw \/ Crash
  BY <1>4, LeavesBy DEF Stage
<1>5. CASE Aside
  BY <1>5, AsideFrame DEF Stage
<1>6. QED BY <1>1, <1>2, <1>3, <1>4, <1>5, StepCases

\* A handler holds its key "processing" from mark to commit; one it leaves so is abandoned.
LEMMA HeldKeysStep ==
    ASSUME TypeOK, Stage, HeldKeys, [Next]_vars
    PROVE  HeldKeys'
<1> USE DEF Claiming, Claimed, Goto, history
<1>0. refused \subseteq DOMAIN key /\ abandoned \subseteq DOMAIN key
  BY DEF TypeOK
<1>1. CASE Arrive
  BY <1>1, ArriveFrame DEF HeldKeys, HoldsKey, Taken, KeyState
<1>2. CASE Deliver
  <2>1. pc' \in {"return", "record", "lookup"} /\ pc = "idle" /\ UNCHANGED <<key, result, abandoned, refused>>
    BY <1>2, Delivered DEF Deliver, FirstStep
  <2>2. pc' = "record" => Ev'.type = "reply" /\ result = "none"
    BY <1>2, <2>1, Delivered DEF FirstStep, Stage
  <2>3. QED BY <2>1, <2>2 DEF HeldKeys, HoldsKey
<1>3. CASE Hand
  <2>1. Ev' = Ev /\ Ev \in Event
    BY <1>3, HandFrame
  <2> DEFINE k == KeyOf(Ev)
  <2>2. k' = k
    BY <2>1
  <2>3. CASE LookUp \/ LookUpFails
    BY <2>1, <2>3 DEF LookUp, LookUpFails, HeldKeys, HoldsKey, Taken, KeyState, Stage
  <2>4. CASE Mark \/ MarkFails \/ Commit \/ CommitFails \/ Catch \/ CatchFails
    <3>1. Ev.type # "reply"
      BY <2>4 DEF Mark, MarkFails, Commit, CommitFails, Catch, CatchFails, Stage
    <3>2. CASE key' = key /\ (MarkFails \/ CommitFails \/ CatchFails)
      <4>1. CASE MarkFails
        BY <2>1, <3>1, <3>2, <4>1 DEF MarkFails, HeldKeys, HoldsKey
      <4>2. CASE CommitFails
        BY <2>1, <3>1, <3>2, <4>2 DEF CommitFails, HeldKeys, HoldsKey
      <4>3. CASE CatchFails
        <5>1. key[k] = "processing" /\ k \in DOMAIN key => Processing
          BY <3>1 DEF Processing, KeyState
        <5>2. \A j \in DOMAIN key : key[j] = "processing" => j \in abandoned'
          BY <4>3, <5>1 DEF CatchFails, HeldKeys, HoldsKey
        <5>3. QED BY <3>2, <4>3, <5>2 DEF CatchFails, HeldKeys
      <4>4. QED BY <3>2, <4>1, <4>2, <4>3
    <3>3. ASSUME NEW state, SetKey(k, state)
          PROVE  /\ DOMAIN key' = DOMAIN key \cup {k}
                 /\ \A j \in DOMAIN key' : key'[j] = IF j = k THEN state ELSE key[j]
      BY <3>3, SetKeyResult
    <3>4. CASE Mark \/ MarkFails
      <4>1. CASE SetKey(k, "processing")
        <5>1. /\ DOMAIN key' = DOMAIN key \cup {k}
              /\ \A j \in DOMAIN key' : key'[j] = IF j = k THEN "processing" ELSE key[j]
          BY <3>3, <4>1
        <5>2. AfterMark(Ev) \in {"record", "token"}
          BY DEF AfterMark
        <5>3. QED BY <2>1, <3>1, <3>4, <5>1, <5>2 DEF Mark, MarkFails, HeldKeys, HoldsKey, Stage
      <4>2. QED BY <3>2, <3>4, <4>1 DEF Mark, MarkFails
    <3>5. CASE Commit \/ CommitFails \/ Catch
      <4>1. CASE \E state \in {"processed", "failed"} : SetKey(k, state)
        <5>1. PICK state \in {"processed", "failed"} : SetKey(k, state)
          BY <4>1
        <5>2. /\ DOMAIN key' = DOMAIN key \cup {k}
              /\ \A j \in DOMAIN key' : key'[j] = IF j = k THEN state ELSE key[j]
          BY <3>3, <5>1
        <5>3. \A j \in DOMAIN key : key[j] = "processing" => j \in abandoned \/ j = k
          BY DEF HeldKeys, HoldsKey
        <5>4. QED BY <2>1, <3>1, <3>5, <5>2, <5>3 DEF Commit, CommitFails, Catch, HeldKeys, HoldsKey
      <4>2. QED BY <3>2, <3>5, <4>1 DEF Commit, CommitFails, Catch
    <3>6. QED BY <2>4, <3>2, <3>4, <3>5 DEF CatchFails
  <2>5. CASE Publishes
    <3>1. pc \in Claimed \ {"caught"} /\ pc' \in Claimed \cup {"return", "throw"}
      BY <1>3, <2>5, HandQueue DEF Publishes, WriteRecord, WriteRecordFails, PublishProgress,
            PublishProgressFails, Escalate, EscalateFails, PublishResult, PublishResultFails, Raise, AfterProgress
    <3>2. UNCHANGED <<key, abandoned, refused, result>>
      BY <2>5 DEF Publishes, WriteRecord, WriteRecordFails, PublishProgress,
            PublishProgressFails, Escalate, EscalateFails, PublishResult, PublishResultFails
    <3>3. pc' \notin Claimed => Ev.type = "reply"
      BY <2>5, <3>1 DEF Publishes, WriteRecord, WriteRecordFails, PublishProgress,
            PublishProgressFails, Escalate, EscalateFails, PublishResult, PublishResultFails, Raise, AfterProgress
    <3>4. QED BY <2>1, <3>1, <3>2, <3>3 DEF HeldKeys, HoldsKey
  <2>6. CASE Calls
    <3>1. /\ pc \in {"token", "call"} /\ pc' \in Claimed /\ UNCHANGED <<key, abandoned>>
          /\ refused \subseteq refused'
          /\ result' = "failed" => result = "failed" \/ k \in refused'
      BY <2>6 DEF Calls, FetchToken, FetchTokenFails, UpdateCard, SendCard, RequestFails, TokenRejected,
            CallFails, Raise, Stage
    <3>2. QED BY <2>1, <3>1 DEF HeldKeys, HoldsKey, Stage
  <2>7. QED BY <1>3, <2>3, <2>4, <2>5, <2>6 DEF Hand, Keys
<1>4. CASE Return \/ Throw \/ Crash
  <2>1. pc' = "idle" /\ key' = key /\ abandoned \subseteq abandoned'
    BY <1>4, LeavesBy
  <2>2. \A k \in DOMAIN key : key[k] = "processing" => k \in abandoned'
    BY <1>4 DEF Return, Throw, Crash, Processing, KeyState, HeldKeys, HoldsKey
  <2>3. QED BY <2>1, <2>2 DEF HeldKeys
<1>5. CASE Aside
  BY <1>5, AsideFrame DEF HeldKeys, HoldsKey, Taken, KeyState
<1>6. QED BY <1>1, <1>2, <1>3, <1>4, <1>5, StepCases

-------------------------------------------------------------------------------
(* Notices.                                                                *)

\* Posting a card counts it under its key.
LEMMA PostResult ==
    ASSUME NEW k, Post(k), \A j \in DOMAIN cards : cards[j] \in Nat
    PROVE  /\ DOMAIN cards' = DOMAIN cards \cup {k}
           /\ \A j \in DOMAIN cards' : cards'[j] = IF j = k THEN Posted(k) + 1 ELSE cards[j]
           /\ \A j : Posted(j)' = IF j = k THEN Posted(k) + 1 ELSE Posted(j)
           /\ \A j : Posted(j) \in Nat
BY DEF Post, Posted

\* A notice is posted by a call that succeeds, or by one that fails and is counted.
LEMMA CardSteps ==
    ASSUME TypeOK, Stage, Hand
    PROVE  \/ cards' = cards
           \/ /\ pc = "call" /\ Ev.type = "triggered" /\ Post(KeyOf(Ev)) /\ pc' = "result" /\ key' = key
              /\ \/ result' \in {"sent", "sent_without_id"} /\ faults' = faults
                 \/ result' = "failed" /\ Fault
<1> USE DEF history, Goto
<1>1. CASE Keys \/ Publishes
  BY <1>1 DEF Keys, LookUp, LookUpFails, Mark, MarkFails, Commit, CommitFails, Catch, CatchFails,
              Publishes, WriteRecord, WriteRecordFails, PublishProgress, PublishProgressFails,
              Escalate, EscalateFails, PublishResult, PublishResultFails
<1>2. CASE Calls
  BY <1>2 DEF Calls, FetchToken, FetchTokenFails, UpdateCard, SendCard, RequestFails, TokenRejected,
              CallFails
<1>3. QED BY <1>1, <1>2 DEF Hand

CardsCounted == \A j \in DOMAIN cards : cards[j] \in Nat

\* Nothing that has happened is taken back.
LEMMA HistoryGrows ==
    ASSUME TypeOK, Stage, CardsCounted, [Next]_vars
    PROVE  /\ Known \subseteq Known' /\ progress \subseteq progress'
           /\ \A k : Posted(k) > 0 => Posted(k)' > 0
           /\ refused \subseteq refused' /\ abandoned \subseteq abandoned'
<1>1. CASE Arrive
  BY <1>1, ArriveFrame DEF Posted
<1>2. CASE Deliver
  BY <1>2, Delivered DEF Deliver, history, Posted
<1>3. CASE Hand
  <2>1. Known \subseteq Known'
    BY <1>3, HandFrame
  <2>2. progress \subseteq progress' /\ refused \subseteq refused' /\ abandoned \subseteq abandoned'
    BY <1>3, HandEffects
  <2>3. CASE cards' = cards
    BY <2>1, <2>2, <2>3 DEF Posted
  <2>4. CASE Post(KeyOf(Ev))
    <3>1. \A j : Posted(j) \in Nat /\ Posted(j)' = IF j = KeyOf(Ev) THEN Posted(j) + 1 ELSE Posted(j)
      BY <2>4, PostResult DEF CardsCounted
    <3>2. \A k : Posted(k) > 0 => Posted(k)' > 0
      BY <3>1
    <3>3. QED BY <2>1, <2>2, <3>2
  <2>5. QED BY <1>3, <2>3, <2>4, CardSteps
<1>4. CASE Return \/ Throw \/ Crash
  <2>1. Known' = Known
    BY <1>4, LeavesBy, Left DEF Leaving
  <2>2. QED BY <1>4, <2>1, LeavesBy DEF Posted
<1>5. CASE Aside
  BY <1>5, AsideFrame DEF Posted
<1>6. QED BY <1>1, <1>2, <1>3, <1>4, <1>5, StepCases

\* A key whose notice was posted is opened again only at the price of a fault.
LEMMA NoticesStep ==
    ASSUME TypeOK, Stage, HeldKeys, Notices, [Next]_vars
    PROVE  Notices'
<1> USE DEF Claimed, Goto, history
<1> DEFINE k == KeyOf(Ev)
<1>0. faults \in Nat /\ CardsCounted /\ \A j : Posted(j) \in Nat
  BY DEF TypeOK, Notices, CardsCounted, Posted
<1>1. CASE Arrive
  BY <1>1, ArriveFrame DEF Notices, Posted, Taken, KeyState
<1>2. CASE Deliver
  <2>1. UNCHANGED <<cards, faults, key>> /\ pc' \in {"return", "record", "lookup"} /\ result' = "none"
    BY <1>2, Delivered DEF Deliver, FirstStep, Stage
  <2>2. QED BY <2>1 DEF Notices, Posted, Taken, KeyState
<1>3. CASE Hand
  <2>1. Ev' = Ev /\ k' = k
    BY <1>3, HandFrame
  <2>2. /\ faults' \in Nat /\ faults <= faults'
        /\ Fault => faults' = faults + 1
    BY <1>3, HandEffects, HandQueue, FaultCounts
  <2>3. CASE Keys
    <3>1. cards' = cards /\ result' = result
      BY <2>3 DEF Keys, LookUp, LookUpFails, Mark, MarkFails, Commit, CommitFails, Catch, CatchFails
    <3>2. \A j : Posted(j)' = Posted(j)
      BY <3>1 DEF Posted
    <3>3. CASE key' = key
      <4>1. \A j \in DOMAIN cards : cards'[j] <= 1 + faults' /\ (~Taken(j)' => cards'[j] <= faults')
        BY <1>0, <2>2, <3>1, <3>3 DEF Notices, Taken, KeyState
      <4>2. pc = "commit" => Posted(k) <= 1 + faults
        BY <1>0 DEF Notices, Posted
      <4>3. pc' \in {"token", "call", "caught"} => Posted(k) <= faults'
        <5>1. pc' = "token" => pc = "mark" /\ Posted(k) <= faults
          BY <1>0, <2>3 DEF Keys, LookUp, LookUpFails, Mark, MarkFails, Commit, CommitFails, Catch, CatchFails,
              HeldKeys, Notices, Posted
        <5>2. pc' = "caught" => pc = "commit" /\ Fault
          BY <2>3 DEF Keys, LookUp, LookUpFails, Mark, MarkFails, Commit, CommitFails, Catch, CatchFails, AfterMark
        <5>3. pc' # "call"
          BY <2>3 DEF Keys, LookUp, LookUpFails, Mark, MarkFails, Commit, CommitFails, Catch, CatchFails, AfterMark
        <5>4. QED BY <1>0, <2>2, <4>2, <5>1, <5>2, <5>3
      <4>4. pc' \in Claimed => pc \in Claimed \/ result = "none"
        BY <2>3 DEF Keys, LookUp, LookUpFails, Mark, MarkFails, Commit, CommitFails, Catch, CatchFails,
              Stage, Claiming
      <4>5. pc' \in Claimed /\ result' = "failed" => Posted(k) <= faults'
        BY <1>0, <2>2, <3>1, <4>4 DEF Notices
      <4>6. QED BY <1>0, <2>1, <3>1, <3>2, <4>1, <4>3, <4>5 DEF Notices
    <3>4. CASE key' # key
      <4>1. PICK state \in {"processing", "processed", "failed"} :
              /\ SetKey(k, state)
              /\ state = "processing" => pc = "mark"
              /\ state = "processed" => pc = "commit" /\ result # "failed"
              /\ state = "failed" => pc = "caught" \/ (pc = "commit" /\ result = "failed")
        BY <1>3, <3>4, KeySteps
      <4>2. \A j : KeyState(j)' = IF j = k THEN state ELSE KeyState(j)
        BY <4>1, SetKeyResult
      <4>3. Posted(k) <= 1 + faults /\ (state # "processed" => Posted(k) <= faults)
        BY <1>0, <4>1 DEF Notices, HeldKeys, Posted
      <4>4. \A j \in DOMAIN cards : cards[j] <= 1 + faults' /\ (~Taken(j)' => cards[j] <= faults')
        BY <1>0, <2>2, <4>2, <4>3 DEF Notices, Taken, Posted
      <4>5. /\ pc' = "caught" => pc = "commit" /\ Fault
            /\ pc' \in {"token", "call"} => pc = "mark"
            /\ pc' \in Claimed => pc \in {"mark", "commit"}
        BY <2>3, <4>1 DEF Keys, LookUp, LookUpFails, Mark, MarkFails, Commit, CommitFails, Catch, CatchFails, AfterMark
      <4>6. pc' \in {"token", "call", "caught"} => Posted(k) <= faults'
        BY <1>0, <2>2, <4>1, <4>3, <4>5
      <4>7. pc' \in Claimed /\ result' = "failed" => Posted(k) <= faults'
        BY <1>0, <2>2, <3>1, <4>5 DEF Notices, Stage, Claiming
      <4>8. QED BY <1>0, <2>1, <3>1, <3>2, <4>4, <4>6, <4>7 DEF Notices
    <3>5. QED BY <3>3, <3>4
  <2>4. CASE Publishes
    <3>1. UNCHANGED <<key, cards, result>> /\ pc \in Claimed /\ pc' \notin {"token", "call"}
      BY <2>4 DEF Publishes, WriteRecord, WriteRecordFails, PublishProgress, PublishProgressFails,
              Escalate, EscalateFails, PublishResult, PublishResultFails, Raise, AfterProgress
    <3>2. pc' = "caught" => Fault
      BY <2>4 DEF Publishes, WriteRecord, WriteRecordFails, PublishProgress, PublishProgressFails,
              Escalate, EscalateFails, PublishResult, PublishResultFails, AfterProgress
    <3>3. \A j : Posted(j)' = Posted(j) /\ Posted(j) <= 1 + faults
      BY <1>0, <3>1 DEF Posted, Notices
    <3>4. QED BY <1>0, <2>1, <2>2, <3>1, <3>2, <3>3 DEF Notices, Taken, KeyState
  <2>5. CASE Calls
    <3>1. pc \in {"token", "call"} /\ key' = key /\ Posted(k) <= faults
      BY <2>5 DEF Calls, FetchToken, FetchTokenFails, UpdateCard, SendCard, RequestFails, TokenRejected,
            Notices
    <3>2. CASE cards' = cards
      <4>1. \A j : Posted(j)' = Posted(j)
        BY <3>2 DEF Posted
      <4>2. QED BY <1>0, <2>1, <2>2, <3>1, <3>2, <4>1 DEF Notices, Taken, KeyState
    <3>3. CASE cards' # cards
      <4>1. /\ pc = "call" /\ Ev.type = "triggered" /\ Post(k) /\ pc' = "result"
            /\ (result' # "failed" /\ faults' = faults) \/ (result' = "failed" /\ Fault)
        BY <1>3, <3>3, CardSteps
      <4>2. /\ DOMAIN cards' = DOMAIN cards \cup {k}
            /\ \A j \in DOMAIN cards' : cards'[j] = IF j = k THEN Posted(k) + 1 ELSE cards[j]
            /\ \A j : Posted(j)' = IF j = k THEN Posted(k) + 1 ELSE Posted(j)
        BY <1>0, <4>1, PostResult DEF CardsCounted
      <4>3. k \in DOMAIN key /\ key[k] = "processing"
        BY <4>1 DEF HeldKeys
      <4>8. \A j : j = k => Taken(j)'
        BY <3>1, <4>3 DEF Taken, KeyState
      <4>4. \A j \in DOMAIN cards' : cards'[j] \in Nat /\ cards'[j] <= 1 + faults'
        BY <1>0, <2>2, <3>1, <4>2 DEF Notices, CardsCounted
      <4>5. \A j \in DOMAIN cards' : ~Taken(j)' => cards'[j] <= faults'
        <5>1. \A j : Taken(j)' <=> Taken(j)
          BY <3>1 DEF Taken, KeyState
        <5>2. \A j \in DOMAIN cards : j # k => cards'[j] = cards[j] /\ (~Taken(j) => cards[j] <= faults)
          BY <4>2 DEF Notices
        <5>3. \A j \in DOMAIN cards : cards[j] \in Nat
          BY <1>0 DEF CardsCounted
        <5>4. QED BY <1>0, <2>2, <4>2, <4>8, <5>1, <5>2, <5>3
      <4>6. result' = "failed" => Posted(k)' <= faults'
        <5>1. Posted(k)' = Posted(k) + 1
          BY <2>1, <4>2
        <5>2. QED BY <1>0, <2>2, <3>1, <4>1, <5>1
      <4>7. QED BY <2>1, <4>1, <4>4, <4>5, <4>6 DEF Notices
    <3>4. QED BY <3>2, <3>3
  <2>6. QED BY <1>3, <2>3, <2>4, <2>5 DEF Hand
<1>4. CASE Return \/ Throw \/ Crash
  BY <1>4, LeavesBy DEF Notices, Posted, Taken, KeyState
<1>5. CASE Aside
  <2>1. faults' \in Nat /\ faults <= faults'
    BY <1>5, AsideFrame, FaultCounts
  <2>2. QED BY <1>0, <1>5, <2>1, AsideFrame DEF Notices, Posted, Taken, KeyState
<1>6. QED BY <1>1, <1>2, <1>3, <1>4, <1>5, StepCases

-------------------------------------------------------------------------------
(* Effects.                                                                *)

\* An effect stays, and so does what settles an event.
LEMMA DoneStays ==
    ASSUME TypeOK, Stage, CardsCounted, [Next]_vars, NEW e \in Event
    PROVE  (Done(e) => Done(e)') /\ (Settled(e) => Settled(e)')
<1>1. /\ Known \subseteq Known' /\ progress \subseteq progress'
      /\ Posted(KeyOf(e)) > 0 => Posted(KeyOf(e))' > 0
      /\ refused \subseteq refused' /\ abandoned \subseteq abandoned'
  BY HistoryGrows
<1>2. \A type : ScopesOf(type) \subseteq ScopesOf(type)'
  BY <1>1 DEF ScopesOf
<1>3. Done(e) => Done(e)'
  BY <1>1, <1>2 DEF Done
<1>4. QED BY <1>1, <1>3 DEF Settled

\* A timeout is done when its escalation is on the queue.
LEMMA EscalationDone ==
    ASSUME NEW e \in Event, e.type = "timeout", Wanted(e), EscalationOf(e) \in Known'
    PROVE  Done(e)'
<1>1. e.msg # NoId
  BY DEF Wanted
<1>2. Scope(EscalationOf(e)) = Scope(e) /\ Scope(e) # NoId /\ EscalationOf(e).type = "triggered"
  BY <1>1, DerivedEvents DEF Scope, Or
<1>3. Scope(e) \in ScopesOf("triggered")'
  BY <1>2 DEF ScopesOf
<1>4. QED BY <1>3 DEF Done

\* A key that is set to "processed" has its effect, for every event with that key.
LEMMA ProcessedStep ==
    ASSUME TypeOK, Stage, CardsCounted, Effects, Hand, [Next]_vars,
           NEW e \in Event, Keyed(e), KeyState(KeyOf(e))' = "processed"
    PROVE  Done(e)'
<1>1. KeyState(KeyOf(e)) = "processed" => Done(e)
  BY DEF Effects
<1>2. CASE KeyState(KeyOf(e)) = "processed"
  BY <1>1, <1>2, DoneStays
<1>3. CASE KeyState(KeyOf(e)) # "processed"
  <2>1. key' # key
    BY <1>3 DEF KeyState
  <2>2. PICK state \in {"processing", "processed", "failed"} :
          SetKey(KeyOf(Ev), state) /\ (state = "processed" => pc = "commit" /\ result # "failed")
    BY <2>1, KeySteps
  <2>3. KeyOf(e) = KeyOf(Ev) /\ state = "processed"
    BY <1>3, <2>2, SetKeyResult
  <2>4. Done(Ev) /\ Keyed(Ev) /\ Ev \in Event
    BY <2>2, <2>3, HandFrame DEF Effects, Stage, Keyed, Claimed, Claiming
  <2>5. Done(e)
    BY <2>3, <2>4, SameKeySameEffect
  <2>6. QED BY <2>5, DoneStays
<1>4. QED BY <1>2, <1>3

\* Where a handler reaches its last set, its effect has taken place or was refused.
LEMMA CommitStep ==
    ASSUME TypeOK, Stage, CardsCounted, Effects, Hand, [Next]_vars
    PROVE  /\ pc' = "result" => result' = "failed" \/ Posted(KeyOf(Ev))' > 0
           /\ pc' = "commit" => result' = "failed" \/ Done(Ev)'
<1> USE DEF Goto, history
<1>1. Ev' = Ev /\ Ev \in Event /\ Ev.type \in EventType /\ UNCHANGED KeyOf(Ev)
  BY HandFrame, EventFields
<1>2. CASE Keys
  BY <1>2 DEF Keys, LookUp, LookUpFails, Mark, MarkFails, Commit, CommitFails, Catch, CatchFails, AfterMark
<1>3. CASE WriteRecord \/ WriteRecordFails
  BY <1>3 DEF WriteRecord, WriteRecordFails, Raise
<1>4. CASE PublishProgress \/ PublishProgressFails
  <2>1. AfterProgress(Ev) = "commit" => Ev.type \in {"click", "sent"}
    BY <1>1, <1>4 DEF AfterProgress, PublishProgress, PublishProgressFails, Stage, EventType
  <2>2. AfterProgress(Ev) \in {"escalate", "return", "commit"}
    BY DEF AfterProgress
  <2>3. pc' # "result" /\ (pc' = "commit" => AfterProgress(Ev) = "commit" /\ Progress(Ev) \in progress')
    BY <1>4, <2>2 DEF PublishProgress, PublishProgressFails, Raise
  <2>4. SameUpdate(Progress(Ev), Progress(Ev))
    BY DEF SameUpdate
  <2>5. pc' = "commit" => Done(Ev)'
    BY <1>1, <2>1, <2>3, <2>4 DEF Done
  <2>6. QED BY <2>3, <2>5
<1>5. CASE Escalate \/ EscalateFails
  <2>1. pc' # "result" /\ (pc' = "commit" => pc = "escalate" /\ Enqueue(EscalationOf(Ev)))
    BY <1>5 DEF Escalate, EscalateFails, Raise
  <2>2. pc' = "commit" => EscalationOf(Ev) \in Known'
    BY <1>1, <2>1, DerivedEvents, Enqueued DEF TypeOK, EntryType
  <2>3. pc' = "commit" => Done(Ev)'
    <3>1. SUFFICES ASSUME pc' = "commit" PROVE Done(Ev)'
      OBVIOUS
    <3>2. Ev.type = "timeout" /\ Wanted(Ev)
      BY <2>1, <3>1 DEF Stage, Claimed
    <3>3. \A e \in Event : e.type = "timeout" /\ Wanted(e) /\ EscalationOf(e) \in Known' => Done(e)'
      BY EscalationDone
    <3>4. QED BY <1>1, <2>2, <3>1, <3>2, <3>3
  <2>4. QED BY <2>1, <2>3
<1>6. CASE PublishResult \/ PublishResultFails
  <2>1. pc' # "result" /\ (pc' = "commit" => pc = "result" /\ result' = result)
    BY <1>6 DEF PublishResult, PublishResultFails
  <2>2. pc' = "commit" /\ result # "failed" => Done(Ev)
    BY <1>1, <2>1, DoneByType DEF Effects, Stage
  <2>3. Done(Ev) => Done(Ev)'
    <3>1. \A e \in Event : Done(e) => Done(e)'
      BY DoneStays
    <3>2. QED BY <1>1, <3>1
  <2>4. QED BY <2>1, <2>2, <2>3
<1>7. CASE Calls
  <2>1. pc' # "commit" /\ (pc' = "result" /\ result' # "failed" => pc = "call" /\ SendCard)
    BY <1>7 DEF Calls, FetchToken, FetchTokenFails, UpdateCard, SendCard, RequestFails, TokenRejected,
          CallFails, Raise
  <2>2. SendCard => Posted(KeyOf(Ev))' > 0
    <3>1. SUFFICES ASSUME SendCard PROVE Posted(KeyOf(Ev))' > 0
      OBVIOUS
    <3>2. \A j : Posted(j) \in Nat /\ Posted(j)' = IF j = KeyOf(Ev) THEN Posted(j) + 1 ELSE Posted(j)
      BY <3>1, PostResult DEF SendCard, CardsCounted
    <3>3. QED BY <1>1, <3>2
  <2>3. QED BY <2>1, <2>2
<1>8. QED BY <1>2, <1>3, <1>4, <1>5, <1>6, <1>7 DEF Hand, Publishes

\* A handler returns only when its event is settled.
LEMMA ReturnStep ==
    ASSUME TypeOK, Stage, HeldKeys, CardsCounted, Effects, Hand, [Next]_vars, pc' = "return"
    PROVE  Settled(Ev)
<1> USE DEF Goto
<1>1. Ev \in Event
  BY HandFrame
<1>2. CASE LookUp
  <2>1. KeyState(KeyOf(Ev)) \in {"processed", "processing"}
    BY <1>2 DEF LookUp, Taken
  <2>2. KeyState(KeyOf(Ev)) = "processed" /\ Keyed(Ev) => Done(Ev)
    BY <1>1 DEF Effects
  <2>3. KeyState(KeyOf(Ev)) = "processing" => KeyOf(Ev) \in abandoned
    BY <1>2 DEF LookUp, KeyState, HeldKeys, HoldsKey, Claimed
  <2>4. QED BY <2>1, <2>2, <2>3 DEF Settled
<1>3. CASE Commit
  BY <1>3 DEF Commit, Effects, HeldKeys, Settled, Claimed
<1>4. CASE Ev.type = "reply"
  BY <1>4 DEF Settled, Keyed
<1>5. CASE (Hand /\ ~LookUp /\ ~Commit) /\ Ev.type # "reply"
  <2>1. AfterProgress(Ev) # "return"
    BY <1>5 DEF AfterProgress
  <2>2. AfterMark(Ev) # "return"
    BY DEF AfterMark
  <2>3. FALSE
    BY <1>5, <2>1, <2>2 DEF Hand, Keys, LookUpFails, Mark, MarkFails, CommitFails, Catch, CatchFails,
          Publishes, WriteRecord, WriteRecordFails, PublishProgress, PublishProgressFails,
          Escalate, EscalateFails, PublishResult, PublishResultFails, Raise,
          Calls, FetchToken, FetchTokenFails, UpdateCard, SendCard, RequestFails, TokenRejected, CallFails
  <2>4. QED BY <2>3
<1>6. QED BY <1>2, <1>3, <1>4, <1>5

AckedSettled == \A i \in DOMAIN queue : queue[i].state = "acked" => Settled(queue[i].event)

\* An effect that was brought about stays, so what is acknowledged stays settled.
LEMMA AckedStay ==
    ASSUME TypeOK, Stage, CardsCounted, [Next]_vars,
           \A i \in DOMAIN queue' : queue'[i].state = "acked" =>
               i \in DOMAIN queue /\ queue'[i].event = queue[i].event /\ Settled(queue[i].event)
    PROVE  AckedSettled'
<1>1. SUFFICES ASSUME NEW i \in DOMAIN queue', queue'[i].state = "acked"
               PROVE  Settled(queue[i].event)'
  BY DEF AckedSettled
<1>2. i \in DOMAIN queue /\ queue'[i].event = queue[i].event /\ Settled(queue[i].event)
  BY <1>1
<1>3. queue[i].event \in Event
  BY <1>2, QueueShape DEF TypeOK, EntryType
<1>4. \A e \in Event : Settled(e) => Settled(e)'
  BY DoneStays
<1>5. QED BY <1>2, <1>3, <1>4 DEF Settled

\* The effect comes first, then the key, then the acknowledgement.
LEMMA EffectsStep ==
    ASSUME TypeOK, Stage, HeldKeys, CardsCounted, Effects, [Next]_vars
    PROVE  Effects'
<1> USE DEF history
<1>0. queue \in Seq(EntryType) /\ \A i \in DOMAIN queue : queue[i].event \in Event
  BY QueueShape DEF TypeOK, EntryType
<1>1. \A e \in Event : (Done(e) => Done(e)') /\ (Settled(e) => Settled(e)')
  BY DoneStays
<1>2. CASE Hand
  <2>1. Ev' = Ev /\ Ev \in Event
    BY <1>2, HandFrame
  <2>2. \A e \in Event : Keyed(e) /\ KeyState(KeyOf(e))' = "processed" => Done(e)'
    BY <1>2, ProcessedStep
  <2>3. /\ pc' = "result" => result' = "failed" \/ Posted(KeyOf(Ev))' > 0
        /\ pc' = "commit" => result' = "failed" \/ Done(Ev)'
    BY <1>2, CommitStep
  <2>4. pc' = "return" => Settled(Ev)'
    BY <1>1, <1>2, <2>1, ReturnStep
  <2>5. AckedSettled'
    <3>1. \A i \in DOMAIN queue' : queue'[i].state = "acked" => i \in DOMAIN queue /\ queue'[i] = queue[i]
      BY <1>2, HandFrame
    <3>2. QED BY <3>1, AckedStay DEF Effects, AckedSettled
  <2>6. QED BY <2>1, <2>2, <2>3, <2>4, <2>5 DEF Effects, AckedSettled
<1>3. CASE ~Hand
  <2>1. key' = key /\ cards' = cards
    BY <1>3, StepCases, LeavesBy, AsideFrame, ArriveFrame DEF Deliver
  <2>2. \A e \in Event : Keyed(e) /\ KeyState(KeyOf(e))' = "processed" => Done(e)'
    BY <1>1, <2>1 DEF Effects, KeyState
  <2>3. CASE Arrive \/ Aside
    <3>1. /\ UNCHANGED <<pc, result>> /\ (pc # "idle" => Ev' = Ev)
          /\ \A i \in DOMAIN queue' : queue'[i].state = "acked" => i \in DOMAIN queue /\ queue'[i] = queue[i]
      BY <2>3, ArriveFrame, AsideFrame
    <3>2. pc # "idle" => Ev \in Event
      BY EntryInHand
    <3>3. AckedSettled'
      BY <3>1, AckedStay DEF Effects, AckedSettled
    <3>4. pc = "result" => result = "failed" \/ Posted(KeyOf(Ev))' > 0
      BY <2>1, <3>1 DEF Effects, Posted
    <3>5. pc = "commit" => result = "failed" \/ Done(Ev)'
      BY <1>1, <3>1, <3>2 DEF Effects, AckedSettled
    <3>6. pc = "return" => Settled(Ev)'
      BY <1>1, <3>1, <3>2 DEF Effects, AckedSettled
    <3>7. QED BY <2>2, <3>1, <3>3, <3>4, <3>5, <3>6 DEF Effects, AckedSettled
  <2>4. CASE Deliver
    <3>1. /\ DOMAIN queue' = DOMAIN queue
          /\ \A i \in DOMAIN queue : queue'[i].event = queue[i].event /\ queue'[i].state = queue[i].state
          /\ pc' = FirstStep(Ev') /\ Ev' \in Event
      BY <2>4, Delivered
    <3>2. pc' \in {"return", "record", "lookup"} /\ (pc' = "return" => ~Keyed(Ev'))
      BY <3>1 DEF FirstStep, Keyed
    <3>3. \A e \in Event : ~Keyed(e) => Settled(e)'
      BY DEF Settled, Keyed
    <3>4. pc' = "return" => Settled(Ev)'
      BY <3>1, <3>2 DEF Settled, Keyed
    <3>5. AckedSettled'
      <4>1. \A i \in DOMAIN queue' : queue'[i].state = "acked" =>
              i \in DOMAIN queue /\ queue'[i].event = queue[i].event /\ Settled(queue[i].event)
        BY <3>1 DEF Effects, AckedSettled
      <4>2. QED BY <4>1, AckedStay
    <3>6. QED BY <2>2, <3>2, <3>4, <3>5 DEF Effects, AckedSettled
  <2>5. CASE Return \/ Throw \/ Crash
    <3>1. pc # "idle" /\ pc' = "idle"
      BY <2>5, LeavesBy
    <3>2. PICK state \in {"waiting", "acked", "dead"} : Leave(state) /\ (state = "acked" => pc = "return")
      BY <2>5 DEF Return, Throw, Crash
    <3>3. /\ DOMAIN queue' = DOMAIN queue
          /\ \A i \in DOMAIN queue :
               /\ queue'[i].event = queue[i].event
               /\ queue'[i].state = IF i = cur THEN state ELSE queue[i].state
      BY <3>1, <3>2, Left
    <3>4. \A i \in DOMAIN queue' : queue'[i].state = "acked" => Settled(queue[i].event)
      BY <3>2, <3>3 DEF Effects, Ev
    <3>5. AckedSettled'
      <4>1. \A i \in DOMAIN queue' : queue'[i].state = "acked" =>
              i \in DOMAIN queue /\ queue'[i].event = queue[i].event /\ Settled(queue[i].event)
        BY <3>3, <3>4
      <4>2. QED BY <4>1, AckedStay
    <3>6. QED BY <2>2, <3>1, <3>5 DEF Effects, AckedSettled
  <2>6. QED BY <1>3, <2>3, <2>4, <2>5, StepCases
<1>4. QED BY <1>2, <1>3

-------------------------------------------------------------------------------
(* The theorems.                                                           *)

\* The invariant holds at first.
LEMMA IInvInit == Init => IInv
<1> SUFFICES ASSUME Init PROVE IInv
  OBVIOUS
<1> USE DEF Init
<1>1. queue \in Seq(EntryType) /\ Len(queue) = 0 /\ DOMAIN queue = {}
  BY EmptySeq, LenProperties
<1>2. TypeOK
  <2>1. QueueType
    BY <1>1 DEF QueueType, Step
  <2>2. KeyType
    BY DEF KeyType
  <2>3. RestType
    BY DEF RestType, StatusType
  <2>4. QED BY <2>1, <2>2, <2>3, TypeParts
<1>3. Stage
  BY DEF Stage, Claimed, Claiming
<1>4. HeldKeys
  BY DEF HeldKeys, Claimed
<1>5. Effects
  BY <1>1 DEF Effects, KeyState
<1>6. Notices
  BY DEF Notices, Claimed
<1>7. QED BY <1>2, <1>3, <1>4, <1>5, <1>6 DEF IInv

\* Every step keeps the invariant.
LEMMA IInvStep == IInv /\ [Next]_vars => IInv'
<1> SUFFICES ASSUME IInv, [Next]_vars PROVE IInv'
  OBVIOUS
<1>1. CardsCounted
  BY DEF IInv, Notices, CardsCounted
<1>2. QED BY <1>1, TypeStep, StageStep, HeldKeysStep, EffectsStep, NoticesStep DEF IInv

\* The invariant holds in every reachable state.
LEMMA Inductive == Spec => []IInv
<1>1. Init => IInv
  BY IInvInit
<1>2. IInv /\ [Next]_vars => IInv'
  BY IInvStep
<1>3. QED BY <1>1, <1>2, PTL DEF Spec

\* Types, and an entry in hand exactly while a handler runs.
THEOREM TypeCorrect == Spec => []TypeOK
<1>1. IInv => TypeOK
  BY DEF IInv
<1>2. QED BY <1>1, Inductive, PTL

\* No event is acknowledged before its effect, except for a refused notice and for a key
\* that a crash or a rejected set left in "processing".
THEOREM AcknowledgedAfterEffect == Spec => []AckedMeansDone
<1>1. IInv => AckedMeansDone
  BY DEF IInv, Effects, Settled, Keyed, AckedMeansDone, EventsIn
<1>2. QED BY <1>1, Inductive, PTL

\* A processed key stands for an effect that took place, so a skipped duplicate loses nothing.
THEOREM SkippedWasDone == Spec => []ProcessedMeansDone
<1>1. ASSUME IInv PROVE ProcessedMeansDone
  <2>1. Known \subseteq Event
    BY <1>1, QueueShape DEF IInv, TypeOK, EntryType, Known
  <2>2. QED BY <1>1, <2>1 DEF IInv, Effects, Keyed, ProcessedMeansDone
<1>2. QED BY <1>1, Inductive, PTL

\* One notice to a target for an escalation, and one more for each failed call at most.
THEOREM NoticesAreBounded == Spec => []NoticesBounded
<1>1. IInv => NoticesBounded
  BY DEF IInv, Notices, NoticesBounded
<1>2. QED BY <1>1, Inductive, PTL

-------------------------------------------------------------------------------
(* The escalation chain.                                                   *)

\* An event that is published adds its scope under its type.
LEMMA ScopesOfGrow ==
    ASSUME NEW e \in Event, Known' = Known \cup {e}, NEW type
    PROVE  ScopesOf(type)' =
             IF e.type = type THEN ScopesOf(type) \cup ({Scope(e)} \ {NoId}) ELSE ScopesOf(type)
BY DEF ScopesOf

\* What is on the queue are events, and their scopes are ids.
LEMMA KnownScopes ==
    ASSUME TypeOK
    PROVE  Known \subseteq Event /\ \A type : ScopesOf(type) \subseteq Ids
<1>1. Known \subseteq Event
  BY QueueShape DEF TypeOK, EntryType, Known
<1>2. QED BY <1>1, EventFields DEF ScopesOf

\* The events that join the queue, and those the handler in hand works on.
LEMMA KnownSteps ==
    ASSUME TypeOK, Stage, [Next]_vars
    PROVE  /\ \/ Known' = Known
              \/ Arrive /\ \E e \in Arrivals : Known' = Known \cup {e}
              \/ Hand /\ \E e \in Event : Publishable(e) /\ Known' = Known \cup {e}
           /\ Hand => Ev \in Known
<1>1. CASE Arrive
  BY <1>1, ArriveFrame, HandQueue DEF Arrive, Claimed, Claiming, Hand
<1>2. CASE Hand
  <2>1. Ev \in Known
    BY <1>2, HandFrame DEF Known, Ev
  <2>2. queue' = queue => Known' = Known
    BY DEF Known
  <2>3. (\E e \in Event : Publishable(e) /\ Enqueue(e)) =>
           \E e \in Event : Publishable(e) /\ Known' = Known \cup {e}
    BY Enqueued DEF TypeOK, EntryType
  <2>4. QED BY <1>2, <2>1, <2>2, <2>3, HandQueue
<1>3. CASE (Deliver \/ Return \/ Throw \/ Crash \/ Aside) /\ ~Hand
  BY <1>3, Delivered, LeavesBy, Left, AsideFrame DEF Leaving
<1>4. QED BY <1>1, <1>2, <1>3, StepCases

Reported == {Or(p.ntf, p.msg) : p \in {q \in progress : q.status = "escalated"}}

\* What a handler may publish, with the stage it stands for.
LEMMA PublishedScope ==
    ASSUME IInv, ChainInv, Hand, Ev \in Known, Ev \in Event, NEW e \in Event, Publishable(e)
    PROVE  \/ /\ e.type = "triggered" /\ e.msg # NoId /\ Scope(e) \in ScopesOf("timeout")
              /\ cards' = cards /\ progress' = progress
           \/ /\ e.type = "sent" /\ (e.esc # NoId => Or(e.ntf, e.esc) \in Stages)
              /\ cards' = cards /\ progress' = progress
<1>1. cards' = cards /\ progress' = progress
  BY CardSteps, HandEffects DEF Publishable, IInv
<1>2. CASE pc = "escalate" /\ e = EscalationOf(Ev)
  <2>1. Ev.type = "timeout" /\ Ev.msg # NoId
    BY <1>2 DEF IInv, Stage, Claimed, Wanted
  <2>2. /\ e.type = "triggered" /\ e.ntf = Ev.ntf /\ e.msg = Ev.msg
    BY <1>2, DerivedEvents
  <2>3. Scope(e) = Scope(Ev) /\ Scope(Ev) # NoId
    BY <2>1, <2>2 DEF Scope, Or
  <2>4. Scope(Ev) \in ScopesOf("timeout")
    BY <2>1, <2>3 DEF ScopesOf
  <2>5. QED BY <1>1, <2>1, <2>2, <2>3, <2>4
<1>3. CASE pc = "result" /\ result # "failed" /\ e = ResultOf(Ev)
  <2>1. Posted(KeyOf(Ev)) > 0 /\ Ev.type = "triggered"
    BY <1>3 DEF IInv, Effects, Stage
  <2>2. KeyOf(Ev) \in DOMAIN cards
    BY <2>1 DEF Posted
  <2>3. KeyOf(Ev) = <<"escalation", Scope(Ev), Target(Ev)>>
    BY <2>1, KeysByType
  <2>4. Scope(Ev) \in Stages
    BY <2>2, <2>3 DEF Stages
  <2>5. e.type = "sent" /\ e.ntf = Ev.ntf /\ e.esc = Ev.msg
    BY <1>3, DerivedEvents
  <2>6. QED BY <1>1, <2>4, <2>5 DEF Scope
<1>4. QED BY <1>2, <1>3 DEF Publishable

\* A card is posted for an escalation that was triggered.
LEMMA CardedScope ==
    ASSUME IInv, ChainInv, Hand, Ev \in Known, cards' # cards
    PROVE  /\ Stages' = Stages \cup {Scope(Ev)} /\ Scope(Ev) \in ScopesOf("triggered")
           /\ progress' = progress /\ Known' = Known
<1>1. /\ pc = "call" /\ Ev.type = "triggered" /\ Post(KeyOf(Ev))
  BY CardSteps DEF IInv
<1>2. Ev \in Event
  BY KnownScopes DEF IInv
<1>3. KeyOf(Ev) = <<"escalation", Scope(Ev), Target(Ev)>>
  BY <1>1, <1>2, KeysByType
<1>4. DOMAIN cards' = DOMAIN cards \cup {KeyOf(Ev)}
  BY <1>1, PostResult DEF IInv, Notices
<1>5. Stages' = Stages \cup {Scope(Ev)}
  BY <1>3, <1>4 DEF Stages
<1>6. Scope(Ev) \in ScopesOf("timeout")
  BY <1>1 DEF ChainInv
<1>7. Scope(Ev) \in ScopesOf("triggered")
  BY <1>1, <1>6 DEF ScopesOf
<1>8. progress' = progress /\ Known' = Known
  BY <1>1, HandEffects, HandQueue DEF IInv, Publishable, Known
<1>9. QED BY <1>5, <1>7, <1>8

\* Cards and derived events keep pointing back along the chain.
LEMMA ChainInvStep ==
    ASSUME StartedHere, IInv, ChainInv, [Next]_vars
    PROVE  ChainInv'
<1>1. TypeOK /\ Stage /\ CardsCounted
  BY DEF IInv, Notices, CardsCounted
<1>2. Known \subseteq Event
  BY <1>1, KnownScopes
<1>3. CASE Known' = Known
  <2>1. \A type : ScopesOf(type)' = ScopesOf(type)
    BY <1>3 DEF ScopesOf
  <2>2. CASE cards' = cards
    BY <1>3, <2>1, <2>2 DEF ChainInv, Stages
  <2>3. CASE cards' # cards
    <3>1. Hand
      BY <2>3, StepCases, LeavesBy, AsideFrame, ArriveFrame, <1>1 DEF Deliver, history
    <3>2. Ev \in Known
      BY <1>1, <3>1, KnownSteps
    <3>3. Stages' = Stages \cup {Scope(Ev)} /\ Scope(Ev) \in ScopesOf("triggered")
      BY <2>3, <3>1, <3>2, CardedScope
    <3>4. \A k \in DOMAIN cards' : k[2] \in Stages'
      BY DEF Stages
    <3>5. Stages \subseteq ScopesOf("triggered")
      BY DEF ChainInv, Stages
    <3>6. QED BY <1>3, <2>1, <3>3, <3>4, <3>5 DEF ChainInv
  <2>4. QED BY <2>2, <2>3
<1>4. ASSUME NEW e \in Event, Known' = Known \cup {e}, cards' = cards,
             e.type = "triggered" => e.msg # NoId /\ Scope(e) \in ScopesOf("timeout"),
             e.type = "sent" /\ e.esc # NoId => Or(e.ntf, e.esc) \in Stages
      PROVE  ChainInv'
  <2>1. ScopesOf("timeout") \subseteq ScopesOf("timeout")' /\ ScopesOf("triggered") \subseteq ScopesOf("triggered")'
    BY <1>4, ScopesOfGrow
  <2>2. Stages' = Stages
    BY <1>4 DEF Stages
  <2>3. QED BY <1>4, <2>1, <2>2 DEF ChainInv
<1>5. CASE Arrive /\ \E e \in Arrivals : Known' = Known \cup {e}
  <2>1. PICK e \in Arrivals : Known' = Known \cup {e}
    BY <1>5
  <2>2. e \in Event /\ e.type # "triggered" /\ e.esc = NoId /\ cards' = cards
    BY <1>1, <1>5, ArriveFrame DEF StartedHere
  <2>3. QED BY <1>4, <2>1, <2>2
<1>6. CASE Hand /\ \E e \in Event : Publishable(e) /\ Known' = Known \cup {e}
  <2>1. PICK e \in Event : Publishable(e) /\ Known' = Known \cup {e}
    BY <1>6
  <2>2. Ev \in Known /\ Ev \in Event
    BY <1>1, <1>2, <1>6, KnownSteps
  <2>3. QED BY <1>4, <1>6, <2>1, <2>2, PublishedScope
<1>7. QED BY <1>1, <1>3, <1>5, <1>6, KnownSteps

ChainStep == [Chain!Next]_(Chain!vars)

\* Every step is one of the chain or leaves it as it is.
LEMMA ChainNext ==
    ASSUME StartedHere, IInv, ChainInv, [Next]_vars
    PROVE  ChainStep
<1> DEFINE timedOut == ScopesOf("timeout")
           triggered == ScopesOf("triggered")
<1>1. TypeOK /\ Stage /\ CardsCounted
  BY DEF IInv, Notices, CardsCounted
<1>2. Known \subseteq Event /\ timedOut \subseteq Ids /\ triggered \subseteq Ids /\ Stages \subseteq Ids
  BY <1>1, KnownScopes DEF ChainInv, Stages
<1> USE DEF ChainStep, Chain!Next, Chain!vars, Chain!TimeOut, Chain!Trigger, Chain!SendCard, Chain!Report
<1>3. ASSUME UNCHANGED <<timedOut, triggered, Stages, Reported>>
      PROVE  ChainStep
  BY <1>3 DEF Stages, Reported
<1>4. ASSUME NEW s \in Ids, UNCHANGED <<triggered, Stages, Reported>>, timedOut' = timedOut \cup {s}
      PROVE  ChainStep
  BY <1>4 DEF Stages, Reported
<1>5. ASSUME NEW s \in timedOut, UNCHANGED <<timedOut, Stages, Reported>>, triggered' = triggered \cup {s}
      PROVE  ChainStep
  BY <1>2, <1>5 DEF Stages, Reported
<1>6. ASSUME NEW s \in triggered, UNCHANGED <<timedOut, triggered, Reported>>, Stages' = Stages \cup {s}
      PROVE  ChainStep
  BY <1>2, <1>6 DEF Stages, Reported
<1>7. ASSUME NEW s \in Stages, UNCHANGED <<timedOut, triggered, Stages>>, Reported' = Reported \cup {s}
      PROVE  ChainStep
  BY <1>2, <1>7 DEF Stages, Reported
<1> HIDE DEF timedOut, triggered, ChainStep, Chain!Next, Chain!vars, Chain!TimeOut, Chain!Trigger,
             Chain!SendCard, Chain!Report
<1>8. ASSUME NEW e \in Event, Known' = Known \cup {e}
      PROVE  /\ timedOut' = IF e.type = "timeout" THEN timedOut \cup ({Scope(e)} \ {NoId}) ELSE timedOut
             /\ triggered' = IF e.type = "triggered" THEN triggered \cup ({Scope(e)} \ {NoId}) ELSE triggered
  BY <1>8, ScopesOfGrow DEF timedOut, triggered
<1>9. Known' = Known => UNCHANGED <<timedOut, triggered>>
  BY DEF timedOut, triggered, ScopesOf
<1>10. (cards' = cards => UNCHANGED Stages) /\ (progress' = progress => UNCHANGED Reported)
  BY DEF Stages, Reported
<1>11. CASE Arrive /\ \E e \in Arrivals : Known' = Known \cup {e}
  <2>1. PICK e \in Arrivals : Known' = Known \cup {e}
    BY <1>11
  <2>2. e \in Event /\ e.type # "triggered" /\ cards' = cards /\ progress' = progress
    BY <1>1, <1>11, ArriveFrame DEF StartedHere
  <2>3. UNCHANGED triggered /\ Scope(e) \in Ids \cup {NoId}
    BY <1>8, <2>1, <2>2, EventFields
  <2>4. timedOut' = timedOut \/ (Scope(e) \in Ids /\ timedOut' = timedOut \cup {Scope(e)})
    BY <1>8, <2>1, <2>2, <2>3
  <2>5. QED BY <1>3, <1>4, <1>10, <2>2, <2>3, <2>4
<1>12. CASE Hand /\ \E e \in Event : Publishable(e) /\ Known' = Known \cup {e}
  <2>1. PICK e \in Event : Publishable(e) /\ Known' = Known \cup {e}
    BY <1>12
  <2>2. Ev \in Known /\ Ev \in Event
    BY <1>1, <1>2, <1>12, KnownSteps
  <2>3. /\ cards' = cards /\ progress' = progress
        /\ e.type = "sent" \/ (e.type = "triggered" /\ Scope(e) \in timedOut)
    BY <1>12, <2>1, <2>2, PublishedScope DEF timedOut
  <2>4. NoId \notin timedOut
    BY DEF timedOut, ScopesOf
  <2>5. /\ timedOut' = timedOut
        /\ triggered' = triggered \/ (Scope(e) \in timedOut /\ triggered' = triggered \cup {Scope(e)})
    BY <1>8, <2>1, <2>3, <2>4
  <2>6. QED BY <1>3, <1>5, <1>10, <2>3, <2>5
<1>13. CASE Known' = Known /\ cards' # cards
  <2>1. Hand
    BY <1>13, StepCases, LeavesBy, AsideFrame, ArriveFrame, <1>1 DEF Deliver, history
  <2>2. Ev \in Known
    BY <1>1, <2>1, KnownSteps
  <2>3. /\ Stages' = Stages \cup {Scope(Ev)} /\ Scope(Ev) \in triggered /\ progress' = progress
    BY <1>13, <2>1, <2>2, CardedScope DEF triggered
  <2>4. QED BY <1>6, <1>9, <1>10, <1>13, <2>3
<1>14. CASE Known' = Known /\ cards' = cards /\ progress' # progress
  <2>1. Hand
    BY <1>14, StepCases, LeavesBy, AsideFrame, ArriveFrame, <1>1 DEF Deliver
  <2>2. Ev \in Known /\ Ev \in Event
    BY <1>1, <1>2, <2>1, KnownSteps
  <2>3. pc = "progress" /\ progress' = progress \cup {Progress(Ev)}
    BY <1>1, <1>14, <2>1, HandEffects
  <2>4. Ev.type # "triggered" /\ Wanted(Ev)
    BY <1>1, <2>3 DEF Stage, Claimed
  <2> DEFINE p == Progress(Ev)
  <2>5. Reported' = IF p.status = "escalated" THEN Reported \cup {Or(p.ntf, p.msg)} ELSE Reported
    BY <2>3 DEF Reported
  <2>6. CASE p.status = "escalated"
    <3>1. Ev.type = "sent" /\ Ev.esc # NoId
      BY <2>2, <2>4, <2>6, EventFields DEF Progress, Status, EventType
    <3>2. p.ntf = Ev.ntf /\ p.msg = Ev.esc
      BY <3>1 DEF Progress, ProgressMessage, Or
    <3>3. Or(p.ntf, p.msg) \in Stages
      BY <2>2, <3>1, <3>2 DEF ChainInv
    <3>4. QED BY <1>7, <1>9, <1>10, <1>14, <2>5, <2>6, <3>3
  <2>7. CASE p.status # "escalated"
    BY <1>3, <1>9, <1>10, <1>14, <2>5, <2>7
  <2>8. QED BY <2>6, <2>7
<1>15. CASE Known' = Known /\ cards' = cards /\ progress' = progress
  BY <1>3, <1>9, <1>10, <1>15
<1>16. QED BY <1>1, <1>11, <1>12, <1>13, <1>14, <1>15, KnownSteps

\* However the handlers fail, repeat and crash, escalations go through their stages in order:
\* the timeout, the escalation, its notice, the report.
THEOREM EscalationsFollowTheChain == StartedHere => (Spec => RefinesEscalationChain)
<1>1. ASSUME Init PROVE Chain!Init /\ ChainInv
  <2>1. DOMAIN queue = {} /\ cards = [k \in {} |-> 0] /\ progress = {}
    BY <1>1, EmptySeq, LenProperties DEF Init
  <2>2. Known = {} /\ \A type : ScopesOf(type) = {}
    BY <2>1 DEF Known, ScopesOf
  <2>3. QED BY <2>1, <2>2 DEF Chain!Init, ChainInv
<1>2. StartedHere /\ IInv /\ ChainInv /\ [Next]_vars => ChainInv'
  BY ChainInvStep
<1>3. StartedHere /\ IInv /\ ChainInv /\ [Next]_vars => [Chain!Next]_(Chain!vars)
  BY ChainNext DEF ChainStep
<1>4. SUFFICES ASSUME StartedHere PROVE Spec => RefinesEscalationChain
  OBVIOUS
<1>5. IInv /\ ChainInv /\ [Next]_vars => ChainInv'
  BY <1>2, <1>4
<1>6. IInv /\ ChainInv /\ [Next]_vars => [Chain!Next]_(Chain!vars)
  BY <1>3, <1>4
<1>7. QED BY <1>1, <1>5, <1>6, Inductive, PTL DEF Spec, RefinesEscalationChain, Chain!Spec
================================================================================
