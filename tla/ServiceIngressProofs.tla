------------------------- MODULE ServiceIngressProofs --------------------------
(***************************************************************************)
(* Proofs about ServiceIngress, for every number of requests, messages,    *)
(* signals, faults and milliseconds and for both brokers.                  *)
(***************************************************************************)
EXTENDS ServiceIngress, TLAPS

USE IngressAssumption

Ids == {<<>>} \cup MessageIds \cup {FreshId(r) : r \in Requests}
Codes == {0, 200, 202, 400, 404, 405, 408, 413, 500, 503}

\* The parts of the types, and what goes with each of them: where a request is and what it
\* was answered; an event has its id before it is published, and is with the broker while
\* its handler runs and ever after.
ProcessTypes ==
    /\ backend \in Backends /\ alive \in BOOLEAN /\ listening \in BOOLEAN /\ rejected \in BOOLEAN
    /\ start \in {"subscribing", "connecting", "done", "failed"}
    /\ conn \in {"none", "opening", "open", "failed", "closed"}
    /\ closers \in [Closers -> {"idle", "draining", "leaving"}]
    /\ clock \in 0..MaxClock /\ faults \in 0..MaxFaults

AnswerTypes ==
    /\ input \in [Requests -> Inputs \cup {Pushed(m) : m \in Messages}]
    /\ pc \in [Requests -> {"new", "body", "ping", "publish", "handling", "answered"}]
    /\ status \in [Requests -> Codes]
    /\ \A r \in Requests : (pc[r] = "answered") <=> (status[r] # 0)

IdTypes ==
    /\ id \in [Requests -> Ids]
    /\ cameAt \in [Requests -> 0..MaxClock]
    /\ \A r \in Requests : pc[r] \in {"publish", "handling"} \/ r \in log => id[r] # <<>>

LogTypes ==
    /\ log \subseteq Requests
    /\ \A r \in Requests : pc[r] = "handling" => r \in log
    /\ \A r \in log : pc[r] \in {"handling", "answered"}
    /\ inDoubt \subseteq log /\ handled \subseteq log /\ broke \subseteq log

KeyTypes == key \in [MessageIds -> {NoKey, "processing", "processed", "failed"}]

Shape == ProcessTypes /\ AnswerTypes /\ IdTypes /\ LogTypes /\ KeyTypes

\* The steps of a request and of the process.
RequestStep(r) ==
    \/ Arrive(r) \/ Push(r) \/ ReadBody(r) \/ ClientAborts(r) \/ BodyTimesOut(r) \/ Ready(r)
    \/ XAdd(r) \/ XAddFails(r) \/ DeliverToNobody(r)
    \/ Deliver(r) \/ HandlerReturns(r) \/ HandlerThrows(r)

ProcessStep ==
    \/ Subscribe \/ SubscribeFails \/ Connect \/ ConnectFails \/ ConsumeRejects
    \/ \E c \in Closers : Signal(c) \/ Drained(c) \/ Exit(c)
    \/ MillisecondPasses

USE DEF InHand, Closers, processVars, requestVars

-------------------------------------------------------------------------------
(* Types.                                                                  *)

LEMMA Bounds == MaxClock \in Nat /\ MaxFaults \in Nat /\ MaxSignals \in Nat
OBVIOUS

LEMMA NextSteps == Next => ProcessStep \/ \E r \in Requests : RequestStep(r)
BY DEF Next, ProcessStep, RequestStep, Work

LEMMA ShapeInit == Init => Shape
<1> SUFFICES ASSUME Init PROVE Shape
  OBVIOUS
<1> USE DEF Init
<1>1. ProcessTypes
  <2>1. backend \in Backends /\ alive \in BOOLEAN /\ listening \in BOOLEAN /\ rejected \in BOOLEAN
    OBVIOUS
  <2>2. start \in {"subscribing", "connecting"} /\ conn \in {"none", "opening"}
    OBVIOUS
  <2>3. closers \in [Closers -> {"idle", "draining", "leaving"}]
    OBVIOUS
  <2>4. clock \in 0..MaxClock /\ faults \in 0..MaxFaults
    BY Bounds
  <2>5. QED BY <2>1, <2>2, <2>3, <2>4 DEF ProcessTypes
<1>2. AnswerTypes
  BY DEF AnswerTypes, Codes
<1>3. IdTypes
  BY Bounds DEF IdTypes, Ids
<1>4. LogTypes /\ KeyTypes
  BY DEF LogTypes, KeyTypes, NoKey
<1>5. QED BY <1>1, <1>2, <1>3, <1>4 DEF Shape

\* What the process answers by itself is one of its codes, and no 202.
LEMMA OwnAnswerType ==
    \A in : OwnAnswer(in) \in Codes \ {202} /\ EarlyAnswer(in) \in Codes \ {202}
BY DEF OwnAnswer, EarlyAnswer, Codes

\* A new event has an id, of its own or of its message and millisecond.
LEMMA EventIdType ==
    ASSUME ProcessTypes, NEW r \in Requests, NEW in, in.message \in Messages
    PROVE  EventId(r, in) \in Ids /\ EventId(r, in) # <<>>
<1>1. <<in.message, clock>> \in MessageIds
  BY DEF ProcessTypes, MessageIds
<1>2. QED BY <1>1 DEF EventId, Ids, FreshId

\* Every input, received or pushed, names one of the messages.
LEMMA InputMessage ==
    ASSUME AnswerTypes, NEW r \in Requests
    PROVE  input[r].message \in Messages
BY DEF AnswerTypes, Pushed

\* An answer is a code that is not 0.
LEMMA AnswerKeepsTypes ==
    ASSUME AnswerTypes, NEW r \in Requests, NEW code \in Codes \ {0}, Answer(r, code),
           UNCHANGED input
    PROVE  AnswerTypes'
BY DEF Answer, AnswerTypes, Codes

LEMMA AnswerStep == ASSUME Shape, NEW r \in Requests, RequestStep(r) PROVE AnswerTypes'
<1> USE DEF Shape
<1>1. CASE Arrive(r)
  <2>1. PICK in \in Inputs :
          /\ input' = [input EXCEPT ![r] = in]
          /\ IF EarlyAnswer(in) # 0
             THEN Answer(r, EarlyAnswer(in))
             ELSE /\ pc' = [pc EXCEPT ![r] =
                              IF in.method = "GET" /\ in.path = "ready" THEN "ping" ELSE "body"]
                  /\ UNCHANGED status
    BY <1>1 DEF Arrive
  <2>2. EarlyAnswer(in) \in Codes
    BY OwnAnswerType
  <2>3. QED BY <1>1, <2>1, <2>2 DEF Arrive, Answer, AnswerTypes, Codes
<1>2. CASE Push(r)
  BY <1>2 DEF Push, AnswerTypes, Codes
<1>3. CASE ReadBody(r)
  <2>1. CASE OwnAnswer(input[r]) # 0
    BY <1>3, <2>1, OwnAnswerType, AnswerKeepsTypes DEF ReadBody
  <2>2. CASE OwnAnswer(input[r]) = 0
    BY <1>3, <2>2 DEF ReadBody, AnswerTypes, Codes
  <2>3. QED BY <2>1, <2>2
<1>4. CASE Deliver(r) /\ key[id[r]] \notin {"processed", "failed"}
  BY <1>4 DEF Deliver, AnswerTypes, Codes
<1>5. CASE ~ (Arrive(r) \/ Push(r) \/ ReadBody(r)
              \/ (Deliver(r) /\ key[id[r]] \notin {"processed", "failed"}))
  <2>1. PICK code \in Codes \ {0} : Answer(r, code) /\ UNCHANGED input
    BY <1>5 DEF RequestStep, ClientAborts, BodyTimesOut, Ready, XAdd, XAddFails, DeliverToNobody, Deliver,
       HandlerReturns, HandlerThrows, Published, PublishedCode, Codes
  <2>2. QED BY <2>1, AnswerKeepsTypes
<1>6. QED BY <1>1, <1>2, <1>3, <1>4, <1>5

LEMMA IdStep == ASSUME Shape, NEW r \in Requests, RequestStep(r) PROVE IdTypes'
<1> USE DEF Shape
<1>1. CASE Push(r)
  <2>1. PICK m \in Messages : id' = [id EXCEPT ![r] = EventId(r, Pushed(m))]
    BY <1>1 DEF Push
  <2>2. EventId(r, Pushed(m)) \in Ids /\ EventId(r, Pushed(m)) # <<>>
    BY EventIdType DEF Pushed
  <2>3. clock \in 0..MaxClock
    BY DEF ProcessTypes
  <2>4. QED BY <1>1, <2>1, <2>2, <2>3 DEF Push, IdTypes, AnswerTypes
<1>2. CASE ReadBody(r) /\ OwnAnswer(input[r]) = 0
  <2>1. EventId(r, input[r]) \in Ids /\ EventId(r, input[r]) # <<>>
    BY EventIdType, InputMessage
  <2>2. clock \in 0..MaxClock
    BY DEF ProcessTypes
  <2>3. QED BY <1>2, <2>1, <2>2 DEF ReadBody, IdTypes, AnswerTypes
<1>3. CASE ~ (Push(r) \/ (ReadBody(r) /\ OwnAnswer(input[r]) = 0))
  <2>1. UNCHANGED <<id, cameAt>>
    BY <1>3 DEF RequestStep, Arrive, ReadBody, ClientAborts, BodyTimesOut, Ready, XAdd, XAddFails,
       DeliverToNobody, Deliver, HandlerReturns, HandlerThrows
  <2>2. \A q \in Requests : pc'[q] \in {"publish", "handling"} => pc[q] \in {"publish", "handling"}
    BY <1>3 DEF RequestStep, Arrive, ReadBody, ClientAborts, BodyTimesOut, Ready, XAdd, XAddFails, Answer,
       DeliverToNobody, Deliver, HandlerReturns, HandlerThrows, Published, AnswerTypes
  <2>3. log' \subseteq log \cup {q \in Requests : pc[q] = "publish"}
    BY <1>3 DEF RequestStep, Arrive, ReadBody, ClientAborts, BodyTimesOut, Ready, XAdd, XAddFails,
       DeliverToNobody, Deliver, HandlerReturns, HandlerThrows
  <2>4. QED BY <2>1, <2>2, <2>3 DEF IdTypes
<1>4. QED BY <1>1, <1>2, <1>3

LEMMA LogStep == ASSUME Shape, NEW r \in Requests, RequestStep(r) PROVE LogTypes'
<1> USE DEF Shape, LogTypes, AnswerTypes, Answer, Published
<1>1. CASE Arrive(r) \/ Push(r) \/ ReadBody(r) \/ ClientAborts(r) \/ BodyTimesOut(r) \/ Ready(r)
  BY <1>1 DEF Arrive, Push, ReadBody, ClientAborts, BodyTimesOut, Ready
<1>2. CASE XAdd(r)
  BY <1>2 DEF XAdd
<1>3. CASE XAddFails(r)
  BY <1>3 DEF XAddFails
<1>4. CASE DeliverToNobody(r)
  BY <1>4 DEF DeliverToNobody
<1>5. CASE Deliver(r)
  <2>1. CASE key[id[r]] \in {"processed", "failed"}
    BY <1>5, <2>1 DEF Deliver
  <2>2. CASE key[id[r]] \notin {"processed", "failed"}
    BY <1>5, <2>2 DEF Deliver
  <2>3. QED BY <2>1, <2>2
<1>6. CASE HandlerReturns(r)
  BY <1>6 DEF HandlerReturns
<1>7. CASE HandlerThrows(r)
  BY <1>7 DEF HandlerThrows
<1>8. QED BY <1>1, <1>2, <1>3, <1>4, <1>5, <1>6, <1>7 DEF RequestStep

LEMMA KeyStep == ASSUME Shape, NEW r \in Requests, RequestStep(r) PROVE KeyTypes'
BY DEF Shape, KeyTypes, NoKey, RequestStep, Arrive, Push, ReadBody, ClientAborts, BodyTimesOut, Ready, XAdd,
   XAddFails, DeliverToNobody, Deliver, HandlerReturns, HandlerThrows

\* A request moves nothing of the process but the count of faults.
LEMMA ProcessKept == ASSUME Shape, NEW r \in Requests, RequestStep(r) PROVE ProcessTypes'
<1>1. /\ UNCHANGED <<processVars, clock>>
      /\ faults' = faults \/ (faults < MaxFaults /\ faults' = faults + 1)
  BY DEF RequestStep, Arrive, Push, ReadBody, ClientAborts, BodyTimesOut, Ready, XAdd, XAddFails, Fault,
     DeliverToNobody, Deliver, HandlerReturns, HandlerThrows
<1>2. QED BY <1>1, Bounds DEF Shape, ProcessTypes

\* The start, the shutdown and the clock leave the requests alone.
LEMMA RequestsKept == ASSUME ProcessStep PROVE UNCHANGED requestVars
BY DEF ProcessStep, Subscribe, SubscribeFails, Connect, ConnectFails, ConsumeRejects, Signal, Drained, Exit,
   MillisecondPasses

LEMMA ShapeProcess == ASSUME Shape, ProcessStep PROVE Shape'
<1> USE DEF Shape
<1>1. ProcessTypes'
  <2> USE DEF ProcessTypes
  <2>1. CASE Subscribe \/ SubscribeFails \/ Connect \/ ConnectFails \/ ConsumeRejects
    <3>1. CASE Subscribe \/ Connect \/ ConsumeRejects
      BY <3>1 DEF Subscribe, Connect, ConsumeRejects
    <3>2. CASE SubscribeFails
      BY <3>2, Bounds DEF SubscribeFails, Fault
    <3>3. CASE ConnectFails
      BY <3>3, Bounds DEF ConnectFails, Fault
    <3>4. QED BY <2>1, <3>1, <3>2, <3>3
  <2>2. ASSUME NEW c \in Closers, Signal(c) \/ Drained(c) \/ Exit(c)
        PROVE  ProcessTypes'
    BY <2>2 DEF Signal, Drained, Exit
  <2>3. CASE MillisecondPasses
    BY <2>3, Bounds DEF MillisecondPasses
  <2>4. QED BY <2>1, <2>2, <2>3 DEF ProcessStep
<1>2. AnswerTypes' /\ IdTypes' /\ LogTypes' /\ KeyTypes'
  BY RequestsKept DEF AnswerTypes, IdTypes, LogTypes, KeyTypes
<1>3. QED BY <1>1, <1>2

LEMMA ShapeStep == Shape /\ [Next]_vars => Shape'
<1> SUFFICES ASSUME Shape, [Next]_vars PROVE Shape'
  OBVIOUS
<1>1. CASE UNCHANGED vars
  BY <1>1 DEF vars, Shape, ProcessTypes, AnswerTypes, IdTypes, LogTypes, KeyTypes
<1>2. CASE ProcessStep
  BY <1>2, ShapeProcess
<1>3. ASSUME NEW r \in Requests, RequestStep(r) PROVE Shape'
  BY <1>3, AnswerStep, IdStep, LogStep, KeyStep, ProcessKept DEF Shape
<1>4. QED BY <1>1, <1>2, <1>3, NextSteps

LEMMA ShapeAlways == Spec => []Shape
BY ShapeInit, ShapeStep, PTL DEF Spec

\* The variables keep their types; a request has an answer exactly when it is through.
THEOREM TypeCorrect == Spec => []TypeOK
<1>1. Shape => TypeOK
  BY DEF Shape, ProcessTypes, AnswerTypes, IdTypes, LogTypes, KeyTypes, TypeOK, Codes
<1>2. QED BY <1>1, ShapeAlways, PTL

-------------------------------------------------------------------------------
(* What an answer tells.                                                   *)

LEMMA AnswersInit == Init => AnswerTellsPublished
BY DEF Init, AnswerTellsPublished

LEMMA AnswersRequest ==
    ASSUME Shape, AnswerTellsPublished, NEW r \in Requests, RequestStep(r)
    PROVE  AnswerTellsPublished'
<1> USE DEF Shape, LogTypes, AnswerTypes, AnswerTellsPublished, Answer, Published, PublishedCode
<1>1. CASE Arrive(r) \/ Push(r)
  BY <1>1, OwnAnswerType DEF Arrive, Push
<1>2. CASE ReadBody(r)
  BY <1>2, OwnAnswerType DEF ReadBody
<1>3. CASE ClientAborts(r) \/ BodyTimesOut(r) \/ Ready(r)
  BY <1>3 DEF ClientAborts, BodyTimesOut, Ready
<1>4. CASE XAdd(r)
  BY <1>4 DEF XAdd
<1>5. CASE XAddFails(r)
  BY <1>5 DEF XAddFails
<1>6. CASE DeliverToNobody(r)
  BY <1>6 DEF DeliverToNobody
<1>7. CASE Deliver(r)
  BY <1>7 DEF Deliver
<1>8. CASE HandlerReturns(r) \/ HandlerThrows(r)
  BY <1>8 DEF HandlerReturns, HandlerThrows
<1>9. QED BY <1>1, <1>2, <1>3, <1>4, <1>5, <1>6, <1>7, <1>8 DEF RequestStep

LEMMA AnswersStep == Shape /\ AnswerTellsPublished /\ [Next]_vars => AnswerTellsPublished'
<1> SUFFICES ASSUME Shape, AnswerTellsPublished, [Next]_vars PROVE AnswerTellsPublished'
  OBVIOUS
<1>1. CASE UNCHANGED vars
  BY <1>1 DEF vars, AnswerTellsPublished
<1>2. CASE ProcessStep
  BY <1>2, RequestsKept DEF AnswerTellsPublished
<1>3. QED BY <1>1, <1>2, AnswersRequest, NextSteps

\* A webhook is answered 202 only when its event is with the broker, and otherwise only when
\* it is not or the reply of Redis was lost (EventIngressService.handle).
THEOREM AnswersAreTrue == Spec => []AnswerTellsPublished
BY AnswersInit, AnswersStep, ShapeAlways, PTL DEF Spec

-------------------------------------------------------------------------------
(* Callbacks and the memory broker.                                        *)

Callback(r) == input[r].path = "feishu"

\* The id of a callback is made of its message and its millisecond, a key "processed" is the
\* trace of a handler that returned, and only callbacks are handled.
Traced ==
    /\ \A r \in Requests :
         (pc[r] \in {"publish", "handling"} \/ r \in log) /\ Callback(r) =>
             id[r] = <<input[r].message, cameAt[r]>>
    /\ \A i \in MessageIds :
         /\ key[i] # "failed"
         /\ key[i] = "processed" => \E q \in handled : id[q] = i
    /\ \A r \in Requests : pc[r] = "handling" => Callback(r)
    /\ \A r \in handled \cup broke : Callback(r)

\* A step of a request leaves what the others were, and when their events came.
LEMMA OthersKept ==
    ASSUME Shape, NEW r \in Requests, RequestStep(r), NEW q \in Requests, q # r
    PROVE  /\ input'[q] = input[q] /\ cameAt'[q] = cameAt[q] /\ id'[q] = id[q]
           /\ pc'[q] = pc[q]
           /\ q \in log' <=> q \in log
BY DEF Shape, IdTypes, AnswerTypes, RequestStep, Arrive, Push, ReadBody, ClientAborts, BodyTimesOut, Ready, XAdd, XAddFails,
   DeliverToNobody, Deliver, HandlerReturns, HandlerThrows, Answer, Published

\* Once its event has an id a request keeps it, and all that came with it.
LEMMA EventKept ==
    ASSUME Shape, NEW r \in Requests, RequestStep(r), pc[r] \notin {"new", "body"}
    PROVE  UNCHANGED <<input, cameAt, id>>
BY DEF RequestStep, Arrive, Push, ReadBody, ClientAborts, BodyTimesOut, Ready, XAdd, XAddFails,
   DeliverToNobody, Deliver, HandlerReturns, HandlerThrows

LEMMA TracedInit == Init => Traced
BY DEF Init, Traced, NoKey

\* A callback gets its id, and the others keep theirs.
LEMMA TracedIds ==
    ASSUME Shape, Traced, NEW r \in Requests, RequestStep(r), NEW q \in Requests,
           pc'[q] \in {"publish", "handling"} \/ q \in log', Callback(q)'
    PROVE  id'[q] = <<input'[q].message, cameAt'[q]>>
<1> USE DEF Callback
<1>1. CASE q # r
  BY <1>1, OthersKept DEF Traced
<1>2. CASE q = r /\ Push(r)
  <2>1. PICK m \in Messages :
          /\ input' = [input EXCEPT ![r] = Pushed(m)]
          /\ id' = [id EXCEPT ![r] = EventId(r, Pushed(m))]
    BY <1>2 DEF Push
  <2>2. EventId(r, Pushed(m)) = <<Pushed(m).message, clock>>
    BY DEF EventId, Pushed
  <2>3. cameAt'[r] = clock /\ id'[r] = EventId(r, Pushed(m)) /\ input'[r] = Pushed(m)
    BY <1>2, <2>1 DEF Push, Shape, IdTypes, AnswerTypes
  <2>4. QED BY <1>2, <2>2, <2>3
<1>3. CASE q = r /\ ReadBody(r)
  <2>1. r \notin log
    BY <1>3 DEF ReadBody, Shape, LogTypes
  <2>2. OwnAnswer(input[r]) = 0
    BY <1>3, <2>1 DEF ReadBody, Answer, Shape, AnswerTypes
  <2>3. cameAt'[r] = clock /\ id'[r] = EventId(r, input[r]) /\ input'[r] = input[r]
    BY <1>3, <2>2 DEF ReadBody, Shape, IdTypes
  <2>4. QED BY <1>3, <2>3 DEF EventId
<1>4. CASE q = r /\ (Arrive(r) \/ ClientAborts(r) \/ BodyTimesOut(r))
  BY <1>4 DEF Arrive, ClientAborts, BodyTimesOut, Answer, Shape, AnswerTypes, LogTypes
<1>5. CASE q = r /\ ~ (Push(r) \/ ReadBody(r) \/ Arrive(r) \/ ClientAborts(r) \/ BodyTimesOut(r))
  <2>1. pc[r] \notin {"new", "body"}
    BY <1>5 DEF RequestStep, Ready, XAdd, XAddFails, DeliverToNobody, Deliver, HandlerReturns,
       HandlerThrows
  <2>2. UNCHANGED <<input, cameAt, id>>
    BY <2>1, EventKept
  <2>3. pc[r] \in {"publish", "handling"} \/ r \in log
    BY <1>5 DEF RequestStep, Ready, XAdd, XAddFails, DeliverToNobody, Deliver, HandlerReturns,
       HandlerThrows, Answer, Shape, AnswerTypes
  <2>4. QED BY <1>5, <2>2, <2>3 DEF Traced
<1>6. QED BY <1>1, <1>2, <1>3, <1>4, <1>5

\* A key says "processed" only where a handler has returned.
LEMMA TracedKeys ==
    ASSUME Shape, Traced, NEW r \in Requests, RequestStep(r), NEW i \in MessageIds
    PROVE  /\ key'[i] # "failed"
           /\ key'[i] = "processed" => \E q \in handled' : id'[q] = i
<1>1. \A q \in handled : q \in Requests /\ id'[q] = id[q] /\ q \in handled'
  <2> SUFFICES ASSUME NEW q \in handled
               PROVE  q \in Requests /\ id'[q] = id[q] /\ q \in handled'
    OBVIOUS
  <2>1. q \in Requests /\ pc[q] \in {"handling", "answered"}
    BY DEF Shape, LogTypes
  <2>2. id'[q] = id[q]
    BY <2>1, OthersKept, EventKept
  <2>3. q \in handled'
    BY DEF RequestStep, Arrive, Push, ReadBody, ClientAborts, BodyTimesOut, Ready, XAdd, XAddFails,
       DeliverToNobody, Deliver, HandlerReturns, HandlerThrows
  <2>4. QED BY <2>1, <2>2, <2>3
<1>2. CASE HandlerReturns(r)
  <2>1. key'[i] = "processed" /\ key[i] # "processed" => id[r] = i
    BY <1>2 DEF HandlerReturns, Shape, KeyTypes
  <2>2. r \in handled' /\ id'[r] = id[r]
    BY <1>2 DEF HandlerReturns
  <2>3. key'[i] # "failed"
    BY <1>2 DEF HandlerReturns, Shape, KeyTypes, Traced
  <2>4. QED BY <1>1, <2>1, <2>2, <2>3 DEF Traced
<1>3. CASE ~ HandlerReturns(r)
  <2>1. key'[i] = key[i] \/ key'[i] = "processing"
    BY <1>3 DEF RequestStep, Arrive, Push, ReadBody, ClientAborts, BodyTimesOut, Ready, XAdd, XAddFails,
       DeliverToNobody, Deliver, HandlerThrows, Shape, KeyTypes
  <2>2. QED BY <1>1, <2>1 DEF Traced
<1>4. QED BY <1>2, <1>3

LEMMA TracedStep == ASSUME Shape, Traced, NEW r \in Requests, RequestStep(r) PROVE Traced'
<1>1. ASSUME NEW q \in Requests, pc'[q] = "handling"
      PROVE  Callback(q)'
  <2>1. CASE pc[q] = "handling"
    BY <2>1, OthersKept, EventKept DEF Traced, Callback
  <2>2. CASE pc[q] # "handling"
    <3>1. Deliver(r) /\ q = r
      BY <1>1, <2>2 DEF RequestStep, Arrive, Push, ReadBody, ClientAborts, BodyTimesOut, Ready, XAdd, XAddFails,
         DeliverToNobody, Deliver, HandlerReturns, HandlerThrows, Answer, Published, Shape,
         AnswerTypes
    <3>2. QED BY <3>1 DEF Deliver, Callback
  <2>3. QED BY <2>1, <2>2
<1>2. ASSUME NEW q \in handled' \cup broke'
      PROVE  Callback(q)'
  <2>1. CASE q \in handled \cup broke
    <3>1. q \in Requests /\ pc[q] \in {"handling", "answered"}
      BY <2>1 DEF Shape, LogTypes
    <3>2. QED BY <2>1, <3>1, OthersKept, EventKept DEF Traced, Callback
  <2>2. CASE q \notin handled \cup broke
    <3>1. q = r /\ (HandlerReturns(r) \/ HandlerThrows(r))
      BY <1>2, <2>2 DEF RequestStep, Arrive, Push, ReadBody, ClientAborts, BodyTimesOut, Ready, XAdd, XAddFails,
         DeliverToNobody, Deliver, HandlerReturns, HandlerThrows
    <3>2. pc[r] = "handling" /\ UNCHANGED input
      BY <3>1 DEF HandlerReturns, HandlerThrows
    <3>3. QED BY <3>1, <3>2 DEF Traced, Callback
  <2>3. QED BY <2>1, <2>2
<1>3. QED BY <1>1, <1>2, TracedIds, TracedKeys DEF Traced

\* What was confirmed has reached the handler, and stays so.
LEMMA ConfirmedStep ==
    ASSUME Shape, Traced, ConfirmedReachesHandler, NEW r \in Requests, RequestStep(r)
    PROVE  ConfirmedReachesHandler'
<1> SUFFICES ASSUME NEW q \in Requests, backend = "memory", pc'[q] = "answered", q \in log',
                    input'[q].path = "feishu", q \notin handled' \cup broke'
             PROVE  \E p \in handled' \cup broke' :
                      p # q /\ input'[p].message = input'[q].message /\ cameAt'[p] = cameAt'[q]
  <2>1. backend' = backend
    BY DEF RequestStep, Arrive, Push, ReadBody, ClientAborts, BodyTimesOut, Ready, XAdd, XAddFails,
       DeliverToNobody, Deliver, HandlerReturns, HandlerThrows
  <2>2. QED BY <2>1 DEF ConfirmedReachesHandler
<1>1. handled \subseteq handled' /\ broke \subseteq broke'
  BY DEF RequestStep, Arrive, Push, ReadBody, ClientAborts, BodyTimesOut, Ready, XAdd, XAddFails,
     DeliverToNobody, Deliver, HandlerReturns, HandlerThrows
<1>2. \A p \in handled \cup broke :
        p \in Requests /\ input'[p] = input[p] /\ cameAt'[p] = cameAt[p]
  <2> SUFFICES ASSUME NEW p \in handled \cup broke
               PROVE  p \in Requests /\ input'[p] = input[p] /\ cameAt'[p] = cameAt[p]
    OBVIOUS
  <2>1. p \in Requests /\ pc[p] \in {"handling", "answered"}
    BY DEF Shape, LogTypes
  <2>2. QED BY <2>1, OthersKept, EventKept
<1>3. CASE pc[q] = "answered" /\ q \in log
  <2>1. input'[q] = input[q] /\ cameAt'[q] = cameAt[q]
    BY <1>3, OthersKept, EventKept
  <2>2. QED BY <1>1, <1>2, <1>3, <2>1 DEF ConfirmedReachesHandler
<1>4. CASE ~ (pc[q] = "answered" /\ q \in log)
  <2>1. q = r
    BY <1>4, OthersKept
  <2>2. Deliver(r) /\ key[id[r]] \in {"processed", "failed"}
    BY <1>4, <2>1 DEF RequestStep, Arrive, Push, ReadBody, ClientAborts, BodyTimesOut, Ready, XAdd, XAddFails,
       DeliverToNobody, Deliver, HandlerReturns, HandlerThrows, Answer, Published, Shape, AnswerTypes,
       LogTypes, Redis
  <2>3. id[r] = <<input[r].message, cameAt[r]>> /\ id[r] \in MessageIds
    <3>1. id[r] = <<input[r].message, cameAt[r]>>
      BY <2>2 DEF Deliver, Traced, Callback
    <3>2. input[r].message \in Messages /\ cameAt[r] \in 0..MaxClock
      BY InputMessage DEF Shape, IdTypes
    <3>3. QED BY <3>1, <3>2 DEF MessageIds
  <2>4. PICK p \in handled : id[p] = id[r]
    BY <2>2, <2>3 DEF Traced
  <2>5. p # r
    BY <2>2 DEF Deliver, Shape, LogTypes
  <2>6. p \in Requests /\ p \in log /\ id[p] = <<input[p].message, cameAt[p]>>
    BY DEF Shape, LogTypes, Traced, Callback
  <2>7. UNCHANGED <<input, cameAt>>
    BY <2>2 DEF Deliver
  <2>8. QED BY <1>1, <2>1, <2>3, <2>4, <2>5, <2>6, <2>7
<1>5. QED BY <1>3, <1>4

LEMMA ConfirmedInit == Init => ConfirmedReachesHandler
BY DEF Init, ConfirmedReachesHandler

LEMMA ReachesStep ==
    Shape /\ Traced /\ ConfirmedReachesHandler /\ [Next]_vars
        => Traced' /\ ConfirmedReachesHandler'
<1> SUFFICES ASSUME Shape, Traced, ConfirmedReachesHandler, [Next]_vars
             PROVE  Traced' /\ ConfirmedReachesHandler'
  OBVIOUS
<1>1. CASE UNCHANGED vars
  BY <1>1 DEF vars, Traced, Callback, ConfirmedReachesHandler
<1>2. CASE ProcessStep
  <2>1. UNCHANGED backend
    BY <1>2 DEF ProcessStep, Subscribe, SubscribeFails, Connect, ConnectFails, ConsumeRejects, Signal, Drained,
       Exit, MillisecondPasses
  <2>2. QED BY <1>2, <2>1, RequestsKept DEF Traced, Callback, ConfirmedReachesHandler
<1>3. QED BY <1>1, <1>2, TracedStep, ConfirmedStep, NextSteps

\* With the memory broker, a confirmed click or reply reached the handler unless it shares its
\* message and millisecond with one that did.
THEOREM ConfirmedAreHandled == Spec => []ConfirmedReachesHandler
BY TracedInit, ConfirmedInit, ReachesStep, ShapeAlways, PTL DEF Spec

-------------------------------------------------------------------------------
(* Shutting down.                                                          *)

Undrained == \E r \in Requests : InHand(r) /\ input[r].method # "push"

\* Signals come in order, the first one stops the listening, and once a close() has gone past
\* the server there is no request left, or a second signal has come.  The consume loop ends the
\* process at any time.
Closing ==
    /\ \A c, d \in Closers : d < c /\ closers[c] # "idle" => closers[d] # "idle"
    /\ listening <=> \A c \in Closers : closers[c] = "idle"
    /\ (\E c \in Closers : closers[c] = "leaving") \/ (~alive /\ ~rejected) =>
         /\ ~listening
         /\ Undrained => \A c \in Closers : c <= 2 => closers[c] # "idle"

LEMMA ClosingInit == Init => Closing
BY DEF Init, Closing

\* When the server does not listen, no request comes but a push.
LEMMA NoNewRequest ==
    ASSUME Shape, NEW r \in Requests, RequestStep(r), ~listening, Undrained'
    PROVE  Undrained
<1>1. PICK q \in Requests : InHand(q)' /\ input'[q].method # "push"
  BY DEF Undrained
<1>2. CASE q # r
  BY <1>1, <1>2, OthersKept DEF Undrained
<1>3. CASE q = r
  <2>1. ~ Arrive(r)
    BY DEF Arrive
  <2>2. ~ Push(r)
    <3> SUFFICES ASSUME Push(r) PROVE FALSE
      OBVIOUS
    <3>1. input'[r].method = "push"
      BY DEF Push, Pushed, Shape, AnswerTypes
    <3>2. QED BY <1>1, <1>3, <3>1
  <2>3. pc[r] \notin {"new", "answered"} /\ UNCHANGED input
    BY <2>1, <2>2 DEF RequestStep, ReadBody, ClientAborts, BodyTimesOut, Ready, XAdd, XAddFails,
       DeliverToNobody, Deliver, HandlerReturns, HandlerThrows
  <2>4. QED BY <1>1, <1>3, <2>3 DEF Undrained
<1>4. QED BY <1>2, <1>3

LEMMA ClosingStep == Shape /\ Closing /\ [Next]_vars => Closing'
<1> SUFFICES ASSUME Shape, Closing, [Next]_vars PROVE Closing'
  OBVIOUS
<1>1. CASE UNCHANGED vars
  BY <1>1 DEF vars, Closing, Undrained
<1>2. ASSUME NEW r \in Requests, RequestStep(r) PROVE Closing'
  <2>1. UNCHANGED <<alive, rejected, listening, closers>>
    BY <1>2 DEF RequestStep, Arrive, Push, ReadBody, ClientAborts, BodyTimesOut, Ready, XAdd, XAddFails,
       DeliverToNobody, Deliver, HandlerReturns, HandlerThrows
  <2>2. QED BY <1>2, <2>1, NoNewRequest DEF Closing
<1>3. ASSUME NEW c \in Closers, Signal(c) PROVE Closing'
  <2>1. UNCHANGED <<alive, rejected, requestVars>> /\ alive /\ listening' = FALSE
    BY <1>3 DEF Signal
  <2>2. closers' \in [Closers -> {"idle", "draining", "leaving"}] /\ closers'[c] # "idle"
        /\ \A d \in Closers : d # c => closers'[d] = closers[d]
    BY <1>3 DEF Signal, Shape, ProcessTypes
  <2>3. \A d \in Closers : d < c => closers[d] # "idle"
    BY <1>3, Bounds DEF Signal
  <2>4. ASSUME NEW d \in Closers, NEW e \in Closers, e < d, closers'[d] # "idle"
        PROVE  closers'[e] # "idle"
    <3>1. CASE d = c
      BY <2>2, <2>3, <2>4, <3>1
    <3>2. CASE d # c
      BY <2>2, <2>4, <3>2 DEF Closing
    <3>3. QED BY <3>1, <3>2
  <2>5. ASSUME NEW d \in Closers, closers'[d] = "leaving", Undrained'
        PROVE  \A e \in Closers : e <= 2 => closers'[e] # "idle"
    <3>1. Undrained
      BY <2>1, <2>5 DEF Undrained
    <3>2. CASE \E e \in Closers : closers[e] = "leaving"
      BY <2>2, <3>1, <3>2 DEF Closing
    <3>3. CASE \A e \in Closers : closers[e] # "leaving"
      <4>1. d = c /\ ~listening
        BY <1>3, <2>2, <2>5, <3>3 DEF Signal, Shape, ProcessTypes
      <4>2. PICK e \in Closers : closers[e] # "idle"
        BY <4>1 DEF Closing
      <4>3. c # 1
        BY <1>3, <4>2, Bounds DEF Signal, Closing
      <4>4. QED BY <2>2, <2>3, <4>3, Bounds
    <3>4. QED BY <3>2, <3>3
  <2>6. QED BY <2>1, <2>2, <2>4, <2>5 DEF Closing
<1>4. ASSUME NEW c \in Closers, Drained(c) PROVE Closing'
  <2>1. ~Undrained /\ UNCHANGED <<alive, rejected, listening, requestVars>> /\ closers[c] = "draining"
    BY <1>4 DEF Drained, Undrained
  <2>2. \A d \in Closers : closers'[d] # "idle" <=> closers[d] # "idle"
    BY <1>4 DEF Drained, Shape, ProcessTypes
  <2>3. QED BY <2>1, <2>2 DEF Closing, Undrained
<1>5. ASSUME NEW c \in Closers, Exit(c) PROVE Closing'
  BY <1>5 DEF Exit, Closing, Undrained
<1>6. CASE ConsumeRejects
  BY <1>6 DEF ConsumeRejects, Closing, Undrained
<1>7. CASE Subscribe \/ SubscribeFails \/ Connect \/ ConnectFails \/ MillisecondPasses
  BY <1>7 DEF Subscribe, SubscribeFails, Connect, ConnectFails, MillisecondPasses, Closing, Undrained
<1>8. QED BY <1>1, <1>2, <1>3, <1>4, <1>5, <1>6, <1>7, NextSteps DEF ProcessStep

\* The process ends with every HTTP request answered unless a second signal has come or the
\* consume loop has rejected.
THEOREM ShutdownDrains == Spec => []DrainedBeforeExit
<1>1. Closing => DrainedBeforeExit
  BY DEF Closing, Undrained, DrainedBeforeExit
<1>2. QED BY <1>1, ClosingInit, ClosingStep, ShapeAlways, PTL DEF Spec
================================================================================
