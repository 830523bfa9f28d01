-------------------------- MODULE PipelineAgentProofs --------------------------
(***************************************************************************)
(* Proofs about PipelineAgent, for every set of events, builds, images and *)
(* tags, every attempt limit, and any number of crashes, pushes by others  *)
(* and expired keys.                                                       *)
(***************************************************************************)
EXTENDS PipelineAgent, TLAPS

USE PipelineAssumption

-------------------------------------------------------------------------------
(* The inductive invariant.                                                *)

\* An event that is neither acknowledged nor in hand has been put off at most MaxAttempts
\* times, and was in hand at each crash.
Budget ==
    /\ pc = "requeue" => RetriesLeft
    /\ \A e \in Events :
         /\ deliveries[e] <= MaxAttempts + 1 + crashes
         /\ e \notin closed /\ e # cur => deliveries[e] <= MaxAttempts + crashes

\* What the steps of a change to the file know about the tree and about governance.
Tree ==
    /\ pc \in {"govern", "commit", "push"} => work[ImageOf[Build]] = TagOf[Build]
    /\ pc \in {"commit", "push"} => changed /\ Build \in approved
    /\ pc = "push" => work = head

\* With nothing stranded, only the run in hand has changes in the tree, and a commit that
\* is not pushed is the one about to be.
Clean ==
    stranded = {} =>
        /\ unpushed => pc = "push"
        /\ work # head => pc \in {"govern", "discard", "commit"} /\ changed

\* A tag in the tree or in the last commit has been on the server, was stranded, or is the
\* one the run in hand is about; it is not announced before it is one of the first two.
InHandIf(condition) == IF condition THEN {PairOf(Build)} ELSE {}
Contents ==
    /\ PairsOf(remote) \subseteq seen
    /\ PairsOf(head) \subseteq seen \cup stranded \cup InHandIf(pc = "push")
    /\ PairsOf(work) \subseteq seen \cup stranded \cup InHandIf(Unfinished)
    /\ pc = "reportUpdated" => PairOf(Build) \in seen \cup stranded
    /\ UpdatedMeansPushedOrStranded

\* OnlyApprovedPushed for every pair, not only for those a build asks for.
Approvals ==
    \A pair \in seen \ stranded :
        pair[2] # OldTag => \E a \in approved : PairOf(a) = pair

\* What an acknowledged event has to show, or why it need not.
HasOutcome(b) == announced[b] \cap Outcome # {}
Accounted(e) ==
    \/ HasOutcome(BuildOf[e])
    \/ e \in deadLettered
    \/ BuildOf[e] \in abandoned
    \/ e \in interrupted

\* The run in hand has taken the key; the run in hand has announced its outcome.
Running == pc \in Step \ (Subscriber \cup {"idle", "lookup", "mark"})
Closing == {"markProcessed", "markFailed", "markBlocked", "markBuildFailed"}

\* The key of a build tells about outcomes: "processed" stands for one, "processing" for
\* one, for a run that was cut off, or for the run in hand.
OutcomesOfKeys ==
    /\ \A b \in Builds : key[b] = "processed" => HasOutcome(b)
    /\ \A b \in Builds :
         key[b] = "processing" => HasOutcome(b) \/ b \in abandoned \/ (Running /\ Build = b)
    /\ pc \in Closing => HasOutcome(Build)

\* So does the subscriber's key of an event, except between giving up and the dead letter.
OutcomesOfEvents ==
    /\ \A e \in closed : Accounted(e)
    /\ pc \in {"settle", "seal", "ack"} => Accounted(cur)
    /\ \A e \in Events : consumed[e] = "processed" => Accounted(e)
    /\ \A e \in Events :
         consumed[e] = "failed" => Accounted(e) \/ (pc = "deadLetter" /\ cur = e)

Outcomes == OutcomesOfKeys /\ OutcomesOfEvents

IInv == TypeOK /\ Budget /\ Tree /\ Clean /\ Contents /\ Approvals /\ Outcomes

-------------------------------------------------------------------------------
(* Types.                                                                  *)

\* While the handler runs, it is about a build of the instance.
LEMMA InHand ==
    ASSUME TypeOK, pc # "idle"
    PROVE  /\ cur \in Events /\ Build \in Builds
           /\ ImageOf[Build] \in Images /\ TagOf[Build] \in Tags
           /\ PairOf(Build) \in Images \X Tags
BY DEF TypeOK, Build, PairOf

\* A file tags images with tags.
LEMMA PairsType == ASSUME NEW content \in [Images -> Tags] PROVE PairsOf(content) \subseteq Images \X Tags
BY DEF PairsOf

\* The bounds are numbers.
LEMMA Numbers == MaxAttempts \in Nat /\ MaxCrashes \in Nat /\ MaxRemotePushes \in Nat /\ MaxExpiries \in Nat
OBVIOUS

\* The steps that only announce, decide or wait: the repositories and the key stay.
Decides ==
    \/ ReportBuildFailed \/ Preflight \/ ReportBlocked \/ Reject
    \/ ReportUpdated \/ ArgoSync \/ ReportSync \/ ReportCompleted \/ Catch

\* Such a step stays within the handler and changes neither key nor repositories nor history.
LEMMA DecidesOnly ==
    ASSUME TypeOK, Decides
    PROVE  /\ UNCHANGED <<busVars, key, changed, gitVars, boundVars, historyVars>>
           /\ pc \in InTry \cup OutsideTry
           /\ pc' \in (InTry \cup OutsideTry) \ {"lookup", "mark"}
           /\ \/ announced' = announced
              \/ \E type \in DerivedType : announced' = [announced EXCEPT ![Build] = @ \cup {type}]
BY DEF Decides, ReportBuildFailed, Preflight, ReportBlocked, Reject, ReportUpdated, ArgoSync,
       ReportSync, ReportCompleted, Catch, Announce, At, Goto, InTry, OutsideTry, DerivedType

\* The steps of the subscriber around the handler.
Subscribes == Settle \/ SettleFails \/ Requeue \/ GiveUp \/ DeadLetter \/ Seal \/ Ack

\* They touch neither the clone nor the build nor what has happened to them.
LEMMA SubscribesOnly ==
    ASSUME Subscribes
    PROVE  /\ UNCHANGED <<deliveries, announced, key, gitVars, boundVars, historyVars>>
           /\ pc \in Subscriber /\ pc' \in Subscriber \cup {"idle"}
           /\ changed' \in {changed, FALSE}
BY DEF Subscribes, Settle, SettleFails, Requeue, GiveUp, DeadLetter, Seal, Ack, Leave, Caught,
       At, Goto, Subscriber

\* Where the key is set to what, as far as the invariant depends on it.
SetAt(state) == (state = "processing" => pc = "mark") /\ (state = "processed" => pc = "markProcessed")

\* A rejected call has written nothing, or the one thing it was to write.
LEMMA RejectedWrites ==
    ASSUME TypeOK, pc # "idle", Rejected
    PROVE  /\ announced' \in [Builds -> SUBSET DerivedType]
           /\ key' \in [Builds -> {"none", "processing", "processed", "failed"}]
           /\ \A b \in Builds : announced[b] \subseteq announced'[b]
           /\ \A b \in Builds :
                "gitops.yaml.updated" \in announced'[b] =>
                    "gitops.yaml.updated" \in announced[b] \/ (pc = "reportUpdated" /\ b = Build)
           /\ \A b \in Builds : key'[b] # key[b] => b = Build /\ SetAt(key'[b])
<1>1. /\ announced \in [Builds -> SUBSET DerivedType]
      /\ key \in [Builds -> {"none", "processing", "processed", "failed"}]
      /\ Build \in Builds
  BY InHand DEF TypeOK
<1>2. CASE UNCHANGED <<announced, key>>
  BY <1>1, <1>2
<1>3. ASSUME NEW type \in DerivedType, <<pc, type>> \in Publishing, UNCHANGED key,
             announced' = [announced EXCEPT ![Build] = @ \cup {type}]
      PROVE  /\ announced' \in [Builds -> SUBSET DerivedType]
             /\ \A b \in Builds : announced[b] \subseteq announced'[b]
             /\ \A b \in Builds :
                  "gitops.yaml.updated" \in announced'[b] =>
                      "gitops.yaml.updated" \in announced[b] \/ (pc = "reportUpdated" /\ b = Build)
  <2>1. type = "gitops.yaml.updated" => pc = "reportUpdated"
    BY <1>3 DEF Publishing
  <2>2. QED BY <1>1, <1>3, <2>1
<1>4. ASSUME NEW state \in {"processing", "processed", "failed"}, <<pc, state>> \in Setting,
             UNCHANGED announced, key' = [key EXCEPT ![Build] = state]
      PROVE  /\ key' \in [Builds -> {"none", "processing", "processed", "failed"}]
             /\ \A b \in Builds : key'[b] # key[b] => b = Build /\ SetAt(key'[b])
  <2>1. SetAt(state)
    BY <1>4 DEF Setting, SetAt
  <2>2. QED BY <1>1, <1>4, <2>1
<1>5. QED BY <1>1, <1>2, <1>3, <1>4 DEF Rejected

\* The awaits of the handler, with those that only decide taken together.
LEMMA HandleSteps ==
    Handle <=>
        \/ Decides
        \/ LookUp \/ Mark \/ EnsureRepository \/ UpdateImage \/ UpdateImageFails \/ Approve
        \/ Discard \/ Commit \/ Push \/ MarkProcessed \/ MarkFailed \/ Raise \/ Throw
        \/ Subscribes
BY DEF Handle, Decides, Subscribes

\* At first nothing was delivered, written or announced.
LEMMA TypeInit == Init => TypeOK /\ Budget
<1> SUFFICES ASSUME Init PROVE TypeOK /\ Budget
  OBVIOUS
<1> USE DEF Init
<1>1. /\ remote \in [Images -> Tags] /\ head = remote /\ work = remote
      /\ seen \subseteq Images \X Tags
  BY PairsType
<1>2. /\ deliveries \in [Events -> 0..(MaxAttempts + 1 + MaxCrashes)]
      /\ announced \in [Builds -> SUBSET DerivedType]
      /\ key \in [Builds -> {"none", "processing", "processed", "failed"}]
      /\ commits \in [Builds -> Nat]
      /\ consumed \in [Events -> {"open", "processed", "failed"}]
  BY Numbers
<1>3. crashes \in 0..MaxCrashes /\ remotePushes \in 0..MaxRemotePushes /\ expiries \in 0..MaxExpiries
  BY Numbers
<1>4. pc \in Step
  BY DEF Step
<1>5. TypeOK
  <2>1. {remote, head, work} \subseteq [Images -> Tags]
    BY <1>1
  <2>2. {seen, stranded} \subseteq SUBSET (Images \X Tags)
    BY <1>1
  <2>3. {unpushed, behind} \subseteq BOOLEAN /\ changed \in BOOLEAN
    OBVIOUS
  <2>4. cur = NoEvent <=> pc = "idle"
    OBVIOUS
  <2>5. QED BY <2>1, <2>2, <2>3, <2>4, <1>2, <1>3, <1>4 DEF TypeOK
<1>6. Budget
  BY Numbers DEF Budget
<1>7. QED BY <1>5, <1>6

-------------------------------------------------------------------------------
(* The bus: what a step does to the event in hand.                         *)

Continues ==
    /\ UNCHANGED <<cur, closed, deliveries, crashes>>
    /\ pc # "idle" /\ pc' \in Step \ {"idle"}
    /\ pc' = "requeue" => RetriesLeft
    /\ \/ UNCHANGED consumed
       \/ \E state \in {"processed", "failed"} : SetConsumed(state)
    /\ deadLettered' \in {deadLettered, deadLettered \cup {cur}}
Stays == UNCHANGED <<busVars, crashes, pc>>

\* Every step delivers an event, goes on with it, puts it off, acknowledges it, loses it in
\* a crash, or has nothing to do with it.
LEMMA BusEffects ==
    ASSUME TypeOK, [Next]_vars
    PROVE  (\E e \in Events : Deliver(e)) \/ Continues \/ Requeue \/ Ack \/ Crash \/ Stays
<1> USE DEF busVars, boundVars, At, Goto, Step, InTry, OutsideTry, Subscriber
<1>1. CASE Handle
  <2>1. CASE Decides
    BY <2>1, DecidesOnly DEF Continues
  <2>2. CASE LookUp
    BY <2>2 DEF LookUp, Return, Continues
  <2>3. CASE Mark \/ Approve \/ Raise
    BY <2>3 DEF Mark, SetKey, Approve, Raise, Continues
  <2>4. CASE EnsureRepository \/ UpdateImage \/ UpdateImageFails
    BY <2>4 DEF EnsureRepository, UpdateImage, UpdateImageFails, Continues
  <2>5. CASE Discard \/ Commit \/ Push
    BY <2>5 DEF Discard, Commit, Push, Continues
  <2>6. CASE MarkProcessed \/ MarkFailed
    BY <2>6 DEF MarkProcessed, MarkFailed, SetKey, Return, Continues
  <2>7. CASE Throw
    BY <2>7 DEF Throw, Caught, Continues
  <2>8. CASE Subscribes
    BY <2>8 DEF Subscribes, Settle, SettleFails, Caught, GiveUp, DeadLetter, Seal, Continues
  <2>9. QED BY <1>1, <2>1, <2>2, <2>3, <2>4, <2>5, <2>6, <2>7, <2>8, HandleSteps
<1>2. CASE (\E i \in Images : RemotePush(i)) \/ (\E b \in Builds : KeyExpires(b)) \/ UNCHANGED vars
  BY <1>2 DEF RemotePush, KeyExpires, Stays, vars
<1>3. QED BY <1>1, <1>2 DEF Next

BusType ==
    /\ cur \in Events \cup {NoEvent}
    /\ cur = NoEvent <=> pc = "idle"
    /\ consumed \in [Events -> {"open", "processed", "failed"}]
    /\ deadLettered \subseteq Events /\ closed \subseteq Events
    /\ deliveries \in [Events -> 0..(MaxAttempts + 1 + MaxCrashes)]
    /\ pc \in Step
    /\ crashes \in 0..MaxCrashes

\* An event in hand has been delivered, and one that is put off is within its attempts.
LEMMA BusStep ==
    ASSUME TypeOK, Budget, [Next]_vars
    PROVE  BusType' /\ Budget'
<1> DEFINE Limit == MaxAttempts + 1 + MaxCrashes
<1>1. BusType
  BY DEF TypeOK, BusType
<1>2. \A e \in Events : deliveries[e] \in Nat /\ deliveries[e] <= MaxAttempts + 1 + crashes
  BY Numbers, <1>1 DEF BusType, Budget
<1>3. CASE \E e \in Events : Deliver(e)
  <2>1. PICK e \in Events : Deliver(e)
    BY <1>3
  <2>2. /\ cur' = e /\ pc' \in {"lookup", "ack"}
        /\ UNCHANGED <<consumed, closed, deadLettered, crashes>>
        /\ deliveries' = [deliveries EXCEPT ![e] = @ + 1]
        /\ e \notin closed /\ cur = NoEvent
    BY <2>1, <1>1 DEF Deliver, At, Goto, boundVars, BusType
  <2>3. deliveries[e] <= MaxAttempts + crashes
    BY <2>2 DEF Budget
  <2>4. \A f \in Events : deliveries'[f] \in Nat /\ deliveries'[f] <= MaxAttempts + 1 + crashes
    BY <1>1, <1>2, <2>2, <2>3, Numbers DEF BusType
  <2>5. deliveries' \in [Events -> 0..Limit]
    BY <1>1, <2>2, <2>4, Numbers DEF BusType
  <2>6. BusType'
    BY <1>1, <2>2, <2>5 DEF BusType, Step, OutsideTry, Subscriber
  <2>7. Budget'
    BY <1>1, <2>2, <2>4 DEF BusType, Budget
  <2>8. QED BY <2>6, <2>7
<1>4. CASE Continues
  <2>1. cur \in Events
    BY <1>1, <1>4 DEF BusType, Continues
  <2>2. consumed' \in [Events -> {"open", "processed", "failed"}]
    BY <1>1, <1>4, <2>1 DEF BusType, Continues, SetConsumed
  <2>3. BusType'
    BY <1>1, <1>4, <2>1, <2>2 DEF BusType, Continues
  <2>4. Budget'
    BY <1>4 DEF Budget, Continues, RetriesLeft, Attempt
  <2>5. QED BY <2>3, <2>4
<1>5. CASE Stays
  BY <1>1, <1>5 DEF BusType, Budget, Stays, busVars, RetriesLeft, Attempt
<1>6. CASE Ack
  <2>1. /\ cur \in Events /\ cur' = NoEvent /\ pc' = "idle" /\ closed' = closed \cup {cur}
        /\ UNCHANGED <<consumed, deadLettered, deliveries, crashes>>
    BY <1>1, <1>6 DEF Ack, Leave, At, Goto, boundVars, BusType
  <2>2. QED BY <1>1, <1>2, <2>1 DEF BusType, Budget, Step
<1>7. CASE Requeue
  <2>1. /\ cur \in Events /\ cur' = NoEvent /\ pc' = "idle" /\ SetConsumed("open")
        /\ UNCHANGED <<closed, deadLettered, deliveries, crashes>>
    BY <1>1, <1>7 DEF Requeue, Leave, At, Goto, boundVars, BusType
  <2>2. deliveries[cur] <= MaxAttempts
    BY <1>1, <1>2, <1>7, <2>1, Numbers DEF Requeue, At, Budget, RetriesLeft, Attempt, BusType
  <2>3. BusType'
    BY <1>1, <2>1 DEF BusType, Step, SetConsumed
  <2>4. Budget'
    BY <1>1, <1>2, <2>1, <2>2, Numbers DEF BusType, Budget
  <2>5. QED BY <2>3, <2>4
<1>8. CASE Crash
  <2>1. /\ cur \in Events /\ cur' = NoEvent /\ pc' = "idle"
        /\ UNCHANGED <<consumed, closed, deadLettered, deliveries>>
        /\ crashes' = crashes + 1 /\ crashes < MaxCrashes
    BY <1>1, <1>8 DEF Crash, Leave, At, Goto, BusType
  <2>2. BusType'
    BY <1>1, <2>1, Numbers DEF BusType, Step
  <2>3. Budget'
    BY <1>1, <1>2, <2>1, Numbers DEF BusType, Budget
  <2>4. QED BY <2>2, <2>3
<1>9. QED BY <1>3, <1>4, <1>5, <1>6, <1>7, <1>8, BusEffects

-------------------------------------------------------------------------------
(* The run, the repositories and what has happened.                        *)

RepositoryType == remote \in [Images -> Tags] /\ head \in [Images -> Tags] /\ work \in [Images -> Tags]
RunType ==
    /\ announced \in [Builds -> SUBSET DerivedType]
    /\ key \in [Builds -> {"none", "processing", "processed", "failed"}]
    /\ changed \in BOOLEAN /\ unpushed \in BOOLEAN /\ behind \in BOOLEAN
    /\ remotePushes \in 0..MaxRemotePushes
    /\ expiries \in 0..MaxExpiries
    /\ seen \subseteq Images \X Tags /\ stranded \subseteq Images \X Tags
    /\ approved \subseteq Builds /\ abandoned \subseteq Builds /\ interrupted \subseteq Events
    /\ commits \in [Builds -> Nat]

\* TypeOK in three parts, which different steps disturb.
LEMMA TypeParts == TypeOK <=> BusType /\ RepositoryType /\ RunType
<1> DEFINE Sets == {seen, stranded} \subseteq SUBSET (Images \X Tags)
<1>1. {remote, head, work} \subseteq [Images -> Tags] <=> RepositoryType
  BY DEF RepositoryType
<1>2. Sets <=> seen \subseteq Images \X Tags /\ stranded \subseteq Images \X Tags
  OBVIOUS
<1>3. {unpushed, behind} \subseteq BOOLEAN <=> unpushed \in BOOLEAN /\ behind \in BOOLEAN
  OBVIOUS
<1>4. QED BY <1>1, <1>2, <1>3 DEF TypeOK, BusType, RunType

\* Every step keeps the types of the repository and of the run in hand.
LEMMA RunStep ==
    ASSUME TypeOK, [Next]_vars
    PROVE  RepositoryType' /\ RunType'
<1>1. RepositoryType /\ RunType
  BY TypeParts
<1> USE DEF busVars, gitVars, boundVars, historyVars
<1>2. CASE Handle
  <2>1. At("idle") => FALSE
    <3>1. CASE Decides \/ Subscribes
      BY <3>1, DecidesOnly, SubscribesOnly DEF At, InTry, OutsideTry, Subscriber
    <3>2. CASE ~Decides /\ ~Subscribes
      BY <1>2, <3>2, HandleSteps DEF LookUp, Mark, EnsureRepository, UpdateImage,
          UpdateImageFails, Approve, Discard, Commit, Push, MarkProcessed, MarkFailed, Raise,
          Throw, At, InTry, OutsideTry
    <3>3. QED BY <3>1, <3>2
  <2>2. /\ cur \in Events /\ Build \in Builds
        /\ ImageOf[Build] \in Images /\ TagOf[Build] \in Tags
        /\ PairOf(Build) \in Images \X Tags
    BY <2>1, InHand DEF At
  <2>3. \A left \in BOOLEAN : StrandedBy(left) \subseteq Images \X Tags
    BY <1>1, <2>2 DEF RunType, StrandedBy
  <2>4. CASE Decides
    BY <1>1, <2>2, <2>4, DecidesOnly DEF RepositoryType, RunType
  <2>5. CASE LookUp
    BY <1>1, <2>5 DEF LookUp, Return, RepositoryType, RunType
  <2>6. CASE Mark \/ MarkProcessed \/ MarkFailed
    BY <1>1, <2>2, <2>6 DEF Mark, MarkProcessed, MarkFailed, SetKey, Return, RepositoryType, RunType
  <2>7. CASE EnsureRepository \/ Approve \/ Discard
    BY <1>1, <2>2, <2>7 DEF EnsureRepository, Approve, Discard, Restored, RepositoryType, RunType
  <2>8. CASE UpdateImage \/ UpdateImageFails
    <3>1. Updated \in [Images -> Tags]
      BY <1>1, <2>2 DEF Updated, RepositoryType
    <3>2. StrandedBy(TRUE) \subseteq Images \X Tags /\ (Updated # work) \in BOOLEAN
      BY <2>3
    <3>3. CASE UpdateImage
      BY <1>1, <3>1, <3>2, <3>3 DEF UpdateImage, RepositoryType, RunType
    <3>4. CASE UpdateImageFails
      BY <1>1, <3>1, <3>2, <3>4 DEF UpdateImageFails, RepositoryType, RunType
    <3>5. QED BY <2>8, <3>3, <3>4
  <2>9. CASE Commit
    <3>1. UNCHANGED <<remote, work, announced, key, changed, behind, remotePushes, expiries, seen,
                      stranded, approved, abandoned, interrupted>>
      BY <2>9 DEF Commit
    <3>2. head' \in {head, work} /\ unpushed' \in {unpushed, TRUE}
          /\ commits' \in {commits, [commits EXCEPT ![Build] = @ + 1]}
      BY <2>9 DEF Commit
    <3>3. [commits EXCEPT ![Build] = @ + 1] \in [Builds -> Nat]
      BY <1>1, <2>2 DEF RunType
    <3>4. RepositoryType'
      BY <1>1, <3>1, <3>2 DEF RepositoryType
    <3>5. RunType'
      BY <1>1, <3>1, <3>2, <3>3 DEF RunType
    <3>6. QED BY <3>4, <3>5
  <2>10. CASE Push
    <3>1. PairsOf(head) \subseteq Images \X Tags
      BY <1>1, PairsType DEF RepositoryType
    <3>2. QED BY <1>1, <2>10, <3>1 DEF Push, RepositoryType, RunType
  <2>11. CASE Raise \/ Throw
    <3>1. Rejected /\ pc # "idle"
      BY <2>1, <2>11 DEF Raise, Throw, At
    <3>2. /\ announced' \in [Builds -> SUBSET DerivedType]
          /\ key' \in [Builds -> {"none", "processing", "processed", "failed"}]
      BY <3>1, RejectedWrites
    <3>3. QED BY <1>1, <2>2, <2>3, <2>11, <3>2 DEF Raise, Throw, Unfinished, RepositoryType, RunType
  <2>12. CASE Subscribes
    BY <1>1, <2>12, SubscribesOnly DEF RepositoryType, RunType
  <2>13. QED BY <1>2, <2>4, <2>5, <2>6, <2>7, <2>8, <2>9, <2>10, <2>11, <2>12, HandleSteps
<1>3. CASE \E e \in Events : Deliver(e)
  BY <1>1, <1>3 DEF Deliver, RepositoryType, RunType
<1>4. CASE Crash
  <2>1. cur \in Events /\ Build \in Builds /\ PairOf(Build) \in Images \X Tags
    BY <1>4, InHand DEF Crash, At
  <2>2. StrandedBy(Unfinished) \subseteq Images \X Tags
    BY <1>1, <2>1 DEF RunType, StrandedBy
  <2>3. QED BY <1>1, <1>4, <2>1, <2>2 DEF Crash, Leave, RepositoryType, RunType
<1>5. CASE \E i \in Images : RemotePush(i)
  <2>1. PICK i \in Images : RemotePush(i)
    BY <1>5
  <2>2. remote' \in [Images -> Tags] /\ <<i, OldTag>> \in Images \X Tags
    BY <1>1, <2>1 DEF RemotePush, RepositoryType
  <2>3. remotePushes' \in 0..MaxRemotePushes
    BY <1>1, <2>1, Numbers DEF RemotePush, RunType
  <2>4. QED BY <1>1, <2>1, <2>2, <2>3 DEF RemotePush, RepositoryType, RunType
<1>6. CASE \E b \in Builds : KeyExpires(b)
  <2>1. PICK b \in Builds : KeyExpires(b)
    BY <1>6
  <2>2. expiries' \in 0..MaxExpiries
    BY <1>1, <2>1, Numbers DEF KeyExpires, RunType
  <2>3. QED BY <1>1, <2>1, <2>2 DEF KeyExpires, RepositoryType, RunType
<1>7. CASE UNCHANGED vars
  BY <1>1, <1>7 DEF vars, RepositoryType, RunType
<1>8. QED BY <1>2, <1>3, <1>4, <1>5, <1>6, <1>7 DEF Next

\* A delivery is paid for by the budget: TypeOK and Budget are kept together.
LEMMA TypeStep ==
    ASSUME TypeOK, Budget, [Next]_vars
    PROVE  TypeOK' /\ Budget'
<1>1. (BusType /\ RepositoryType /\ RunType)' => TypeOK'
  BY TypeParts, PTL
<1>2. QED BY BusStep, RunStep, <1>1

-------------------------------------------------------------------------------
(* The clone: which steps touch the repositories or the changed file.      *)

\* The calls between writing the file and having pushed or restored it.
Writing == {"govern", "discard", "commit", "push"}

Elsewhere ==
    /\ UNCHANGED <<gitVars, seen, stranded, approved>>
    /\ \/ UNCHANGED <<pc, cur, changed>>
       \/ pc \notin Writing /\ pc' \notin Writing \cup {"reportUpdated"}

\* The steps that write the file, or follow one that did.
Writes ==
    \/ Reject \/ EnsureRepository \/ UpdateImage \/ UpdateImageFails \/ Approve \/ Discard
    \/ Commit \/ Push \/ Raise \/ Crash \/ \E i \in Images : RemotePush(i)

\* The update is announced where its turn is, and nowhere else.
AnnouncesUpdates ==
    \A b \in Builds :
        "gitops.yaml.updated" \in announced'[b] =>
            "gitops.yaml.updated" \in announced[b] \/ (pc = "reportUpdated" /\ b = Build)

\* A step leaves the clone alone or writes to it.
LEMMA CloneEffects ==
    ASSUME TypeOK, [Next]_vars
    PROVE  (Elsewhere \/ Writes) /\ AnnouncesUpdates
<1>0. announced \in [Builds -> SUBSET DerivedType]
  BY TypeParts DEF RunType
<1> USE DEF busVars, gitVars, boundVars, historyVars, At, Goto, Writing
<1>1. CASE Handle
  <2>1. CASE Decides
    <3>1. CASE Reject
      BY <3>1 DEF Reject, Writes, AnnouncesUpdates
    <3>2. CASE Preflight \/ ArgoSync
      BY <3>2 DEF Preflight, ArgoSync, Elsewhere, AnnouncesUpdates
    <3>3. ASSUME NEW type, NEW next, Announce(type, next),
                 pc \notin Writing, next \notin Writing \cup {"reportUpdated"},
                 type = "gitops.yaml.updated" => pc = "reportUpdated"
          PROVE  Elsewhere /\ AnnouncesUpdates
      BY <1>0, <3>3 DEF Announce, Elsewhere, AnnouncesUpdates
    <3>4. CASE ReportBuildFailed \/ ReportBlocked \/ Catch
      BY <3>3, <3>4 DEF ReportBuildFailed, ReportBlocked, Catch
    <3>5. CASE ReportUpdated
      BY <3>3, <3>5 DEF ReportUpdated
    <3>6. CASE ReportSync \/ ReportCompleted
      BY <3>3, <3>6 DEF ReportSync, ReportCompleted
    <3>7. QED BY <2>1, <3>1, <3>2, <3>4, <3>5, <3>6 DEF Decides
  <2>2. CASE LookUp
    BY <2>2 DEF LookUp, Return, Elsewhere, AnnouncesUpdates
  <2>3. CASE Mark \/ MarkProcessed \/ MarkFailed
    BY <2>3 DEF Mark, MarkProcessed, MarkFailed, SetKey, Return, Elsewhere, AnnouncesUpdates
  <2>4. CASE Throw \/ Raise
    <3>1. AnnouncesUpdates
      BY <2>4, RejectedWrites DEF Throw, Raise, InTry, OutsideTry, AnnouncesUpdates
    <3>2. Throw => Elsewhere
      BY DEF Throw, Caught, OutsideTry, Elsewhere
    <3>3. QED BY <2>4, <3>1, <3>2 DEF Writes
  <2>5. CASE EnsureRepository \/ UpdateImage \/ UpdateImageFails
    BY <2>5 DEF EnsureRepository, UpdateImage, UpdateImageFails, Writes, AnnouncesUpdates
  <2>6. CASE Approve \/ Discard
    BY <2>6 DEF Approve, Discard, Writes, AnnouncesUpdates
  <2>7. CASE Commit \/ Push
    BY <2>7 DEF Commit, Push, Writes, AnnouncesUpdates
  <2>8. CASE Subscribes
    BY <2>8, SubscribesOnly DEF Subscriber, Elsewhere, AnnouncesUpdates
  <2>9. QED BY <1>1, <2>1, <2>2, <2>3, <2>4, <2>5, <2>6, <2>7, <2>8, HandleSteps
<1>2. CASE \E e \in Events : Deliver(e)
  BY <1>2 DEF Deliver, Elsewhere, AnnouncesUpdates
<1>3. CASE Crash
  BY <1>3 DEF Crash, Writes, AnnouncesUpdates
<1>4. CASE \E i \in Images : RemotePush(i)
  BY <1>4 DEF RemotePush, Writes, AnnouncesUpdates
<1>5. CASE (\E b \in Builds : KeyExpires(b)) \/ UNCHANGED vars
  BY <1>5 DEF KeyExpires, vars, Elsewhere, AnnouncesUpdates
<1>6. QED BY <1>1, <1>2, <1>3, <1>4, <1>5 DEF Next

\* pull, edit, governance and commit come in this order, and nothing edits in between.
LEMMA TreeStep ==
    ASSUME TypeOK, Tree, [Next]_vars
    PROVE  Tree'
<1> USE DEF At, Goto, Build, gitVars, busVars
<1>1. CASE Elsewhere
  BY <1>1 DEF Elsewhere, Writing, Tree
<1>2. CASE Reject \/ EnsureRepository \/ Discard \/ UpdateImageFails \/ Raise \/ Crash
  BY <1>2 DEF Reject, EnsureRepository, Discard, UpdateImageFails, Raise, Crash, Leave, Tree
<1>3. CASE UpdateImage
  <2>1. work \in [Images -> Tags] /\ ImageOf[Build] \in Images
    BY <1>3, TypeParts, InHand DEF UpdateImage, RepositoryType
  <2>2. QED BY <1>3, <2>1 DEF UpdateImage, Updated, Tree
<1>4. CASE Approve
  BY <1>4 DEF Approve, Tree
<1>5. CASE Commit \/ Push
  BY <1>5 DEF Commit, Push, Tree
<1>6. CASE \E i \in Images : RemotePush(i)
  BY <1>6 DEF RemotePush, Tree
<1>7. QED BY <1>1, <1>2, <1>3, <1>4, <1>5, <1>6, CloneEffects DEF Writes

\* discard and push clear the tree again; what they miss is stranded.
LEMMA CleanStep ==
    ASSUME TypeOK, Tree, Clean, [Next]_vars
    PROVE  Clean'
<1> USE DEF At, Goto, gitVars, busVars, historyVars
<1>1. CASE Elsewhere
  BY <1>1 DEF Elsewhere, Writing, Clean
<1>2. CASE Reject \/ Approve
  BY <1>2 DEF Reject, Approve, Clean
<1>3. CASE EnsureRepository
  BY <1>3 DEF EnsureRepository, Clean
<1>4. CASE UpdateImage
  BY <1>4 DEF UpdateImage, Clean
<1>5. CASE UpdateImageFails
  BY <1>5 DEF UpdateImageFails, StrandedBy, Clean
<1>6. CASE Discard
  BY <1>6 DEF Discard, Restored, Clean
<1>7. CASE Commit
  BY <1>7 DEF Commit, Clean
<1>8. CASE Push
  BY <1>8 DEF Push, Clean
<1>9. CASE Raise \/ Crash
  <2>1. stranded' = {} => stranded = {} /\ ~Unfinished
    BY <1>9 DEF Raise, Crash, StrandedBy
  <2>2. stranded' = {} => ~unpushed /\ work = head
    BY <2>1 DEF Clean, Tree, Unfinished
  <2>3. UNCHANGED <<unpushed, work, head>>
    BY <1>9 DEF Raise, Crash
  <2>4. QED BY <2>2, <2>3 DEF Clean
<1>10. CASE \E i \in Images : RemotePush(i)
  BY <1>10 DEF RemotePush, Clean
<1>11. QED BY <1>1, <1>2, <1>3, <1>4, <1>5, <1>6, <1>7, <1>8, <1>9, <1>10, CloneEffects DEF Writes

\* What has been seen, stranded or approved stays so.
LEMMA HistoryGrows ==
    ASSUME TypeOK, [Next]_vars
    PROVE  seen \subseteq seen' /\ stranded \subseteq stranded' /\ approved \subseteq approved'
<1> USE DEF historyVars, StrandedBy
<1>1. CASE Reject \/ EnsureRepository \/ Discard \/ Commit \/ UpdateImage
  BY <1>1 DEF Reject, EnsureRepository, Discard, Commit, UpdateImage
<1>2. CASE UpdateImageFails \/ Approve \/ Raise \/ Crash
  BY <1>2 DEF UpdateImageFails, Approve, Raise, Crash
<1>3. CASE Push \/ \E i \in Images : RemotePush(i)
  BY <1>3 DEF Push, RemotePush
<1>4. CASE Elsewhere
  BY <1>4 DEF Elsewhere
<1>5. QED BY <1>1, <1>2, <1>3, <1>4, CloneEffects DEF Writes

\* The file after an update says nothing but what it said before and the pair of the build.
LEMMA UpdatedPairs ==
    ASSUME TypeOK, pc # "idle"
    PROVE  PairsOf(Updated) \subseteq PairsOf(work) \cup {PairOf(Build)}
<1>1. work \in [Images -> Tags] /\ ImageOf[Build] \in Images
  BY TypeParts, InHand DEF RepositoryType
<1>2. \A i \in Images : Updated[i] = IF i = ImageOf[Build] THEN TagOf[Build] ELSE work[i]
  BY <1>1 DEF Updated
<1>3. QED BY <1>2 DEF PairsOf, PairOf

\* The tree that holds the tag of the build holds its pair.
LEMMA PairInTree ==
    ASSUME TypeOK, Tree, pc \in {"govern", "commit", "push"}
    PROVE  PairOf(Build) \in PairsOf(work)
BY InHand DEF Tree, PairsOf, PairOf

ContentsOfClone ==
    /\ PairsOf(remote) \subseteq seen
    /\ PairsOf(head) \subseteq seen \cup stranded \cup InHandIf(pc = "push")
    /\ PairsOf(work) \subseteq seen \cup stranded \cup InHandIf(Unfinished)
    /\ pc = "reportUpdated" => PairOf(Build) \in seen \cup stranded

\* A tag reaches the clone by a pull or by the run in hand, and the server by a push.
LEMMA ContentsStep ==
    ASSUME TypeOK, Tree, Contents, [Next]_vars
    PROVE  Contents'
<1> USE DEF At, Goto, gitVars, busVars, historyVars
<1> DEFINE Known == seen \cup stranded
<1>1. ContentsOfClone /\ UpdatedMeansPushedOrStranded
  BY DEF Contents, ContentsOfClone
<1>2. Known \subseteq Known'
  BY HistoryGrows
<1>3. pc # "push" => PairsOf(head) \subseteq Known
  BY <1>1 DEF ContentsOfClone, InHandIf
<1>4. ~Unfinished => PairsOf(work) \subseteq Known
  BY <1>1 DEF ContentsOfClone, InHandIf
<1>5. PairsOf(head) \subseteq Known \cup {PairOf(Build)} /\ PairsOf(work) \subseteq Known \cup {PairOf(Build)}
  BY <1>1 DEF ContentsOfClone, InHandIf
<1>6. UpdatedMeansPushedOrStranded'
  <2>1. AnnouncesUpdates
    BY CloneEffects
  <2>2. QED BY <1>1, <1>2, <2>1 DEF AnnouncesUpdates, ContentsOfClone, UpdatedMeansPushedOrStranded, PairOf
<1>7. ContentsOfClone'
  <2>1. CASE Elsewhere
    <3>1. CASE UNCHANGED <<pc, cur, changed>>
      BY <1>1, <2>1, <3>1 DEF Elsewhere, ContentsOfClone, PairsOf, InHandIf, Unfinished, Build, PairOf
    <3>2. CASE pc \notin Writing /\ pc' \notin Writing \cup {"reportUpdated"}
      <4>1. PairsOf(head) \subseteq Known /\ PairsOf(work) \subseteq Known
        BY <1>3, <1>4, <3>2 DEF Writing, Unfinished
      <4>2. QED BY <1>1, <2>1, <3>2, <4>1 DEF Elsewhere, Writing, ContentsOfClone, PairsOf
    <3>3. QED BY <2>1, <3>1, <3>2 DEF Elsewhere
  <2>2. CASE Reject
    BY <1>1, <2>2 DEF Reject, ContentsOfClone, PairsOf, InHandIf, Unfinished, Build, PairOf
  <2>3. CASE EnsureRepository
    <3>1. PairsOf(head) \subseteq Known /\ PairsOf(work) \subseteq Known /\ PairsOf(remote) \subseteq Known
      BY <1>1, <1>3, <1>4, <2>3 DEF EnsureRepository, Unfinished, ContentsOfClone
    <3>2. PairsOf(head)' \subseteq Known /\ PairsOf(work)' \subseteq Known
      BY <2>3, <3>1 DEF EnsureRepository, PairsOf
    <3>3. QED BY <1>1, <1>2, <2>3, <3>2 DEF EnsureRepository, ContentsOfClone, PairsOf
  <2>4. CASE UpdateImage
    <3>1. PairsOf(head) \subseteq Known /\ PairsOf(work) \subseteq Known
      BY <1>3, <1>4, <2>4 DEF UpdateImage, Unfinished
    <3>2. PairsOf(work)' = PairsOf(Updated)
      BY <2>4 DEF UpdateImage, PairsOf
    <3>3. PairsOf(Updated) \subseteq Known \cup {PairOf(Build)}
      BY <2>4, <3>1, UpdatedPairs DEF UpdateImage
    <3>4. ~changed' => PairsOf(Updated) \subseteq Known
      BY <2>4, <3>1 DEF UpdateImage
    <3>5. PairsOf(work)' \subseteq (Known \cup InHandIf(Unfinished))'
      BY <1>2, <2>4, <3>2, <3>3, <3>4 DEF UpdateImage, InHandIf, Unfinished, Build, PairOf
    <3>6. QED BY <1>1, <2>4, <3>1, <3>5 DEF UpdateImage, ContentsOfClone, PairsOf
  <2>5. CASE UpdateImageFails
    <3>1. PairsOf(head) \subseteq Known /\ PairsOf(work) \subseteq Known
      BY <1>3, <1>4, <2>5 DEF UpdateImageFails, Unfinished
    <3>2. PairsOf(work)' \subseteq Known \cup {PairOf(Build)}
      BY <2>5, <3>1, UpdatedPairs DEF UpdateImageFails, PairsOf
    <3>3. Known' = Known \cup {PairOf(Build)}
      BY <2>5 DEF UpdateImageFails, StrandedBy
    <3>4. QED BY <1>1, <2>5, <3>1, <3>2, <3>3 DEF UpdateImageFails, ContentsOfClone, PairsOf
  <2>6. CASE Approve
    <3>1. PairsOf(head) \subseteq Known
      BY <1>3, <2>6 DEF Approve
    <3>2. CASE changed
      BY <1>1, <2>6, <3>1, <3>2 DEF Approve, ContentsOfClone, PairsOf, InHandIf, Unfinished, Build, PairOf
    <3>3. CASE ~changed
      <4>1. PairOf(Build) \in PairsOf(work) /\ PairsOf(work) \subseteq Known
        BY <1>4, <2>6, <3>3, PairInTree DEF Approve, Unfinished
      <4>2. QED BY <1>1, <2>6, <3>1, <3>3, <4>1 DEF Approve, ContentsOfClone, PairsOf, Build, PairOf
    <3>4. QED BY <3>2, <3>3
  <2>7. CASE Discard
    <3>1. PairsOf(head) \subseteq Known /\ PairsOf(Restored) \subseteq Known
      BY <1>3, <1>4, <2>7 DEF Discard, Restored, Unfinished
    <3>2. QED BY <1>1, <2>7, <3>1 DEF Discard, ContentsOfClone, PairsOf
  <2>8. CASE Commit
    <3>1. PairOf(Build) \in PairsOf(work) /\ PairsOf(head) \subseteq Known /\ changed
      BY <1>3, <2>8, PairInTree DEF Commit, Tree
    <3>2. CASE work = head
      BY <1>1, <2>8, <3>1, <3>2 DEF Commit, ContentsOfClone, PairsOf, Build, PairOf
    <3>3. CASE work # head
      BY <1>1, <1>5, <2>8, <3>1, <3>3 DEF Commit, ContentsOfClone, PairsOf, InHandIf, Unfinished, Build, PairOf
    <3>4. QED BY <3>2, <3>3
  <2>9. CASE Push
    <3>1. PairOf(Build) \in PairsOf(work) /\ work = head
      BY <2>9, PairInTree DEF Push, Tree
    <3>2. UNCHANGED <<head, work, cur>> /\ remote' = head /\ seen' = seen \cup PairsOf(head)
      BY <2>9 DEF Push
    <3>3. QED BY <2>9, <3>1, <3>2 DEF ContentsOfClone, PairsOf, Build, PairOf
  <2>10. CASE Raise \/ Crash
    <3>1. stranded' = StrandedBy(Unfinished) /\ UNCHANGED <<remote, head, work, seen>>
      BY <2>10 DEF Raise, Crash
    <3>2. pc = "push" => Unfinished
      BY DEF Tree, Unfinished
    <3>3. PairsOf(head) \subseteq Known' /\ PairsOf(work) \subseteq Known'
      BY <1>2, <1>3, <1>4, <1>5, <3>1, <3>2 DEF StrandedBy
    <3>4. pc' \in {"catch", "idle"}
      BY <2>10 DEF Raise, Crash, Leave
    <3>5. QED BY <1>1, <3>1, <3>3, <3>4 DEF ContentsOfClone, PairsOf
  <2>11. CASE \E i \in Images : RemotePush(i)
    <3>1. PICK i \in Images : RemotePush(i)
      BY <2>11
    <3>2. PairsOf(remote)' \subseteq PairsOf(remote) \cup {<<i, OldTag>>}
      BY <3>1, TypeParts DEF RemotePush, PairsOf, RepositoryType
    <3>3. PairsOf(remote)' \subseteq seen'
      BY <1>1, <3>1, <3>2 DEF RemotePush, ContentsOfClone
    <3>4. UNCHANGED <<head, work, pc, cur, changed, stranded>>
      BY <3>1 DEF RemotePush
    <3>5. QED BY <1>1, <1>2, <3>3, <3>4 DEF ContentsOfClone, PairsOf, InHandIf, Unfinished, Build, PairOf
  <2>12. QED
    BY <2>1, <2>2, <2>3, <2>4, <2>5, <2>6, <2>7, <2>8, <2>9, <2>10, <2>11, CloneEffects DEF Writes
<1>8. QED BY <1>6, <1>7 DEF Contents, ContentsOfClone

\* A push that strands nothing carries only what governance approved.
LEMMA ApprovalsStep ==
    ASSUME TypeOK, Tree, Contents, Approvals, [Next]_vars
    PROVE  Approvals'
<1> DEFINE ApprovedPair(pair) == pair[2] # OldTag => \E a \in approved' : PairOf(a) = pair
<1>1. stranded \subseteq stranded' /\ approved \subseteq approved'
  BY HistoryGrows
<1>2. \A pair \in seen \ stranded : ApprovedPair(pair)
  BY <1>1 DEF Approvals
<1>3. SUFFICES \A pair \in seen' \ seen : pair \in stranded' \/ ApprovedPair(pair)
  BY <1>1, <1>2, <1>3 DEF Approvals, PairOf
<1>4. CASE Push
  <2>1. seen' \ seen \subseteq stranded \cup {PairOf(Build)}
    BY <1>4 DEF Push, Contents, InHandIf
  <2>2. Build \in approved'
    BY <1>1, <1>4 DEF Push, At, Tree
  <2>3. QED BY <1>1, <2>1, <2>2
<1>5. CASE \E i \in Images : RemotePush(i)
  BY <1>5 DEF RemotePush
<1>6. CASE Elsewhere \/ Reject \/ EnsureRepository \/ Discard \/ Commit \/ UpdateImage
  BY <1>6 DEF Elsewhere, Reject, EnsureRepository, Discard, Commit, UpdateImage, historyVars
<1>7. CASE UpdateImageFails \/ Approve \/ Raise \/ Crash
  BY <1>7 DEF UpdateImageFails, Approve, Raise, Crash
<1>8. QED BY <1>4, <1>5, <1>6, <1>7, CloneEffects DEF Writes

-------------------------------------------------------------------------------
(* What becomes of a build: its events and its key.                        *)

\* What has come of a build or of an event stays so.
LEMMA OutcomesGrow ==
    ASSUME TypeOK, [Next]_vars
    PROVE  /\ \A b \in Builds : HasOutcome(b) => HasOutcome(b)'
           /\ \A e \in Events : Accounted(e) => Accounted(e)'
           /\ abandoned \subseteq abandoned'
<1>0. announced \in [Builds -> SUBSET DerivedType] /\ BuildOf \in [Events -> Builds]
  BY TypeParts DEF RunType
<1> USE DEF busVars, gitVars, boundVars, historyVars, At
<1> DEFINE Grows == /\ \A b \in Builds : announced[b] \subseteq announced'[b]
                    /\ abandoned \subseteq abandoned'
                    /\ deadLettered \subseteq deadLettered'
                    /\ interrupted \subseteq interrupted'
<1>1. ASSUME Handle PROVE Grows
  <2>1. CASE Decides
    BY <1>0, <2>1, DecidesOnly
  <2>2. CASE LookUp \/ Mark \/ MarkProcessed \/ MarkFailed
    BY <2>2 DEF LookUp, Mark, MarkProcessed, MarkFailed, SetKey, Return
  <2>3. CASE EnsureRepository \/ UpdateImage \/ UpdateImageFails
    BY <2>3 DEF EnsureRepository, UpdateImage, UpdateImageFails
  <2>4. CASE Approve \/ Discard \/ Commit \/ Push
    BY <2>4 DEF Approve, Discard, Commit, Push
  <2>5. CASE Throw \/ Raise
    <3>1. \A b \in Builds : announced[b] \subseteq announced'[b]
      BY <2>5, RejectedWrites DEF Throw, Raise, InTry, OutsideTry
    <3>2. QED BY <2>5, <3>1 DEF Throw, Raise
  <2>6. CASE Subscribes
    BY <2>6 DEF Subscribes, Settle, SettleFails, Requeue, GiveUp, DeadLetter, Seal, Ack
  <2>7. QED BY <1>1, <2>1, <2>2, <2>3, <2>4, <2>5, <2>6, HandleSteps
<1>2. ASSUME Crash PROVE Grows
  BY <1>2 DEF Crash
<1>3. ASSUME \/ \E e \in Events : Deliver(e)
             \/ \E i \in Images : RemotePush(i)
             \/ \E b \in Builds : KeyExpires(b)
             \/ UNCHANGED vars
      PROVE  Grows
  BY <1>3 DEF Deliver, RemotePush, KeyExpires, vars
<1>4. Grows
  BY <1>1, <1>2, <1>3 DEF Next
<1>5. QED BY <1>0, <1>4 DEF HasOutcome, Accounted

\* The steps that set no key: those within a run or outside of it, those around the run,
\* and those that announce something.
Idles ==
    /\ UNCHANGED cur
    /\ Running => Running'
    /\ pc' \in Closing => pc = pc'
    /\ \A b \in Builds : key'[b] \in {key[b], "none"}
Rests == UNCHANGED key /\ ~Running /\ pc' \notin Closing
Tells ==
    /\ UNCHANGED <<cur, key>>
    /\ Running /\ Running'
    /\ \E type \in DerivedType :
         /\ announced' = [announced EXCEPT ![Build] = @ \cup {type}]
         /\ pc' \in Closing => type \in Outcome

\* The key of a build is set by the steps named here only.
LEMMA KeyEffects ==
    ASSUME TypeOK, [Next]_vars
    PROVE  Idles \/ Rests \/ Tells \/ Mark \/ MarkProcessed \/ MarkFailed \/ Throw \/ Raise \/ Crash
<1>0. key \in [Builds -> {"none", "processing", "processed", "failed"}]
  BY TypeParts DEF RunType
<1> USE DEF busVars, gitVars, boundVars, historyVars, At, Goto, Closing
<1> USE DEF Running, Step, InTry, OutsideTry, Subscriber
<1>1. CASE Handle
  <2>1. CASE Decides
    <3>1. CASE Preflight \/ Reject \/ ArgoSync
      BY <3>1 DEF Preflight, Reject, ArgoSync, Idles
    <3>2. CASE ReportBuildFailed \/ ReportBlocked \/ Catch
      BY <3>2 DEF ReportBuildFailed, ReportBlocked, Catch, Announce, Tells, Outcome, DerivedType
    <3>3. CASE ReportUpdated \/ ReportSync \/ ReportCompleted
      BY <3>3 DEF ReportUpdated, ReportSync, ReportCompleted, Announce, Tells, Outcome, DerivedType
    <3>4. QED BY <2>1, <3>1, <3>2, <3>3 DEF Decides
  <2>2. CASE EnsureRepository \/ UpdateImage \/ UpdateImageFails
    BY <2>2 DEF EnsureRepository, UpdateImage, UpdateImageFails, Idles
  <2>3. CASE Approve \/ Discard \/ Commit \/ Push
    BY <2>3 DEF Approve, Discard, Commit, Push, Idles
  <2>4. CASE LookUp
    BY <2>4 DEF LookUp, Return, Rests
  <2>5. CASE Subscribes
    BY <2>5, SubscribesOnly DEF Rests
  <2>6. QED BY <1>1, <2>1, <2>2, <2>3, <2>4, <2>5, HandleSteps
<1>2. CASE \E i \in Images : RemotePush(i)
  BY <1>2 DEF RemotePush, Idles
<1>3. CASE \E b \in Builds : KeyExpires(b)
  BY <1>0, <1>3 DEF KeyExpires, Idles
<1>4. CASE UNCHANGED vars
  BY <1>4 DEF vars, Idles
<1>5. CASE \E e \in Events : Deliver(e)
  BY <1>5 DEF Deliver, Rests
<1>6. QED BY <1>1, <1>2, <1>3, <1>4, <1>5 DEF Next

\* The key is marked after the event is published, or the build is abandoned.
LEMMA KeysStep ==
    ASSUME TypeOK, OutcomesOfKeys, [Next]_vars
    PROVE  OutcomesOfKeys'
<1> USE DEF busVars, gitVars, boundVars, historyVars, At, Goto
<1>0. /\ key \in [Builds -> {"none", "processing", "processed", "failed"}]
      /\ announced \in [Builds -> SUBSET DerivedType]
  BY TypeParts DEF RunType
<1>1. /\ \A b \in Builds : HasOutcome(b) => HasOutcome(b)'
      /\ abandoned \subseteq abandoned'
  BY OutcomesGrow
<1>2. CASE Idles
  <2>1. pc' \in Closing => HasOutcome(Build)'
    <3>1. SUFFICES ASSUME pc' \in Closing PROVE HasOutcome(Build)'
      OBVIOUS
    <3>2. pc \in Closing /\ Build' = Build
      BY <1>2, <3>1 DEF Idles, Build
    <3>3. Build \in Builds /\ HasOutcome(Build)
      BY <3>2, InHand DEF OutcomesOfKeys, Closing
    <3>4. QED BY <1>1, <3>2, <3>3 DEF HasOutcome
  <2>2. QED BY <1>1, <1>2, <2>1 DEF Idles, OutcomesOfKeys, Build
<1>3. CASE Rests
  BY <1>1, <1>3 DEF Rests, OutcomesOfKeys
<1>4. CASE Tells
  <2>1. Build \in Builds /\ Build' = Build
    BY <1>4, InHand DEF Tells, Running, Build
  <2>2. pc' \in Closing => HasOutcome(Build)'
    BY <1>0, <1>4, <2>1 DEF HasOutcome, Tells
  <2>3. QED BY <1>1, <1>4, <2>1, <2>2 DEF Tells, OutcomesOfKeys
<1>5. CASE Mark
  <2>1. Build \in Builds /\ Build' = Build
    BY <1>5, InHand DEF Mark, Build
  <2>2. /\ key' = [key EXCEPT ![Build] = "processing"]
        /\ ~Running /\ Running' /\ pc' \notin Closing
    BY <1>5 DEF Mark, SetKey, Running, Closing, Step, InTry, OutsideTry, Subscriber
  <2>3. \A b \in Builds : key'[b] = IF b = Build THEN "processing" ELSE key[b]
    BY <1>0, <2>1, <2>2
  <2>4. QED BY <1>1, <2>1, <2>2, <2>3 DEF OutcomesOfKeys
<1>6. CASE MarkProcessed \/ MarkFailed
  <2>1. Build \in Builds /\ HasOutcome(Build)
    BY <1>6, InHand DEF MarkProcessed, MarkFailed, OutcomesOfKeys, Closing
  <2>2. pc' = "settle" /\ \E state \in {"processed", "failed"} : key' = [key EXCEPT ![Build] = state]
    BY <1>6 DEF MarkProcessed, MarkFailed, SetKey, Return
  <2>3. /\ \A b \in Builds : b # Build => key'[b] = key[b]
        /\ key'[Build] # "processing"
    BY <1>0, <2>1, <2>2
  <2>4. QED BY <1>1, <2>1, <2>2, <2>3 DEF OutcomesOfKeys, Closing
<1>7. CASE Throw
  <2>1. \A b \in Builds : key'[b] # key[b] => b = Build /\ SetAt(key'[b])
    BY <1>7, RejectedWrites DEF Throw, OutsideTry
  <2>2. /\ pc' \in {"requeue", "giveUp"} /\ pc # "markProcessed"
        /\ pc = "mark" /\ key' # key => Build \in abandoned'
        /\ Running => Build \in abandoned'
    BY <1>7 DEF Throw, Caught, Running, OutsideTry
  <2>3. QED BY <1>1, <2>1, <2>2 DEF OutcomesOfKeys, SetAt, Closing
<1>8. CASE Raise
  <2>1. \A b \in Builds : key'[b] # key[b] => b = Build /\ SetAt(key'[b])
    BY <1>8, RejectedWrites DEF Raise, InTry
  <2>2. /\ pc' = "catch" /\ pc # "mark" /\ Build' = Build /\ Running'
        /\ pc = "markProcessed" => HasOutcome(Build)
    BY <1>8 DEF Raise, Running, Step, InTry, OutsideTry, Subscriber, Build, OutcomesOfKeys, Closing
  <2>3. QED BY <1>1, <2>1, <2>2 DEF OutcomesOfKeys, SetAt, Closing
<1>9. CASE Crash
  <2>1. UNCHANGED key /\ pc' = "idle" /\ (Running => Build \in abandoned')
    BY <1>9 DEF Crash, Leave, Running
  <2>2. QED BY <1>1, <2>1 DEF OutcomesOfKeys, Closing
<1>10. QED BY <1>2, <1>3, <1>4, <1>5, <1>6, <1>7, <1>8, <1>9, KeyEffects

\* The run in hand goes on or fails: nothing is settled.
Unsettled ==
    /\ UNCHANGED <<cur, consumed, closed, deadLettered>>
    /\ \/ UNCHANGED pc
       \/ pc # "deadLetter" /\ pc' \notin {"settle", "seal", "ack"}

\* An event is settled by the return of the handler and by the subscriber's steps only.
LEMMA EventEffects ==
    ASSUME TypeOK, [Next]_vars
    PROVE  \/ Unsettled
           \/ LookUp \/ MarkProcessed \/ MarkFailed
           \/ Subscribes \/ Crash \/ \E e \in Events : Deliver(e)
<1> USE DEF busVars, gitVars, boundVars, historyVars, At, Goto, Unsettled
<1>1. CASE Handle
  <2>1. CASE Decides
    BY <2>1, DecidesOnly DEF InTry, OutsideTry
  <2>2. CASE Mark \/ Approve \/ Discard \/ Commit \/ Push
    BY <2>2 DEF Mark, SetKey, Approve, Discard, Commit, Push
  <2>3. CASE EnsureRepository \/ UpdateImage \/ UpdateImageFails
    BY <2>3 DEF EnsureRepository, UpdateImage, UpdateImageFails
  <2>4. CASE Throw \/ Raise
    BY <2>4 DEF Throw, Raise, Caught, InTry, OutsideTry
  <2>5. QED BY <1>1, <2>1, <2>2, <2>3, <2>4, HandleSteps
<1>2. CASE (\E i \in Images : RemotePush(i)) \/ (\E b \in Builds : KeyExpires(b)) \/ UNCHANGED vars
  BY <1>2 DEF RemotePush, KeyExpires, vars
<1>3. QED BY <1>1, <1>2 DEF Next

\* The subscriber settles only what the handler returned, or what it has dead-lettered.
LEMMA EventsStep ==
    ASSUME TypeOK, OutcomesOfKeys, OutcomesOfEvents, [Next]_vars
    PROVE  OutcomesOfEvents'
<1> USE DEF busVars, gitVars, boundVars, historyVars, At, Goto
<1>0. /\ consumed \in [Events -> {"open", "processed", "failed"}]
      /\ closed \subseteq Events /\ BuildOf \in [Events -> Builds]
      /\ cur \in Events \cup {NoEvent} /\ (cur = NoEvent <=> pc = "idle")
  BY TypeParts DEF BusType
<1>1. \A e \in Events : Accounted(e) => Accounted(e)'
  BY OutcomesGrow
<1>2. CASE Unsettled
  <2>1. pc' \in {"settle", "seal", "ack"} => cur \in Events /\ Accounted(cur) /\ cur' = cur
    BY <1>0, <1>2 DEF Unsettled, OutcomesOfEvents
  <2>2. QED BY <1>0, <1>1, <1>2, <2>1 DEF Unsettled, OutcomesOfEvents
<1>3. CASE LookUp \/ MarkProcessed \/ MarkFailed
  <2>1. cur \in Events /\ Build \in Builds /\ Build = BuildOf[cur]
    BY <1>3, InHand DEF LookUp, MarkProcessed, MarkFailed, Build
  <2>2. /\ UNCHANGED <<cur, consumed, closed, deadLettered>> /\ pc # "deadLetter"
        /\ pc' \in {"mark", "settle"}
    BY <1>3 DEF LookUp, MarkProcessed, MarkFailed, SetKey, Return
  <2>3. pc' = "settle" => HasOutcome(Build) \/ Build \in abandoned
    <3>1. CASE LookUp
      BY <2>1, <3>1 DEF LookUp, OutcomesOfKeys, Running
    <3>2. CASE MarkProcessed \/ MarkFailed
      BY <3>2 DEF MarkProcessed, MarkFailed, OutcomesOfKeys, Closing
    <3>3. QED BY <1>3, <3>1, <3>2
  <2>4. pc' = "settle" => Accounted(cur)
    BY <2>1, <2>3 DEF Accounted
  <2>5. QED BY <1>0, <1>1, <2>1, <2>2, <2>4 DEF OutcomesOfEvents
<1>4. CASE Subscribes
  <2>1. cur \in Events
    BY <1>0, <1>4, SubscribesOnly DEF Subscriber
  <2>2. CASE Settle \/ SettleFails
    <3>1. /\ UNCHANGED <<cur, closed>> /\ pc = "settle" /\ pc' \in {"ack", "requeue", "giveUp"}
          /\ SetConsumed("processed") \/ UNCHANGED consumed
      BY <2>2 DEF Settle, SettleFails, Caught
    <3>2. Accounted(cur)'
      BY <1>1, <2>1, <3>1 DEF OutcomesOfEvents
    <3>3. \A e \in Events : consumed'[e] # consumed[e] => e = cur /\ consumed'[e] = "processed"
      BY <1>0, <2>1, <3>1 DEF SetConsumed
    <3>4. QED BY <1>0, <1>1, <2>1, <3>1, <3>2, <3>3 DEF OutcomesOfEvents
  <2>3. CASE Requeue
    <3>1. UNCHANGED closed /\ pc = "requeue" /\ pc' = "idle" /\ SetConsumed("open")
      BY <2>3 DEF Requeue, Leave
    <3>2. \A e \in Events : consumed'[e] \in {consumed[e], "open"}
      BY <1>0, <2>1, <3>1 DEF SetConsumed
    <3>3. QED BY <1>0, <1>1, <3>1, <3>2 DEF OutcomesOfEvents
  <2>4. CASE GiveUp
    <3>1. /\ UNCHANGED <<cur, closed>> /\ pc = "giveUp" /\ pc' = "deadLetter"
          /\ SetConsumed("failed")
      BY <2>4 DEF GiveUp
    <3>2. \A e \in Events : consumed'[e] # consumed[e] => e = cur /\ consumed'[e] = "failed"
      BY <1>0, <2>1, <3>1 DEF SetConsumed
    <3>3. QED BY <1>0, <1>1, <2>1, <3>1, <3>2 DEF OutcomesOfEvents
  <2>5. CASE DeadLetter
    <3>1. /\ UNCHANGED <<cur, closed, consumed>> /\ pc = "deadLetter" /\ pc' = "seal"
          /\ cur \in deadLettered'
      BY <2>5 DEF DeadLetter
    <3>2. Accounted(cur)'
      BY <3>1 DEF Accounted
    <3>3. QED BY <1>0, <1>1, <2>1, <3>1, <3>2 DEF OutcomesOfEvents
  <2>6. CASE Seal
    <3>1. /\ UNCHANGED <<cur, closed>> /\ pc = "seal" /\ pc' = "ack" /\ SetConsumed("failed")
      BY <2>6 DEF Seal
    <3>2. Accounted(cur)'
      BY <1>1, <2>1, <3>1 DEF OutcomesOfEvents
    <3>3. \A e \in Events : consumed'[e] # consumed[e] => e = cur
      BY <1>0, <2>1, <3>1 DEF SetConsumed
    <3>4. QED BY <1>0, <1>1, <2>1, <3>1, <3>2, <3>3 DEF OutcomesOfEvents
  <2>7. CASE Ack
    <3>1. UNCHANGED consumed /\ pc = "ack" /\ pc' = "idle" /\ closed' = closed \cup {cur}
      BY <2>7 DEF Ack, Leave
    <3>2. QED BY <1>0, <1>1, <2>1, <3>1 DEF OutcomesOfEvents
  <2>8. QED BY <1>4, <2>2, <2>3, <2>4, <2>5, <2>6, <2>7 DEF Subscribes
<1>5. CASE Crash
  <2>1. /\ UNCHANGED <<consumed, closed>> /\ pc' = "idle"
        /\ pc = "deadLetter" => cur \in interrupted'
    BY <1>5 DEF Crash, Leave
  <2>2. \A e \in Events : pc = "deadLetter" /\ cur = e => Accounted(e)'
    BY <2>1 DEF Accounted
  <2>3. QED BY <1>0, <1>1, <2>1, <2>2 DEF OutcomesOfEvents
<1>6. CASE \E e \in Events : Deliver(e)
  <2>1. PICK e \in Events : Deliver(e)
    BY <1>6
  <2>2. /\ UNCHANGED <<consumed, closed>> /\ pc = "idle" /\ cur' = e
        /\ pc' = IF consumed[e] = "open" THEN "lookup" ELSE "ack"
    BY <2>1 DEF Deliver
  <2>3. consumed[e] # "open" => Accounted(e)'
    BY <1>0, <1>1, <2>2 DEF OutcomesOfEvents
  <2>4. QED BY <1>0, <1>1, <2>2, <2>3 DEF OutcomesOfEvents
<1>7. QED BY <1>2, <1>3, <1>4, <1>5, <1>6, EventEffects

-------------------------------------------------------------------------------
(* The theorems.                                                           *)

\* The invariant holds at first.
LEMMA IInvInit == Init => IInv
<1> SUFFICES ASSUME Init PROVE IInv
  OBVIOUS
<1>1. TypeOK /\ Budget
  BY TypeInit
<1> USE DEF Init
<1>2. Tree /\ Clean
  BY DEF Tree, Clean
<1>3. UpdatedMeansPushedOrStranded
  BY DEF UpdatedMeansPushedOrStranded
<1>4. Contents
  BY <1>3 DEF Contents
<1>5. Approvals
  BY DEF Approvals, PairsOf
<1>6. Outcomes
  BY DEF Outcomes, OutcomesOfKeys, OutcomesOfEvents, Closing
<1>7. QED BY <1>1, <1>2, <1>4, <1>5, <1>6 DEF IInv

\* Every step keeps the invariant.
LEMMA IInvStep == IInv /\ [Next]_vars => IInv'
<1> SUFFICES ASSUME IInv, [Next]_vars PROVE IInv'
  OBVIOUS
<1>1. (TypeOK /\ Budget /\ Tree /\ Clean /\ Contents /\ Approvals)'
  BY TypeStep, TreeStep, CleanStep, ContentsStep, ApprovalsStep DEF IInv
<1>2. Outcomes'
  BY KeysStep, EventsStep DEF IInv, Outcomes
<1>3. QED BY <1>1, <1>2 DEF IInv

\* The invariant holds in every reachable state.
LEMMA Inductive == Spec => []IInv
<1>1. Init => IInv
  BY IInvInit
<1>2. IInv /\ [Next]_vars => IInv'
  BY IInvStep
<1>3. QED BY <1>1, <1>2, PTL DEF Spec

\* Types: in particular no event is delivered more often than its attempts and the crashes
\* of the process allow.
THEOREM TypeCorrect == Spec => []TypeOK
<1>1. IInv => TypeOK
  BY DEF IInv
<1>2. QED BY <1>1, Inductive, PTL

\* No run leaves its change in the clone for the next build to commit, unless it was cut
\* off between writing the file and pushing it.
THEOREM CloneLeftClean == Spec => []CleanBetweenRuns
<1>1. IInv => CleanBetweenRuns
  BY DEF IInv, Clean, CleanBetweenRuns, At
<1>2. QED BY <1>1, Inductive, PTL

\* Only what governance approved reaches the server, except for a stranded change that a
\* later commit sweeps along.
THEOREM PushesWereApproved == Spec => []OnlyApprovedPushed
<1>1. IInv => OnlyApprovedPushed
  BY DEF IInv, Approvals, OnlyApprovedPushed, PairOf
<1>2. QED BY <1>1, Inductive, PTL

\* An announced update has been on the server, or is the change of a run that was cut off.
THEOREM UpdatesWerePushed == Spec => []UpdatedMeansPushedOrStranded
<1>1. IInv => UpdatedMeansPushedOrStranded
  BY DEF IInv, Contents
<1>2. QED BY <1>1, Inductive, PTL

\* An acknowledged event has an outcome or a dead letter, unless a run took the key of its
\* build and ended before its last statement, or a crash forestalled the dead letter.
THEOREM EventsHaveOutcomes == Spec => []OutcomeOrAbandoned
<1>1. IInv => OutcomeOrAbandoned
  BY DEF IInv, Outcomes, OutcomesOfEvents, OutcomeOrAbandoned, Accounted, HasOutcome
<1>2. QED BY <1>1, Inductive, PTL
================================================================================
