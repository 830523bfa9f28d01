----------------------------- MODULE PipelineAgent -----------------------------
(***************************************************************************)
(* PipelineAgent.handleTektonPipelineRunCompleted: from a finished build   *)
(* to a commit in the GitOps repository and the derived events, with the   *)
(* clone the agent works in, the remote others push to, the build's        *)
(* idempotency key and the steps of EventSubscriber around the handler.    *)
(*                                                                         *)
(* One process serves the queue, one event at a time, as the consume loop  *)
(* does.  Every step is one awaited call.  A call may reject at any time,  *)
(* after Redis has applied it or before; what that leads to depends on     *)
(* where the call stands, which is what this module is about.  A call of   *)
(* the subscriber itself that rejects ends the consume loop and with it    *)
(* the process: it is a Crash, as in EventDelivery.  The YAML file of one  *)
(* application and environment holds an image tag for each of its images.  *)
(***************************************************************************)
EXTENDS Naturals, FiniteSets

CONSTANTS Events,          \* deliveries of tekton.pipelinerun.completed, by event id
          Builds,          \* (build_id, environment) pairs
          FailedBuilds,    \* builds Tekton reports as failed
          BuildOf,         \* the build an event is about
          Images, Tags,
          ImageOf, TagOf,  \* what a build asks the YAML file to say
          OldTag,          \* the tag every image has at first, and others may go back to
          NoEvent,
          MaxAttempts,     \* max_attempts of the queue
          MaxCrashes,      \* bound: process crashes
          MaxRemotePushes, \* bound: pushes to the repository by others
          MaxExpiries      \* bound: keys that reach their TTL

ASSUME PipelineAssumption ==
    /\ FailedBuilds \subseteq Builds
    /\ BuildOf \in [Events -> Builds]
    /\ ImageOf \in [Builds -> Images]
    /\ TagOf \in [Builds -> Tags]
    /\ OldTag \in Tags
    /\ NoEvent \notin Events
    /\ MaxAttempts \in Nat \ {0}
    /\ {MaxCrashes, MaxRemotePushes, MaxExpiries} \subseteq Nat

VARIABLES
    \* the event bus, as EventSubscriber shows it to the handler
    cur,         \* the event being handled, or NoEvent
    consumed,    \* the subscriber's key of an event; "open" stands for none and "processing"
    closed,      \* events acknowledged
    deadLettered,\* events written to the dead letter stream
    deliveries,  \* deliveries so far, by event
    announced,   \* types of derived events published, by build
    key,         \* pipeline:{build_id}:{environment} in the idempotency store
    \* the run
    pc,          \* the call the handler awaits
    changed,     \* yamlResult.status = "changed"
    \* the repositories; contents are tags by image
    remote,      \* the branch on the server
    head,        \* the last commit of the clone
    work,        \* the working tree of the clone
    unpushed,    \* the clone has commits the server has not
    behind,      \* the server has commits the clone has not
    \* bounds
    crashes, remotePushes, expiries

\* What has happened, for stating properties: no action reads these.
VARIABLES
    seen,        \* <<image, tag>> pairs that have been on the remote branch
    approved,    \* builds whose change governance let through
    stranded,    \* pairs a run wrote to the tree and neither pushed nor restored
    abandoned,   \* builds whose run took the key and ended before its last statement
    interrupted, \* events given up whose dead letter a crash forestalled
    commits      \* commits made for a build

busVars == <<cur, consumed, closed, deadLettered, deliveries>>
gitVars == <<remote, head, work, unpushed, behind>>
boundVars == <<crashes, remotePushes, expiries>>
historyVars == <<seen, approved, stranded, abandoned, interrupted, commits>>
vars == <<cur, consumed, closed, deadLettered, deliveries, announced, key, pc, changed, remote,
          head, work, unpushed, behind, crashes, remotePushes, expiries, seen, approved,
          stranded, abandoned, interrupted, commits>>

\* The calls inside the try block, and those outside of it or in its catch block.
InTry == {"preflight", "reportBlocked", "markBlocked", "ensureRepository", "updateImage",
          "govern", "discard", "commit", "push", "reportUpdated", "argoSync",
          "reportSync", "reportSyncFailed", "reportCompleted", "markProcessed"}
OutsideTry == {"lookup", "mark", "reportBuildFailed", "markBuildFailed", "catch", "markFailed"}
\* The calls of EventSubscriber and of the broker once the handler has returned or thrown.
Subscriber == {"settle", "requeue", "giveUp", "deadLetter", "seal", "ack"}
Step == InTry \cup OutsideTry \cup Subscriber \cup {"idle"}

DerivedType == {"gitops.yaml.updated", "argocd.application.sync.requested",
                "pipeline.build.completed", "pipeline.deployment.failed"}

Build == BuildOf[cur]
PairOf(b) == <<ImageOf[b], TagOf[b]>>
PairsOf(content) == {<<i, content[i]>> : i \in Images}

At(step) == pc = step
Goto(step) == pc' = step

Init ==
    /\ cur = NoEvent
    /\ consumed = [e \in Events |-> "open"]
    /\ closed = {}
    /\ deadLettered = {}
    /\ deliveries = [e \in Events |-> 0]
    /\ announced = [b \in Builds |-> {}]
    /\ key = [b \in Builds |-> "none"]
    /\ pc = "idle"
    /\ changed = FALSE
    /\ remote = [i \in Images |-> OldTag]
    /\ head = remote
    /\ work = remote
    /\ unpushed = FALSE
    /\ behind = FALSE
    /\ crashes = 0 /\ remotePushes = 0 /\ expiries = 0
    /\ seen = PairsOf(remote)
    /\ approved = {}
    /\ stranded = {}
    /\ abandoned = {}
    /\ interrupted = {}
    /\ commits = [b \in Builds |-> 0]

-------------------------------------------------------------------------------
(* The subscriber around the handler.                                      *)

\* Mutant of Deliver: an entry whose count has reached the maximum is never claimed again.
DeliverUpToMax(e) ==
    /\ At("idle")
    /\ e \notin closed
    /\ deliveries[e] < MaxAttempts
    /\ cur' = e
    /\ deliveries' = [deliveries EXCEPT ![e] = @ + 1]
    /\ Goto(IF consumed[e] = "open" THEN "lookup" ELSE "ack")
    /\ UNCHANGED <<consumed, closed, deadLettered, announced, key, changed, gitVars,
                   boundVars, historyVars>>

\* An event the subscriber has already settled is acknowledged without the handler.
Deliver(e) ==
    /\ At("idle")
    /\ e \notin closed
    /\ cur' = e
    /\ deliveries' = [deliveries EXCEPT ![e] = @ + 1]
    /\ Goto(IF consumed[e] = "open" THEN "lookup" ELSE "ack")
    /\ UNCHANGED <<consumed, closed, deadLettered, announced, key, changed, gitVars,
                   boundVars, historyVars>>

\* The event is out of hand: acknowledged, put off, or lost in a crash.
Leave ==
    /\ cur' = NoEvent
    /\ changed' = FALSE
    /\ Goto("idle")

\* The handler returns, whatever it returns, and its variables go with it.
Return == changed' = FALSE /\ Goto("settle") /\ UNCHANGED busVars

\* The attempt number of a delivery, as EventDelivery has it: it lags by one.
Attempt == IF deliveries[cur] = 1 THEN 1 ELSE deliveries[cur] - 1

\* Mutant of RetriesLeft: one attempt too many.
RetriesLeftOffByOne == Attempt <= MaxAttempts

RetriesLeft == Attempt < MaxAttempts

\* The subscriber's catch block: the event is put off, or given up.
Caught == Goto(IF RetriesLeft THEN "requeue" ELSE "giveUp")

SetConsumed(state) == consumed' = [consumed EXCEPT ![cur] = state]

Settle ==
    /\ At("settle")
    /\ SetConsumed("processed")
    /\ Goto("ack")
    /\ UNCHANGED <<cur, closed, deadLettered, deliveries, announced, key, changed, gitVars,
                   boundVars, historyVars>>

\* SET or the delivery record rejects inside the subscriber's own try block, so the event
\* counts as failed although the handler returned; the key may have been written.
SettleFails ==
    /\ At("settle")
    /\ SetConsumed("processed") \/ UNCHANGED consumed
    /\ Caught
    /\ UNCHANGED <<cur, closed, deadLettered, deliveries, announced, key, changed, gitVars,
                   boundVars, historyVars>>

\* Nothing is acknowledged: the entry stays pending and is claimed later.
Requeue ==
    /\ At("requeue")
    /\ SetConsumed("open")
    /\ Leave
    /\ UNCHANGED <<closed, deadLettered, deliveries, announced, key, gitVars, boundVars,
                   historyVars>>

GiveUp ==
    /\ At("giveUp")
    /\ SetConsumed("failed")
    /\ Goto("deadLetter")
    /\ UNCHANGED <<cur, closed, deadLettered, deliveries, announced, key, changed, gitVars,
                   boundVars, historyVars>>

DeadLetter ==
    /\ At("deadLetter")
    /\ deadLettered' = deadLettered \cup {cur}
    /\ Goto("seal")
    /\ UNCHANGED <<cur, consumed, closed, deliveries, announced, key, changed, gitVars,
                   boundVars, historyVars>>

Seal ==
    /\ At("seal")
    /\ SetConsumed("failed")
    /\ Goto("ack")
    /\ UNCHANGED <<cur, closed, deadLettered, deliveries, announced, key, changed, gitVars,
                   boundVars, historyVars>>

Ack ==
    /\ At("ack")
    /\ closed' = closed \cup {cur}
    /\ Leave
    /\ UNCHANGED <<consumed, deadLettered, deliveries, announced, key, gitVars, boundVars,
                   historyVars>>

-------------------------------------------------------------------------------
(* Rejected calls of the handler.                                          *)

\* What the publishing and the key-setting calls write.
Publishing ==
    {<<"reportUpdated", "gitops.yaml.updated">>, <<"reportCompleted", "pipeline.build.completed">>}
    \cup {"reportSync", "reportSyncFailed"} \X {"argocd.application.sync.requested"}
    \cup {"reportBuildFailed", "reportBlocked", "catch"} \X {"pipeline.deployment.failed"}
Setting ==
    {<<"mark", "processing">>, <<"markProcessed", "processed">>}
    \cup {"markBuildFailed", "markBlocked", "markFailed"} \X {"failed"}

\* A call rejects without effect, or Redis has applied the write and the answer is lost.
Rejected ==
    \/ UNCHANGED <<announced, key>>
    \/ \E type \in DerivedType :
         /\ <<pc, type>> \in Publishing
         /\ announced' = [announced EXCEPT ![Build] = @ \cup {type}]
         /\ UNCHANGED key
    \/ \E state \in {"processing", "processed", "failed"} :
         /\ <<pc, state>> \in Setting
         /\ key' = [key EXCEPT ![Build] = state]
         /\ UNCHANGED announced

\* A rejection outside the try block, or in its catch block, leaves the handler.  The run
\* has taken the key unless the get or an unapplied set is what rejected.
Throw ==
    /\ pc \in OutsideTry
    /\ Rejected
    /\ changed' = FALSE
    /\ Caught
    /\ abandoned' = IF pc \in {"lookup", "mark"} /\ key' = key THEN abandoned
                    ELSE abandoned \cup {Build}
    /\ UNCHANGED <<busVars, gitVars, boundVars, seen, approved, stranded, interrupted, commits>>

\* The change in the tree is not yet pushed and nothing is going to restore it.
Unfinished == changed /\ pc \in {"govern", "discard", "commit", "push"}
StrandedBy(left) == IF left THEN stranded \cup {PairOf(Build)} ELSE stranded

\* A rejection inside the try block.
Raise ==
    /\ pc \in InTry
    /\ Rejected
    /\ Goto("catch")
    /\ stranded' = StrandedBy(Unfinished)
    /\ UNCHANGED <<busVars, changed, gitVars, boundVars, seen, approved, abandoned,
                   interrupted, commits>>

Announce(type, next) ==
    /\ announced' = [announced EXCEPT ![Build] = @ \cup {type}]
    /\ Goto(next)
    /\ UNCHANGED <<busVars, key, changed, gitVars, boundVars, historyVars>>

SetKey(state) ==
    /\ key' = [key EXCEPT ![Build] = state]
    /\ UNCHANGED <<announced, gitVars, boundVars, historyVars>>

-------------------------------------------------------------------------------
(* The handler.                                                            *)

LookUp ==
    /\ At("lookup")
    /\ IF key[Build] \in {"processed", "processing"}
       THEN Return
       ELSE Goto("mark") /\ UNCHANGED <<busVars, changed>>
    /\ UNCHANGED <<announced, key, gitVars, boundVars, historyVars>>

Mark ==
    /\ At("mark")
    /\ SetKey("processing")
    /\ Goto(IF Build \in FailedBuilds THEN "reportBuildFailed" ELSE "preflight")
    /\ UNCHANGED <<busVars, changed>>

ReportBuildFailed ==
    At("reportBuildFailed") /\ Announce("pipeline.deployment.failed", "markBuildFailed")

\* Passed, blocked, or not enabled (which is a pass).
Preflight ==
    /\ At("preflight")
    /\ Goto("ensureRepository") \/ Goto("reportBlocked")
    /\ UNCHANGED <<busVars, announced, key, changed, gitVars, boundVars, historyVars>>

ReportBlocked == At("reportBlocked") /\ Announce("pipeline.deployment.failed", "markBlocked")

\* git pull: nothing to merge, or a fast-forward.  With commits on both sides git
\* refuses (no pull strategy is configured), and so it does over a dirty file the pulled
\* commits change.
EnsureRepository ==
    /\ At("ensureRepository")
    /\ behind => ~unpushed /\ (work = head \/ remote = head)
    /\ IF behind
       THEN head' = remote /\ work' = IF work = head THEN remote ELSE work
       ELSE UNCHANGED <<head, work>>
    /\ behind' = FALSE
    /\ Goto("updateImage")
    /\ UNCHANGED <<busVars, announced, key, changed, remote, unpushed, boundVars, historyVars>>

\* readFile reads the working tree, so "unchanged" compares with whatever is left in it.
Updated == [work EXCEPT ![ImageOf[Build]] = TagOf[Build]]

UpdateImage ==
    /\ At("updateImage")
    /\ work' = Updated
    /\ changed' = (Updated # work)
    /\ Goto("govern")
    /\ UNCHANGED <<busVars, announced, key, remote, head, unpushed, behind, boundVars,
                   historyVars>>

\* The diff artifact is written after the file: when it fails, the file stays changed.
UpdateImageFails ==
    /\ At("updateImage")
    /\ Updated # work
    /\ work' = Updated
    /\ Goto("catch")
    /\ stranded' = StrandedBy(TRUE)
    /\ UNCHANGED <<busVars, announced, key, changed, remote, head, unpushed, behind,
                   boundVars, seen, approved, abandoned, interrupted, commits>>

\* Approved, or governance is not enabled.
Approve ==
    /\ At("govern")
    /\ approved' = approved \cup {Build}
    /\ Goto(IF changed THEN "commit" ELSE "reportUpdated")
    /\ UNCHANGED <<busVars, announced, key, changed, gitVars, boundVars, seen, stranded,
                   abandoned, interrupted, commits>>

\* Mutant of Reject: the verdict in the structured result is not looked at.
RejectCommits ==
    /\ At("govern")
    /\ Goto(IF changed THEN "commit" ELSE "discard")
    /\ UNCHANGED <<busVars, announced, key, changed, gitVars, boundVars, historyVars>>

\* Not succeeded, or a block reason in the structured result.
Reject ==
    /\ At("govern")
    /\ Goto("discard")
    /\ UNCHANGED <<busVars, announced, key, changed, gitVars, boundVars, historyVars>>

\* Mutant of Restored: git restore --staged without --worktree.
RestoredIndexOnly == work

\* git restore --staged --worktree of the changed files.
Restored == IF changed THEN head ELSE work

\* The change is undone, then the error is thrown.
Discard ==
    /\ At("discard")
    /\ work' = Restored
    /\ Goto("catch")
    /\ UNCHANGED <<busVars, announced, key, changed, remote, head, unpushed, behind,
                   boundVars, historyVars>>

\* git add, status, commit: an empty status counts as success without a push.
Commit ==
    /\ At("commit")
    /\ IF work = head
       THEN Goto("reportUpdated") /\ UNCHANGED <<head, unpushed, commits>>
       ELSE /\ head' = work
            /\ unpushed' = TRUE
            /\ commits' = [commits EXCEPT ![Build] = @ + 1]
            /\ Goto("push")
    /\ UNCHANGED <<busVars, announced, key, changed, remote, work, behind, boundVars, seen,
                   approved, stranded, abandoned, interrupted>>

\* Mutant of Push: commit.success is not looked at.
PushUnchecked ==
    /\ At("push")
    /\ IF behind
       THEN UNCHANGED <<remote, unpushed, seen>>
       ELSE remote' = head /\ unpushed' = FALSE /\ seen' = seen \cup PairsOf(head)
    /\ Goto("reportUpdated")
    /\ UNCHANGED <<busVars, announced, key, changed, head, work, behind, boundVars, approved,
                   stranded, abandoned, interrupted, commits>>

\* git push of the branch, with every commit the clone is ahead; rejected when behind.
\* rev-parse follows in the same try block: when it fails, so does the step, pushed or not.
Push ==
    /\ At("push")
    /\ ~behind
    /\ remote' = head
    /\ unpushed' = FALSE
    /\ seen' = seen \cup PairsOf(head)
    /\ Goto("reportUpdated") \/ Goto("catch")
    /\ UNCHANGED <<busVars, announced, key, changed, head, work, behind, boundVars, approved,
                   stranded, abandoned, interrupted, commits>>

ReportUpdated == At("reportUpdated") /\ Announce("gitops.yaml.updated", "argoSync")

\* Not enabled, triggered or skipped, or failed.
ArgoSync ==
    /\ At("argoSync")
    /\ Goto("reportCompleted") \/ Goto("reportSync") \/ Goto("reportSyncFailed")
    /\ UNCHANGED <<busVars, announced, key, changed, gitVars, boundVars, historyVars>>

ReportSync ==
    \/ At("reportSync") /\ Announce("argocd.application.sync.requested", "reportCompleted")
    \/ At("reportSyncFailed") /\ Announce("argocd.application.sync.requested", "catch")

ReportCompleted ==
    At("reportCompleted") /\ Announce("pipeline.build.completed", "markProcessed")

MarkProcessed ==
    /\ At("markProcessed")
    /\ SetKey("processed")
    /\ Return

\* Mutant of Catch: the failure is not announced.
CatchSilently ==
    /\ At("catch")
    /\ Goto("markFailed")
    /\ UNCHANGED <<busVars, announced, key, changed, gitVars, boundVars, historyVars>>

\* The catch block swallows the error once the failure is announced.
Catch == At("catch") /\ Announce("pipeline.deployment.failed", "markFailed")

MarkFailed ==
    /\ pc \in {"markBuildFailed", "markBlocked", "markFailed"}
    /\ SetKey("failed")
    /\ Return

-------------------------------------------------------------------------------
(* The surroundings.                                                       *)

\* The event stays pending and is delivered again; the build's key keeps saying
\* "processing", and the subscriber's what it said.
Crash ==
    /\ ~At("idle")
    /\ crashes < MaxCrashes
    /\ crashes' = crashes + 1
    /\ Leave
    /\ stranded' = StrandedBy(Unfinished)
    /\ abandoned' = IF pc \in Subscriber \cup {"lookup", "mark"} THEN abandoned
                    ELSE abandoned \cup {Build}
    /\ interrupted' = IF At("deadLetter") THEN interrupted \cup {cur} ELSE interrupted
    /\ UNCHANGED <<consumed, closed, deadLettered, deliveries, announced, key, gitVars,
                   remotePushes, expiries, seen, approved, commits>>

\* Somebody else pushes: an image goes back to the old tag, or stays at it when the commit
\* is about another file.
RemotePush(i) ==
    /\ remotePushes < MaxRemotePushes
    /\ remotePushes' = remotePushes + 1
    /\ remote' = [remote EXCEPT ![i] = OldTag]
    /\ seen' = seen \cup {<<i, OldTag>>}
    /\ behind' = TRUE
    /\ UNCHANGED <<busVars, announced, key, pc, changed, head, work, unpushed, crashes,
                   expiries, approved, stranded, abandoned, interrupted, commits>>

\* The TTL of a key ends (an hour, or a day), never under a run: a run takes minutes.
KeyExpires(b) ==
    /\ expiries < MaxExpiries
    /\ expiries' = expiries + 1
    /\ key[b] # "none"
    /\ cur # NoEvent => Build # b
    /\ key' = [key EXCEPT ![b] = "none"]
    /\ UNCHANGED <<busVars, announced, pc, changed, gitVars, crashes, remotePushes,
                   historyVars>>

Handle ==
    \/ LookUp \/ Mark \/ ReportBuildFailed \/ Preflight \/ ReportBlocked
    \/ EnsureRepository \/ UpdateImage \/ UpdateImageFails \/ Approve \/ Reject \/ Discard
    \/ Commit \/ Push \/ ReportUpdated \/ ArgoSync \/ ReportSync \/ ReportCompleted
    \/ MarkProcessed \/ Catch \/ MarkFailed \/ Raise \/ Throw
    \/ Settle \/ SettleFails \/ Requeue \/ GiveUp \/ DeadLetter \/ Seal \/ Ack

Next ==
    \/ \E e \in Events : Deliver(e)
    \/ Handle
    \/ Crash
    \/ \E i \in Images : RemotePush(i)
    \/ \E b \in Builds : KeyExpires(b)

Spec == Init /\ [][Next]_vars

\* The bus keeps delivering what is not acknowledged and awaited calls settle.
Fairness == WF_vars(Handle) /\ \A e \in Events : SF_vars(Deliver(e))

FairSpec == Spec /\ Fairness

-------------------------------------------------------------------------------
(* Properties.                                                             *)

\* Types, and an event in hand exactly between its delivery and its acknowledgement.
TypeOK ==
    /\ cur \in Events \cup {NoEvent}
    /\ cur = NoEvent <=> pc = "idle"
    /\ consumed \in [Events -> {"open", "processed", "failed"}]
    /\ deadLettered \subseteq Events /\ closed \subseteq Events /\ interrupted \subseteq Events
    /\ deliveries \in [Events -> 0..(MaxAttempts + 1 + MaxCrashes)]
    /\ announced \in [Builds -> SUBSET DerivedType]
    /\ key \in [Builds -> {"none", "processing", "processed", "failed"}]
    /\ pc \in Step
    /\ changed \in BOOLEAN
    /\ {remote, head, work} \subseteq [Images -> Tags]
    /\ {unpushed, behind} \subseteq BOOLEAN
    /\ crashes \in 0..MaxCrashes
    /\ remotePushes \in 0..MaxRemotePushes
    /\ expiries \in 0..MaxExpiries
    /\ {seen, stranded} \subseteq SUBSET (Images \X Tags)
    /\ approved \subseteq Builds /\ abandoned \subseteq Builds
    /\ commits \in [Builds -> Nat]

\* Between runs the clone is clean, with nothing dirty and nothing unpushed, unless some
\* run was cut off between writing the file and pushing it: a rejected, blocked or failed
\* build leaves nothing behind for the next build to commit.
CleanBetweenRuns == At("idle") /\ stranded = {} => work = head /\ ~unpushed

\* An image tag reaches the remote branch only for a build governance let through; the
\* exception is a change stranded in the tree that a later build's commit sweeps along.
OnlyApprovedPushed ==
    \A b \in Builds :
        PairOf(b) \in seen \ stranded /\ TagOf[b] # OldTag =>
            \E a \in approved : PairOf(a) = PairOf(b)

\* gitops.yaml.updated is announced only for a tag the remote branch has had, unless the
\* change was stranded in the clone by an earlier run.
UpdatedMeansPushedOrStranded ==
    \A b \in Builds :
        "gitops.yaml.updated" \in announced[b] => PairOf(b) \in seen \cup stranded


Outcome == {"pipeline.build.completed", "pipeline.deployment.failed"}

\* An acknowledged event has an outcome event for its build or is in the dead letter
\* stream.  There are two exceptions: a run of its build took the key and ended before its
\* last statement, so that the key says "processing" and the redelivery is skipped, or the
\* process crashed between giving the event up and writing the dead letter.
OutcomeOrAbandoned ==
    \A e \in closed :
        \/ announced[BuildOf[e]] \cap Outcome # {}
        \/ e \in deadLettered
        \/ BuildOf[e] \in abandoned
        \/ e \in interrupted


\* As documented, a build is committed only once (nobody else pushing).  A build whose
\* sync failed after the push may run again and commits again over a later build.
CommittedOnce == \A b \in Builds : commits[b] <= 1

\* Every event is acknowledged in the end, through crashes, failures and expiries.
EventuallyClosed == \A e \in Events : <>(e \in closed)
================================================================================
