---------------------------- MODULE ComplianceRadar ----------------------------
(***************************************************************************)
(* The compliance radar: scans of the environment by the process of the    *)
(* scheduler, which starts one at every tick whether or not the former has *)
(* ended, and by the pipeline agent, which waits for its preflight scan.   *)
(* Each process has a history of its own in memory; reports are files and  *)
(* announcements are events.  A step is one awaited call.                  *)
(***************************************************************************)
EXTENDS Naturals, Sequences, SequencesExt

CONSTANTS MaxScans,    \* bound: scans started
          MaxFaults,   \* bound: rejected writes and publishes, and stop signals
          Requested,   \* request.targets, in order
          Probes,      \* the targets the engine has a probe for
          Configured   \* the probes that have an endpoint and a credential

ASSUME RadarAssumption ==
    /\ MaxScans \in Nat /\ MaxFaults \in Nat
    /\ Requested \in Seq(Range(Requested)) \ {<<>>}
    /\ Configured \subseteq Probes

Scans == 1..MaxScans
Process == {"scheduler", "pipeline"}
Status == {"healthy", "warning", "critical"}

VARIABLES mode,       \* of each process: "up", "stopping" (SIGTERM) or "down"
          pc, owner, at, seen, pending,    \* a scan: its step, process and targets so far
          startedAt, finishedAt, clock,    \* timestamps, as a counter
          reports,    \* the files of a scan
          history,    \* MemoryRadarHistoryRepository.records, of each process
          announced,  \* result_kind of the events of a scan in the broker
          faults

\* What happened, for stating properties: no action reads these.
VARIABLES lostReply,  \* scans whose publish was applied and rejected
          overlapped  \* processes that had two scans at a time

vars == <<mode, pc, owner, at, seen, pending, startedAt, finishedAt, clock, reports, history,
          announced, faults, lostReply, overlapped>>
scanVars == <<owner, at, seen, pending, startedAt, finishedAt, clock>>
outputs == <<reports, history, announced>>

Ended == {"returned", "thrown", "lost"}
Live(p) == {s \in Scans : pc[s] \notin {"new"} \cup Ended /\ owner[s] = p}

Init ==
    /\ mode = [p \in Process |-> "up"]
    /\ pc = [s \in Scans |-> "new"]
    /\ owner = [s \in Scans |-> "scheduler"]
    /\ at = [s \in Scans |-> 1]
    /\ seen = [s \in Scans |-> <<>>]
    /\ pending = [s \in Scans |-> {}]
    /\ startedAt = [s \in Scans |-> 0] /\ finishedAt = [s \in Scans |-> 0] /\ clock = 0
    /\ reports = [s \in Scans |-> {}]
    /\ history = [p \in Process |-> <<>>]
    /\ announced = [s \in Scans |-> {}]
    /\ faults = 0
    /\ lostReply = {} /\ overlapped = {}

Goto(s, step) == pc' = [pc EXCEPT ![s] = step]
Fault == faults < MaxFaults /\ faults' = faults + 1

-------------------------------------------------------------------------------
(* Starting a scan.                                                        *)

Start(s, p) ==
    /\ pc[s] = "new" /\ \A r \in 1..(s - 1) : pc[r] # "new"
    /\ Goto(s, "probe")
    /\ owner' = [owner EXCEPT ![s] = p]
    /\ clock' = clock + 1 /\ startedAt' = [startedAt EXCEPT ![s] = clock']
    /\ overlapped' = IF Live(p) # {} THEN overlapped \cup {p} ELSE overlapped
    /\ UNCHANGED <<mode, at, seen, pending, finishedAt, outputs, faults, lostReply>>

\* The interval fires while the timer is set; nobody looks whether a scan is running.
Tick(s) == mode["scheduler"] = "up" /\ Start(s, "scheduler")

\* ComplianceRadarPreflightChecker.check: the agent handles one build at a time.
Preflight(s) == Live("pipeline") = {} /\ Start(s, "pipeline")

-------------------------------------------------------------------------------
(* ComplianceRadarEngine.scan and the probes.                              *)

\* Mutant of CalculateOverallStatus: the last target decides.
LastTargetStatus(statuses) == IF statuses = <<>> THEN "healthy" ELSE Last(statuses)

\* Without any target that was probed the environment counts as healthy.
CalculateOverallStatus(statuses) ==
    IF Contains(statuses, "critical") THEN "critical"
    ELSE IF Contains(statuses, "warning") THEN "warning" ELSE "healthy"

\* The HTTP probes know two answers and have no time-out.
ProbeAnswers(target) == IF target \in Configured THEN {"healthy", "critical"} ELSE {"critical"}

\* What follows the probes.  Mutants: the history or the event comes first.
SavedFirst == <<"save", "json", "markdown", "publish">>
AnnouncedFirst == <<"publish", "json", "markdown", "save">>
Steps == <<"json", "markdown", "save", "publish">>

After(step) ==
    LET i == CHOOSE j \in DOMAIN Steps : Steps[j] = step
    IN IF i = Len(Steps) THEN "returned" ELSE Steps[i + 1]

Advance(s) ==
    /\ at' = [at EXCEPT ![s] = @ + 1]
    /\ IF at[s] = Len(Requested)
       THEN /\ Goto(s, Steps[1])
            /\ clock' = clock + 1 /\ finishedAt' = [finishedAt EXCEPT ![s] = clock']
       ELSE UNCHANGED <<pc, clock, finishedAt>>
    /\ UNCHANGED <<mode, owner, startedAt, outputs, faults, lostReply, overlapped>>

ProbeTarget(s) ==
    /\ pc[s] = "probe" /\ Requested[at[s]] \in Probes
    /\ \E status \in ProbeAnswers(Requested[at[s]]) :
           seen' = [seen EXCEPT ![s] = Append(@, status)]
    /\ Advance(s)
    /\ UNCHANGED pending

ProbeMissing(s) ==
    /\ pc[s] = "probe" /\ Requested[at[s]] \notin Probes
    /\ pending' = [pending EXCEPT ![s] = @ \cup {Requested[at[s]]}]
    /\ Advance(s)
    /\ UNCHANGED seen

Overall(s) == CalculateOverallStatus(seen[s])
ResultKind(s) == IF Overall(s) = "healthy" THEN "healthy" ELSE "environment_unhealthy"
Verdict(s) == IF Overall(s) = "critical" THEN "blocked" ELSE "passed"

-------------------------------------------------------------------------------
(* ComplianceRadarService.scan: reports, history, event.                   *)

WriteReport(s) ==
    /\ pc[s] \in {"json", "markdown"}
    /\ reports' = [reports EXCEPT ![s] = @ \cup {pc[s]}]
    /\ Goto(s, After(pc[s]))
    /\ UNCHANGED <<mode, scanVars, history, announced, faults, lostReply, overlapped>>

WriteReportFails(s) ==
    /\ pc[s] \in {"json", "markdown"} /\ Fault
    /\ Goto(s, "error")
    /\ UNCHANGED <<mode, scanVars, outputs, lostReply, overlapped>>

\* Mutant of Record: the newest record is put at the front.
RecordInFront(records, s) == <<s>> \o records

Record(records, s) == Append(records, s)

Save(s) ==
    /\ pc[s] = "save"
    /\ history' = [history EXCEPT ![owner[s]] = Record(@, s)]
    /\ Goto(s, After("save"))
    /\ UNCHANGED <<mode, scanVars, reports, announced, faults, lostReply, overlapped>>

Announce(s, kind) == announced' = [announced EXCEPT ![s] = @ \cup {kind}]

Publish(s) ==
    /\ pc[s] = "publish"
    /\ Announce(s, ResultKind(s))
    /\ Goto(s, After("publish"))
    /\ UNCHANGED <<mode, scanVars, reports, history, faults, lostReply, overlapped>>

\* The publisher reports what it was told: the event may be in the broker all the same.
PublishFails(s) ==
    /\ pc[s] = "publish" /\ Fault
    /\ \/ Announce(s, ResultKind(s)) /\ lostReply' = lostReply \cup {s}
       \/ UNCHANGED <<announced, lostReply>>
    /\ Goto(s, "error")
    /\ UNCHANGED <<mode, scanVars, reports, history, overlapped>>

\* Mutant of Down: the scans in hand survive their process.
DownButScans(p) ==
    /\ mode' = [mode EXCEPT ![p] = "down"]
    /\ history' = [history EXCEPT ![p] = <<>>]
    /\ UNCHANGED pc

Down(p) ==
    /\ mode' = [mode EXCEPT ![p] = "down"]
    /\ history' = [history EXCEPT ![p] = <<>>]
    /\ pc' = [s \in Scans |-> IF s \in Live(p) THEN "lost" ELSE pc[s]]

\* The execution error is published as well as may be and the scan rejects.  The agent
\* catches that; behind the void of the scheduler it is an unhandled rejection.
Reject(s) ==
    /\ pc[s] = "error"
    /\ IF owner[s] = "scheduler"
       THEN Down("scheduler")
       ELSE Goto(s, "thrown") /\ UNCHANGED <<mode, history>>
    /\ UNCHANGED <<scanVars, reports, lostReply, overlapped>>

PublishErrorAndReject(s) == Announce(s, "execution_error") /\ UNCHANGED faults /\ Reject(s)
RejectInSilence(s) == Fault /\ UNCHANGED announced /\ Reject(s)

-------------------------------------------------------------------------------
(* The process of the scheduler.                                           *)

\* SIGTERM clears the interval; scans go on until the connection is closed.
StopSignal ==
    /\ mode["scheduler"] = "up" /\ Fault
    /\ mode' = [mode EXCEPT !["scheduler"] = "stopping"]
    /\ UNCHANGED <<pc, scanVars, outputs, lostReply, overlapped>>

Exit ==
    /\ mode["scheduler"] = "stopping"
    /\ Down("scheduler")
    /\ UNCHANGED <<scanVars, reports, announced, faults, lostReply, overlapped>>

\* The operator starts it again.
Restart ==
    /\ mode["scheduler"] = "down"
    /\ mode' = [mode EXCEPT !["scheduler"] = "up"]
    /\ UNCHANGED <<pc, scanVars, outputs, faults, lostReply, overlapped>>

ScanStep(s) ==
    \/ ProbeTarget(s) \/ ProbeMissing(s) \/ WriteReport(s) \/ WriteReportFails(s) \/ Save(s)
    \/ Publish(s) \/ PublishFails(s) \/ PublishErrorAndReject(s) \/ RejectInSilence(s)

Next ==
    \/ \E s \in Scans : Tick(s) \/ Preflight(s) \/ ScanStep(s)
    \/ StopSignal \/ Exit \/ Restart

Spec == Init /\ [][Next]_vars
-------------------------------------------------------------------------------
Kinds == {"healthy", "environment_unhealthy", "execution_error"}

\* Types, and that only a process that runs has scans under way: one at a time in the agent.
TypeOK ==
    /\ mode \in [Process -> {"up", "stopping", "down"}]
    /\ pc \in [Scans -> {"new", "probe", "json", "markdown", "save", "publish", "error"} \cup Ended]
    /\ owner \in [Scans -> Process]
    /\ \A s \in Scans : seen[s] \in Seq(Status) /\ Len(seen[s]) < at[s]
    /\ reports \in [Scans -> SUBSET {"json", "markdown"}]
    /\ announced \in [Scans -> SUBSET Kinds]
    /\ \A p \in Process : mode[p] = "down" => Live(p) = {}
    /\ mode["pipeline"] = "up" /\ \A s, r \in Live("pipeline") : s = r

\* A scan that is in a history or announced as healthy or unhealthy, has both of its reports: the
\* report_artifact_uri of a record or an event never leads nowhere, whatever write fails.
Recorded(s) == \E p \in Process : Contains(history[p], s)
ReportsBehindRecords ==
    \A s \in Scans :
        Recorded(s) \/ announced[s] \cap {"healthy", "environment_unhealthy"} # {} =>
            reports[s] = {"json", "markdown"}

\* One scan is announced with one outcome; with a result and an execution error only when
\* the publish of the result was applied and its answer lost.
OneVerdict ==
    \A s \in Scans : \A k \in announced[s] :
        announced[s] = {k} \/ (s \in lostReply /\ announced[s] = {ResultKind(s), "execution_error"})

\* A preflight that lets a build pass has seen no target fail, its event and its record say
\* the same, and what it did not look at is listed as pending.
PassedWasSeen ==
    \A s \in Scans : pc[s] = "returned" /\ Verdict(s) = "passed" =>
        /\ ~Contains(seen[s], "critical")
        /\ announced[s] = {ResultKind(s)}
        /\ {Requested[i] : i \in DOMAIN Requested} \ Probes = pending[s]

\* latest() of the history answers with the scan that finished last, unless ticks of this
\* process overlapped: then a slow scan that finished earlier may be recorded after it.
LatestIsNewest ==
    \A p \in Process \ overlapped : \A i, j \in DOMAIN history[p] :
        i < j => finishedAt[history[p][i]] < finishedAt[history[p][j]]
================================================================================
