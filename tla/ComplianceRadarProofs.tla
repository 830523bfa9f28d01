------------------------- MODULE ComplianceRadarProofs -------------------------
(***************************************************************************)
(* Proofs about ComplianceRadar, for every list of targets, every set of   *)
(* probes, and any number of scans, overlapping ticks, rejected writes and *)
(* publishes, and restarts.                                                *)
(***************************************************************************)
EXTENDS ComplianceRadar, SequenceTheorems, TLAPS

USE RadarAssumption

Targets == Range(Requested)
Both == {"json", "markdown"}

-------------------------------------------------------------------------------
(* The inductive invariant.                                                *)

Types ==
    /\ mode \in [Process -> {"up", "stopping", "down"}]
    /\ pc \in [Scans -> {"new", "probe", "json", "markdown", "save", "publish", "error"} \cup Ended]
    /\ owner \in [Scans -> Process]
    /\ at \in [Scans -> Nat]
    /\ seen \in [Scans -> Seq(Status)]
    /\ pending \in [Scans -> SUBSET Targets]
    /\ finishedAt \in [Scans -> Nat] /\ clock \in Nat
    /\ reports \in [Scans -> SUBSET Both]
    /\ history \in [Process -> Seq(Scans)]
    /\ announced \in [Scans -> SUBSET Kinds]
    /\ lostReply \in SUBSET Scans /\ overlapped \in SUBSET Process

\* A process that is down runs no scan, and one whose ticks never overlapped at most one.
Running ==
    /\ mode["pipeline"] = "up" /\ "pipeline" \notin overlapped
    /\ \A p \in Process : mode[p] = "down" => Live(p) = {}
    /\ \A p \in Process \ overlapped : \A s, r \in Live(p) : s = r

\* How far a scan is in the list of its targets, and what it put aside.
Probed ==
    \A s \in Scans :
        /\ at[s] \in 1..(Len(Requested) + 1) /\ Len(seen[s]) < at[s]
        /\ pc[s] \in {"new", "probe"} => at[s] <= Len(Requested)
        /\ pc[s] \in {"json", "markdown", "save", "publish", "returned"} =>
               at[s] = Len(Requested) + 1
        /\ pending[s] = {Requested[i] : i \in 1..(at[s] - 1)} \ Probes

\* Which reports a scan has written on its way.
Written ==
    \A s \in Scans :
        /\ pc[s] \in {"markdown", "save", "publish", "returned"} => "json" \in reports[s]
        /\ pc[s] \in {"save", "publish", "returned"} => "markdown" \in reports[s]

\* What was announced of a scan.
Told ==
    \A s \in Scans :
        /\ \/ announced[s] \subseteq {ResultKind(s)}
           \/ announced[s] = {"execution_error"}
           \/ s \in lostReply /\ announced[s] = {ResultKind(s), "execution_error"}
        /\ pc[s] \notin {"error"} \cup Ended => announced[s] = {}
        /\ pc[s] = "error" =>
               announced[s] = {} \/ (s \in lostReply /\ announced[s] = {ResultKind(s)})
        /\ pc[s] = "returned" => announced[s] = {ResultKind(s)}

\* Records are of ended scans or of scans that only announce; a scan about to be recorded
\* finished after all of them, unless ticks overlapped.
Ordered ==
    /\ \A s \in Scans : finishedAt[s] <= clock
    /\ \A p \in Process : \A i \in DOMAIN history[p] :
           /\ owner[history[p][i]] = p
           /\ pc[history[p][i]] \in {"publish", "error"} \cup Ended
    /\ \A p \in Process \ overlapped : \A s \in Live(p) :
           pc[s] \in {"json", "markdown", "save"} =>
               \A i \in DOMAIN history[p] : finishedAt[history[p][i]] < finishedAt[s]

IInv ==
    /\ Types /\ Running /\ Probed /\ Written /\ Told /\ Ordered
    /\ ReportsBehindRecords /\ LatestIsNewest

-------------------------------------------------------------------------------
(* The operators of the model.                                             *)

\* The list of the targets is a sequence that is not empty.
LEMMA RequestedIsSeq ==
    /\ Len(Requested) \in Nat \ {0}
    /\ DOMAIN Requested = 1..Len(Requested)
    /\ \A i \in 1..Len(Requested) : Requested[i] \in Targets
<1>1. Requested \in Seq(Targets) /\ Requested # <<>>
  BY DEF Targets, RadarAssumption
<1>2. Len(Requested) \in Nat /\ DOMAIN Requested = 1..Len(Requested)
  BY <1>1, LenProperties
<1>3. Len(Requested) # 0
  BY <1>1, EmptySeq
<1>4. QED BY <1>1, <1>2, <1>3, ElementOfSeq

\* What follows each step of the service.
LEMMA AfterSteps ==
    /\ Steps[1] = "json" /\ After("json") = "markdown" /\ After("markdown") = "save"
    /\ After("save") = "publish" /\ After("publish") = "returned"
<1>1. /\ DOMAIN Steps = 1..4 /\ Len(Steps) = 4
      /\ Steps[1] = "json" /\ Steps[2] = "markdown" /\ Steps[3] = "save" /\ Steps[4] = "publish"
  BY DEF Steps
<1>2. ASSUME NEW i \in 1..4
      PROVE  (CHOOSE j \in DOMAIN Steps : Steps[j] = Steps[i]) = i
  <2>1. \A j \in 1..4 : Steps[j] = Steps[i] => j = i
    BY <1>1
  <2>2. QED BY <1>1, <2>1
<1>3. \A i \in 1..4 : After(Steps[i]) = IF i = 4 THEN "returned" ELSE Steps[i + 1]
  BY <1>1, <1>2 DEF After
<1>4. QED BY <1>1, <1>3

\* An announced result is one of two.
LEMMA ResultKinds ==
    ASSUME NEW s \in Scans
    PROVE  ResultKind(s) \in {"healthy", "environment_unhealthy"}
BY DEF ResultKind

\* A record added is the last of its history, and the others keep their places.
LEMMA RecordAdds ==
    ASSUME NEW records \in Seq(Scans), NEW s \in Scans
    PROVE  /\ Record(records, s) \in Seq(Scans)
           /\ DOMAIN Record(records, s) = 1..(Len(records) + 1)
           /\ DOMAIN records = 1..Len(records) /\ Len(records) \in Nat
           /\ \A i \in 1..Len(records) : Record(records, s)[i] = records[i]
           /\ Record(records, s)[Len(records) + 1] = s
           /\ Len(Record(records, s)) = Len(records) + 1
BY LenProperties, AppendProperties DEF Record

-------------------------------------------------------------------------------
(* The steps, by what they do.                                             *)

\* Which scans a step moves, and how.
Moves(s) ==
    \/ pc'[s] = pc[s]
    \/ pc[s] = "new" /\ pc'[s] = "probe"
    \/ pc[s] = "probe" /\ pc'[s] = "json" /\ (ProbeTarget(s) \/ ProbeMissing(s))
    \/ pc[s] = "json" /\ pc'[s] = "markdown" /\ "json" \in reports'[s]
    \/ pc[s] = "markdown" /\ pc'[s] = "save" /\ "markdown" \in reports'[s]
    \/ pc[s] = "save" /\ pc'[s] = "publish"
    \/ Publish(s) /\ pc'[s] = "returned"
    \/ pc[s] \in {"json", "markdown"} /\ pc'[s] = "error"
    \/ PublishFails(s) /\ pc'[s] = "error"
    \/ pc[s] \notin {"new"} \cup Ended /\ pc'[s] \in {"thrown", "lost"}

\* A process that goes down takes its scans with it and no others.
LEMMA DownMoves ==
    ASSUME Types, NEW p \in Process, Down(p)
    PROVE  /\ \A s \in Scans : Moves(s)
           /\ \A s \in Scans : pc'[s] = IF s \in Live(p) THEN "lost" ELSE pc[s]
BY DEF Down, Moves, Live, Types

\* An error ends the scan, and in the process of the scheduler every scan.
LEMMA RejectEffect ==
    ASSUME Types, NEW s \in Scans, Reject(s)
    PROVE  /\ UNCHANGED <<scanVars, reports, lostReply, overlapped>>
           /\ \/ owner[s] = "scheduler" /\ Down("scheduler")
              \/ /\ owner[s] = "pipeline" /\ pc' = [pc EXCEPT ![s] = "thrown"]
                 /\ pc[s] = "error" /\ UNCHANGED <<mode, history>>
BY DEF Reject, Goto, Types, Process

\* A step of a scan, of the reports or of a process moves the scans as Moves says, and
\* reports that are written stay.
LEMMA StepMoves ==
    ASSUME Types, [Next]_vars, NEW r \in Scans
    PROVE  Moves(r) /\ reports[r] \subseteq reports'[r]
<1>1. CASE UNCHANGED <<pc, reports>>
  BY <1>1 DEF Moves
<1>2. ASSUME NEW s \in Scans, NEW p \in Process, Start(s, p)
      PROVE  Moves(r) /\ reports[r] \subseteq reports'[r]
  BY <1>2 DEF Start, Goto, Moves, Types, outputs
<1>3. ASSUME NEW s \in Scans, ProbeTarget(s) \/ ProbeMissing(s)
      PROVE  Moves(r) /\ reports[r] \subseteq reports'[r]
  <2>1. reports' = reports /\ pc[s] = "probe"
    BY <1>3 DEF ProbeTarget, ProbeMissing, Advance, outputs
  <2>2. pc' = pc \/ pc' = [pc EXCEPT ![s] = "json"]
    BY <1>3, AfterSteps DEF ProbeTarget, ProbeMissing, Advance, Goto
  <2>3. QED BY <1>3, <2>1, <2>2 DEF Moves, Types
<1>4. ASSUME NEW s \in Scans, WriteReport(s) PROVE Moves(r) /\ reports[r] \subseteq reports'[r]
  <2>1. /\ pc[s] \in {"json", "markdown"} /\ pc' = [pc EXCEPT ![s] = After(pc[s])]
        /\ reports' = [reports EXCEPT ![s] = @ \cup {pc[s]}]
    BY <1>4 DEF WriteReport, Goto
  <2>2. CASE r = s
    BY <2>1, <2>2, AfterSteps DEF Moves, Types
  <2>3. CASE r # s
    BY <2>1, <2>3 DEF Moves, Types
  <2>4. QED BY <2>2, <2>3
<1>5. ASSUME NEW s \in Scans, WriteReportFails(s) PROVE Moves(r) /\ reports[r] \subseteq reports'[r]
  BY <1>5 DEF WriteReportFails, Goto, outputs, Moves, Types
<1>6. ASSUME NEW s \in Scans, Save(s) \/ Publish(s) \/ PublishFails(s)
      PROVE  Moves(r) /\ reports[r] \subseteq reports'[r]
  <2>1. reports' = reports
    BY <1>6 DEF Save, Publish, PublishFails
  <2>2. \/ Save(s) /\ pc[s] = "save" /\ pc' = [pc EXCEPT ![s] = "publish"]
        \/ Publish(s) /\ pc' = [pc EXCEPT ![s] = "returned"]
        \/ PublishFails(s) /\ pc' = [pc EXCEPT ![s] = "error"]
    BY <1>6, AfterSteps DEF Save, Publish, PublishFails, Goto
  <2>3. QED BY <2>1, <2>2 DEF Moves, Types
<1>7. ASSUME NEW s \in Scans, Reject(s) PROVE Moves(r) /\ reports[r] \subseteq reports'[r]
  <2>1. reports' = reports
    BY <1>7, RejectEffect
  <2>2. CASE Down("scheduler")
    BY <2>1, <2>2, DownMoves DEF Process
  <2>3. CASE pc' = [pc EXCEPT ![s] = "thrown"] /\ pc[s] = "error"
    BY <2>1, <2>3 DEF Moves, Types, Ended
  <2>4. QED BY <1>7, <2>2, <2>3, RejectEffect
<1>8. CASE Exit
  BY <1>8, DownMoves DEF Exit, Process
<1>9. CASE StopSignal \/ Restart
  BY <1>9, <1>1 DEF StopSignal, Restart, outputs
<1>10. QED
  BY <1>1, <1>2, <1>3, <1>4, <1>5, <1>6, <1>7, <1>8, <1>9
     DEF Next, vars, Tick, Preflight, ScanStep, PublishErrorAndReject, RejectInSilence, Process

-------------------------------------------------------------------------------
(* Types.                                                                  *)

\* The types hold at first.
LEMMA TypesInit == Init => Types
BY DEF Init, Types, Process, Status, Kinds, Ended

\* The types of what a scan is about: its step, its process and its files.
LEMMA PcTypes ==
    ASSUME Types, [Next]_vars
    PROVE  /\ pc' \in [Scans -> {"new", "probe", "json", "markdown", "save", "publish", "error"}
                                \cup Ended]
           /\ DOMAIN pc' = Scans
<1>1. CASE UNCHANGED pc
  BY <1>1 DEF Types
<1>2. ASSUME NEW p \in Process, Down(p)
      PROVE  pc' \in [Scans -> {"new", "probe", "json", "markdown", "save", "publish", "error"}
                               \cup Ended]
  BY <1>2 DEF Down, Types, Ended
<1>3. ASSUME NEW s \in Scans,
             NEW step \in {"new", "probe", "json", "markdown", "save", "publish", "error"}
                          \cup Ended,
             Goto(s, step)
      PROVE  pc' \in [Scans -> {"new", "probe", "json", "markdown", "save", "publish", "error"}
                               \cup Ended]
  BY <1>3 DEF Goto, Types
<1>4. ASSUME NEW s \in Scans, ScanStep(s)
      PROVE  \/ UNCHANGED pc
             \/ \E step \in {"json", "markdown", "save", "publish", "error"} \cup Ended :
                    Goto(s, step)
             \/ Down("scheduler")
  BY <1>4, AfterSteps DEF ScanStep, ProbeTarget, ProbeMissing, Advance, WriteReport,
     WriteReportFails, Save, Publish, PublishFails, PublishErrorAndReject, RejectInSilence,
     Reject, Ended
<1>5. ASSUME NEW s \in Scans, Tick(s) \/ Preflight(s) PROVE Goto(s, "probe")
  BY <1>5 DEF Tick, Preflight, Start
<1>6. QED
  BY <1>1, <1>2, <1>3, <1>4, <1>5 DEF Next, vars, StopSignal, Exit, Restart, Process, Types

\* A scan that starts has a process and a time.
LEMMA TypesStart ==
    ASSUME Types, NEW s \in Scans, NEW p \in Process, Start(s, p)
    PROVE  Types'
BY PcTypes DEF Start, Types, outputs, Goto, Ended

\* A target that is probed adds a status, any other one is put aside.
LEMMA TypesProbe ==
    ASSUME Types, Probed, NEW s \in Scans, ProbeTarget(s) \/ ProbeMissing(s),
           pc' \in [Scans -> {"new", "probe", "json", "markdown", "save", "publish", "error"}
                             \cup Ended]
    PROVE  Types'
<1>1. at[s] \in 1..Len(Requested) /\ Requested[at[s]] \in Targets /\ at[s] \in Nat
  <2>1. at[s] \in 1..(Len(Requested) + 1) /\ at[s] <= Len(Requested)
    BY DEF Probed, ProbeTarget, ProbeMissing
  <2>2. QED BY <2>1, RequestedIsSeq
<1>2. seen' \in [Scans -> Seq(Status)]
  <2>1. CASE UNCHANGED seen
    BY <2>1 DEF Types
  <2>2. CASE ProbeTarget(s)
    <3>1. PICK status \in Status : seen' = [seen EXCEPT ![s] = Append(@, status)]
      BY <2>2 DEF ProbeTarget, ProbeAnswers, Status
    <3>2. Append(seen[s], status) \in Seq(Status)
      BY <3>1, AppendProperties DEF Types
    <3>3. QED BY <3>1, <3>2 DEF Types
  <2>3. QED BY <2>1, <2>2 DEF ProbeMissing
<1>3. pending' \in [Scans -> SUBSET Targets]
  <2>1. \/ pending' = pending
        \/ pending' = [pending EXCEPT ![s] = @ \cup {Requested[at[s]]}]
    BY DEF ProbeTarget, ProbeMissing
  <2>2. pending \in [Scans -> SUBSET Targets]
    BY DEF Types
  <2>3. QED BY <1>1, <2>1, <2>2
<1>4. UNCHANGED <<mode, owner, reports, history, announced, lostReply, overlapped>>
  BY DEF ProbeTarget, ProbeMissing, Advance, outputs
<1>5. at' \in [Scans -> Nat] /\ finishedAt' \in [Scans -> Nat] /\ clock' \in Nat
  <2>1. /\ at' = [at EXCEPT ![s] = at[s] + 1]
        /\ \/ UNCHANGED <<clock, finishedAt>>
           \/ clock' = clock + 1 /\ finishedAt' = [finishedAt EXCEPT ![s] = clock']
    BY DEF ProbeTarget, ProbeMissing, Advance
  <2>2. at \in [Scans -> Nat] /\ finishedAt \in [Scans -> Nat] /\ clock \in Nat
    BY DEF Types
  <2>3. QED BY <1>1, <2>1, <2>2
<1>6. QED BY <1>2, <1>3, <1>4, <1>5 DEF Types

\* What the service and the process do keeps the types.
LEMMA TypesRest ==
    ASSUME Types, [Next]_vars,
           ~ \E s \in Scans : ProbeTarget(s) \/ ProbeMissing(s) \/ Tick(s) \/ Preflight(s)
    PROVE  Types'
<1>1. pc' \in [Scans -> {"new", "probe", "json", "markdown", "save", "publish", "error"}
                        \cup Ended]
  BY PcTypes
<1>2. UNCHANGED <<scanVars, overlapped>>
  BY RejectEffect DEF Next, vars, ScanStep, WriteReport, WriteReportFails, Save, Publish,
     PublishFails, PublishErrorAndReject, RejectInSilence, StopSignal, Exit, Restart, scanVars
<1>3. mode' \in [Process -> {"up", "stopping", "down"}]
  BY DEF Next, vars, ScanStep, WriteReport, WriteReportFails, Save, Publish,
     PublishFails, PublishErrorAndReject, RejectInSilence, Reject, StopSignal, Exit, Restart,
     Down, Types
<1>4. reports' \in [Scans -> SUBSET Both]
  <2>1. \/ UNCHANGED reports
        \/ \E s \in Scans : \E kind \in Both : reports' = [reports EXCEPT ![s] = @ \cup {kind}]
    BY RejectEffect DEF Next, vars, ScanStep, WriteReport, WriteReportFails, Save, Publish,
     PublishFails, PublishErrorAndReject, RejectInSilence, StopSignal, Exit, Restart,
     outputs, Both
  <2>2. reports \in [Scans -> SUBSET Both]
    BY DEF Types
  <2>3. ASSUME NEW s \in Scans, NEW kind \in Both,
               reports' = [reports EXCEPT ![s] = @ \cup {kind}]
        PROVE  reports' \in [Scans -> SUBSET Both]
    BY <2>2, <2>3
  <2>4. QED BY <2>1, <2>2, <2>3
<1>5. history' \in [Process -> Seq(Scans)]
  <2>1. ASSUME NEW s \in Scans, Save(s) PROVE history' \in [Process -> Seq(Scans)]
    <3>1. owner[s] \in Process /\ history[owner[s]] \in Seq(Scans)
      BY DEF Types
    <3>2. Record(history[owner[s]], s) \in Seq(Scans)
      BY <3>1, RecordAdds
    <3>3. QED BY <2>1, <3>1, <3>2 DEF Save, Types
  <2>2. ASSUME NEW p \in Process, Down(p) PROVE history' \in [Process -> Seq(Scans)]
    BY <2>2, EmptySeq DEF Down, Types
  <2>3. CASE UNCHANGED history
    BY <2>3 DEF Types
  <2>4. QED
    BY <2>1, <2>2, <2>3 DEF Next, vars, ScanStep, WriteReport, WriteReportFails, Publish,
       PublishFails, PublishErrorAndReject, RejectInSilence, Reject, StopSignal, Exit, Restart,
       outputs, Process
<1>6. announced' \in [Scans -> SUBSET Kinds]
  <2>1. ASSUME NEW s \in Scans, NEW kind \in Kinds, Announce(s, kind)
        PROVE  announced' \in [Scans -> SUBSET Kinds]
    BY <2>1 DEF Announce, Types
  <2>2. CASE UNCHANGED announced
    BY <2>2 DEF Types
  <2>3. \A s \in Scans : ResultKind(s) \in Kinds /\ "execution_error" \in Kinds
    BY ResultKinds DEF Kinds
  <2>4. QED
    BY <2>1, <2>2, <2>3 DEF Next, vars, ScanStep, WriteReport, WriteReportFails, Save, Publish,
       PublishFails, PublishErrorAndReject, RejectInSilence, StopSignal, Exit, Restart, outputs
<1>7. lostReply' \in SUBSET Scans
  BY RejectEffect DEF Next, vars, ScanStep, WriteReport, WriteReportFails, Save, Publish,
     PublishFails, PublishErrorAndReject, RejectInSilence, StopSignal, Exit, Restart, Types
<1>8. QED
  BY <1>1, <1>2, <1>3, <1>4, <1>5, <1>6, <1>7 DEF Types, scanVars

\* The types are kept by every step.
LEMMA TypesStep == ASSUME Types, Probed, [Next]_vars PROVE Types'
BY TypesStart, TypesProbe, TypesRest, PcTypes DEF Next, ScanStep, Tick, Preflight, Process

-------------------------------------------------------------------------------
(* How far a scan is.                                                      *)

\* Only the two steps of the probes move on in the list of targets.
LEMMA ScanVarsKept ==
    ASSUME Types, [Next]_vars, ~ \E s \in Scans : ProbeTarget(s) \/ ProbeMissing(s)
    PROVE  UNCHANGED <<at, seen, pending, finishedAt>>
BY RejectEffect DEF Next, vars, Tick, Preflight, Start, ScanStep, WriteReport, WriteReportFails,
   Save, Publish, PublishFails, PublishErrorAndReject, RejectInSilence, StopSignal, Exit, Restart,
   scanVars

\* A step of the probes moves on by one target and changes nothing of another scan.
LEMMA ProbeEffect ==
    ASSUME Types, Probed, NEW s \in Scans, ProbeTarget(s) \/ ProbeMissing(s)
    PROVE  /\ pc[s] = "probe" /\ at[s] \in 1..Len(Requested)
           /\ at' = [at EXCEPT ![s] = at[s] + 1]
           /\ \/ at[s] < Len(Requested) /\ UNCHANGED <<pc, clock, finishedAt>>
              \/ /\ at[s] = Len(Requested) /\ pc' = [pc EXCEPT ![s] = "json"]
                 /\ clock' = clock + 1 /\ finishedAt' = [finishedAt EXCEPT ![s] = clock + 1]
           /\ Len(seen'[s]) <= Len(seen[s]) + 1 /\ Len(seen'[s]) \in Nat
           /\ pending'[s] = pending[s] \cup ({Requested[at[s]]} \ Probes)
           /\ \A r \in Scans \ {s} : seen'[r] = seen[r] /\ pending'[r] = pending[r]
           /\ UNCHANGED <<mode, owner, outputs, faults, lostReply, overlapped>>
<1>1. pc[s] = "probe" /\ Advance(s)
  BY DEF ProbeTarget, ProbeMissing
<1>2. at[s] \in 1..Len(Requested) /\ Len(Requested) \in Nat
  BY <1>1, RequestedIsSeq DEF Probed
<1>3. /\ at' = [at EXCEPT ![s] = at[s] + 1]
      /\ \/ at[s] < Len(Requested) /\ UNCHANGED <<pc, clock, finishedAt>>
         \/ /\ at[s] = Len(Requested) /\ pc' = [pc EXCEPT ![s] = "json"]
            /\ clock' = clock + 1 /\ finishedAt' = [finishedAt EXCEPT ![s] = clock + 1]
      /\ UNCHANGED <<mode, owner, outputs, faults, lostReply, overlapped>>
  BY <1>1, <1>2, AfterSteps DEF Advance, Goto
<1>4. seen[s] \in Seq(Status) /\ Len(seen[s]) \in Nat
  BY LenProperties DEF Types
<1>5. CASE ProbeTarget(s)
  <2>1. PICK status \in Status : seen' = [seen EXCEPT ![s] = Append(@, status)]
    BY <1>5 DEF ProbeTarget, ProbeAnswers, Status
  <2>2. Len(seen'[s]) = Len(seen[s]) + 1
    BY <1>4, <2>1, AppendProperties DEF Types
  <2>3. pending' = pending /\ Requested[at[s]] \in Probes
    BY <1>5 DEF ProbeTarget
  <2>4. \A r \in Scans \ {s} : seen'[r] = seen[r]
    BY <2>1 DEF Types
  <2>5. QED BY <1>1, <1>2, <1>3, <1>4, <2>2, <2>3, <2>4
<1>6. CASE ProbeMissing(s)
  <2>1. /\ seen' = seen /\ Requested[at[s]] \notin Probes
        /\ pending' = [pending EXCEPT ![s] = @ \cup {Requested[at[s]]}]
    BY <1>6 DEF ProbeMissing
  <2>2. /\ pending'[s] = pending[s] \cup {Requested[at[s]]}
        /\ \A r \in Scans \ {s} : pending'[r] = pending[r]
    BY <2>1 DEF Types
  <2>3. QED BY <1>1, <1>2, <1>3, <1>4, <2>1, <2>2
<1>7. QED BY <1>5, <1>6

\* What was looked at and what was put aside together are the targets so far.
LEMMA ProbedStep == ASSUME Types, Probed, [Next]_vars PROVE Probed'
<1>1. CASE ~ \E s \in Scans : ProbeTarget(s) \/ ProbeMissing(s)
  <2>1. UNCHANGED <<at, seen, pending>>
    BY <1>1, ScanVarsKept
  <2>2. \A s \in Scans :
          /\ pc'[s] \in {"new", "probe"} => pc[s] \in {"new", "probe"}
          /\ pc'[s] \in {"json", "markdown", "save", "publish", "returned"} =>
                 pc[s] \in {"json", "markdown", "save", "publish", "returned"}
    BY <1>1, StepMoves DEF Moves, Publish, PublishFails
  <2>3. QED BY <2>1, <2>2 DEF Probed
<1>2. ASSUME NEW s \in Scans, ProbeTarget(s) \/ ProbeMissing(s) PROVE Probed'
  <2>1. /\ Len(Requested) \in Nat /\ at[s] \in 1..Len(Requested) /\ at'[s] = at[s] + 1
        /\ \A r \in Scans \ {s} : at'[r] = at[r]
    BY <1>2, RequestedIsSeq, ProbeEffect DEF Types
  <2>2. /\ pc'[s] \in {"new", "probe"} => at[s] < Len(Requested)
        /\ pc'[s] \in {"json", "markdown", "save", "publish", "returned"} =>
               at[s] = Len(Requested)
        /\ \A r \in Scans \ {s} : pc'[r] = pc[r]
    BY <1>2, ProbeEffect DEF Types
  <2>3. Len(seen'[s]) < at'[s]
    <3>1. Len(seen[s]) \in Nat /\ Len(seen[s]) < at[s] /\ Len(seen'[s]) \in Nat
      BY <1>2, LenProperties, ProbeEffect DEF Types, Probed
    <3>2. Len(seen'[s]) <= Len(seen[s]) + 1
      BY <1>2, ProbeEffect
    <3>3. QED BY <2>1, <3>1, <3>2
  <2>4. pending'[s] = {Requested[i] : i \in 1..(at'[s] - 1)} \ Probes
    <3>1. 1..(at'[s] - 1) = 1..(at[s] - 1) \cup {at[s]}
      BY <2>1
    <3>2. {Requested[i] : i \in 1..(at'[s] - 1)}
              = {Requested[i] : i \in 1..(at[s] - 1)} \cup {Requested[at[s]]}
      BY <3>1
    <3>3. pending[s] = {Requested[i] : i \in 1..(at[s] - 1)} \ Probes
      BY DEF Probed
    <3>4. pending'[s] = pending[s] \cup ({Requested[at[s]]} \ Probes)
      BY <1>2, ProbeEffect
    <3>5. QED BY <3>2, <3>3, <3>4
  <2>5. \A r \in Scans \ {s} : seen'[r] = seen[r] /\ pending'[r] = pending[r]
    BY <1>2, ProbeEffect
  <2>6. ASSUME NEW r \in Scans
        PROVE  /\ at'[r] \in 1..(Len(Requested) + 1) /\ Len(seen'[r]) < at'[r]
               /\ pc'[r] \in {"new", "probe"} => at'[r] <= Len(Requested)
               /\ pc'[r] \in {"json", "markdown", "save", "publish", "returned"} =>
                      at'[r] = Len(Requested) + 1
               /\ pending'[r] = {Requested[i] : i \in 1..(at'[r] - 1)} \ Probes
    <3>1. CASE r = s
      BY <2>1, <2>2, <2>3, <2>4, <3>1
    <3>2. CASE r # s
      BY <2>1, <2>2, <2>5, <3>2 DEF Probed
    <3>3. QED BY <3>1, <3>2
  <2>7. QED BY <2>6 DEF Probed
<1>3. QED BY <1>1, <1>2

-------------------------------------------------------------------------------
(* Reports behind records and events.                                      *)

\* A scan passes a step of the reports with the report written.
LEMMA WrittenStep == ASSUME Types, Written, [Next]_vars PROVE Written'
BY StepMoves DEF Written, Moves, Publish, PublishFails

\* Only Save adds to a history, and only to that of its own process.
LEMMA HistoryStep ==
    ASSUME Types, [Next]_vars, NEW p \in Process
    PROVE  \/ history'[p] = history[p]
           \/ history'[p] = <<>> /\ Down(p)
           \/ \E s \in Scans : Save(s) /\ owner[s] = p /\ history'[p] = Record(history[p], s)
<1>1. ASSUME NEW q \in Process, Down(q) PROVE history'[p] = history[p] \/ (history'[p] = <<>> /\ p = q)
  BY <1>1 DEF Down, Types
<1>2. ASSUME NEW s \in Scans, Save(s)
      PROVE  history'[p] = history[p] \/ (owner[s] = p /\ history'[p] = Record(history[p], s))
  BY <1>2 DEF Save, Types
<1>3. CASE UNCHANGED history
  BY <1>3
<1>4. QED
  BY <1>1, <1>2, <1>3 DEF Next, vars, Tick, Preflight, Start, ScanStep, ProbeTarget, ProbeMissing,
     Advance, WriteReport, WriteReportFails, Publish, PublishFails, PublishErrorAndReject,
     RejectInSilence, Reject, StopSignal, Exit, Restart, outputs, Process

\* Only three steps announce something of a scan, each of its own scan only.
LEMMA AnnouncedStep ==
    ASSUME Types, [Next]_vars, NEW s \in Scans
    PROVE  \/ announced'[s] = announced[s]
           \/ /\ Publish(s) \/ PublishFails(s)
              /\ announced'[s] = announced[s] \cup {ResultKind(s)}
           \/ /\ PublishErrorAndReject(s)
              /\ announced'[s] = announced[s] \cup {"execution_error"}
<1>1. CASE UNCHANGED announced
  BY <1>1
<1>2. ASSUME NEW r \in Scans, Publish(r) \/ PublishFails(r)
      PROVE  \/ announced'[s] = announced[s]
             \/ s = r /\ announced'[s] = announced[s] \cup {ResultKind(s)}
  BY <1>2 DEF Publish, PublishFails, Announce, Types
<1>3. ASSUME NEW r \in Scans, PublishErrorAndReject(r)
      PROVE  \/ announced'[s] = announced[s]
             \/ s = r /\ announced'[s] = announced[s] \cup {"execution_error"}
  BY <1>3 DEF PublishErrorAndReject, Announce, Types
<1>4. QED
  BY <1>1, <1>2, <1>3 DEF Next, vars, Tick, Preflight, Start, ScanStep, ProbeTarget, ProbeMissing,
     Advance, WriteReport, WriteReportFails, Save, RejectInSilence, StopSignal, Exit, Restart,
     outputs

\* A record or a result is made when both reports are there, and they stay.
LEMMA ReportsStep ==
    ASSUME Types, Types', Written, ReportsBehindRecords, [Next]_vars
    PROVE  ReportsBehindRecords'
<1> SUFFICES ASSUME NEW s \in Scans,
                    \/ Recorded(s)'
                    \/ announced'[s] \cap {"healthy", "environment_unhealthy"} # {}
             PROVE  reports'[s] = {"json", "markdown"}
  BY DEF ReportsBehindRecords
<1>1. reports[s] \subseteq reports'[s] /\ reports'[s] \subseteq Both
  BY StepMoves DEF Types
<1>2. CASE pc[s] \in {"save", "publish"}
  BY <1>1, <1>2 DEF Written, Both
<1>3. CASE Recorded(s) \/ announced[s] \cap {"healthy", "environment_unhealthy"} # {}
  BY <1>1, <1>3 DEF ReportsBehindRecords, Both
<1>4. CASE announced'[s] \cap {"healthy", "environment_unhealthy"} # {}
  BY <1>2, <1>3, <1>4, AnnouncedStep DEF Publish, PublishFails
<1>5. CASE Recorded(s)'
  <2>1. PICK p \in Process : Contains(history'[p], s)
    BY <1>5 DEF Recorded
  <2>2. CASE history'[p] = history[p]
    BY <1>3, <2>1, <2>2 DEF Recorded
  <2>3. CASE history'[p] = <<>>
    BY <2>1, <2>3 DEF Contains
  <2>4. ASSUME NEW r \in Scans, Save(r), history'[p] = Record(history[p], r)
        PROVE  reports'[s] = {"json", "markdown"}
    <3>1. PICK i \in 1..Len(history'[p]) : history'[p][i] = s
      BY <2>1 DEF Contains
    <3>2. history[p] \in Seq(Scans) /\ Len(history[p]) \in Nat
      BY LenProperties DEF Types
    <3>3. /\ \A j \in 1..Len(history[p]) : Record(history[p], r)[j] = history[p][j]
          /\ Record(history[p], r)[Len(history[p]) + 1] = r
          /\ Len(Record(history[p], r)) = Len(history[p]) + 1
      BY <3>2, RecordAdds
    <3>4. CASE i \in 1..Len(history[p])
      <4>1. history[p][i] = s
        BY <2>4, <3>1, <3>3, <3>4
      <4>2. Recorded(s)
        BY <3>4, <4>1 DEF Recorded, Contains
      <4>3. QED BY <1>3, <4>2
    <3>5. CASE i = Len(history[p]) + 1
      <4>1. s = r
        BY <2>4, <3>1, <3>3, <3>5
      <4>2. QED BY <1>2, <2>4, <4>1 DEF Save
    <3>6. QED BY <2>4, <3>1, <3>2, <3>3, <3>4, <3>5
  <2>5. QED BY <2>2, <2>3, <2>4, HistoryStep
<1>6. QED BY <1>4, <1>5

-------------------------------------------------------------------------------
(* What is announced of a scan.                                            *)

\* The result of a scan is settled once its targets are through.
LEMMA ResultKept ==
    ASSUME Types, Probed, [Next]_vars, NEW s \in Scans, pc[s] # "probe"
    PROVE  ResultKind(s)' = ResultKind(s)
<1>1. seen'[s] = seen[s]
  <2>1. CASE ~ \E r \in Scans : ProbeTarget(r) \/ ProbeMissing(r)
    BY <2>1, ScanVarsKept
  <2>2. ASSUME NEW r \in Scans, ProbeTarget(r) \/ ProbeMissing(r) PROVE seen'[s] = seen[s]
    BY <2>2, ProbeEffect
  <2>3. QED BY <2>1, <2>2
<1>2. QED BY <1>1 DEF ResultKind, Overall

\* A scan that a lost answer is on record for stays there.
LEMMA LostReplyGrows == ASSUME Types, [Next]_vars PROVE lostReply \subseteq lostReply'
BY RejectEffect DEF Next, vars, Tick, Preflight, Start, ScanStep, ProbeTarget, ProbeMissing,
   Advance, WriteReport, WriteReportFails, Save, Publish, PublishFails, PublishErrorAndReject,
   RejectInSilence, StopSignal, Exit, Restart

\* An event is added when its scan is at the publish, or ends with an error.
LEMMA ToldStep ==
    ASSUME Types, Types', Probed, Told, [Next]_vars
    PROVE  Told'
<1> SUFFICES ASSUME NEW s \in Scans
             PROVE  /\ \/ announced'[s] \subseteq {ResultKind(s)'}
                       \/ announced'[s] = {"execution_error"}
                       \/ /\ s \in lostReply'
                          /\ announced'[s] = {ResultKind(s)', "execution_error"}
                    /\ pc'[s] \notin {"error"} \cup Ended => announced'[s] = {}
                    /\ pc'[s] = "error" =>
                           \/ announced'[s] = {}
                           \/ s \in lostReply' /\ announced'[s] = {ResultKind(s)'}
                    /\ pc'[s] = "returned" => announced'[s] = {ResultKind(s)'}
  BY DEF Told
<1>1. lostReply \subseteq lostReply' /\ Moves(s)
  BY LostReplyGrows, StepMoves
<1>2. CASE pc[s] = "probe"
  <2>1. announced[s] = {} /\ announced'[s] = announced[s]
    BY <1>2, AnnouncedStep DEF Told, Ended, Publish, PublishFails, PublishErrorAndReject, Reject
  <2>2. pc'[s] \in {"probe", "json", "thrown", "lost"}
    BY <1>1, <1>2 DEF Moves, Publish, PublishFails
  <2>3. QED BY <2>1, <2>2 DEF Ended
<1>3. CASE pc[s] # "probe" /\ announced'[s] = announced[s]
  <2>1. ResultKind(s)' = ResultKind(s)
    BY <1>3, ResultKept
  <2>2. CASE Publish(s) \/ PublishFails(s)
    <3>1. announced[s] = {} /\ pc[s] = "publish"
      BY <2>2 DEF Told, Ended, Publish, PublishFails
    <3>2. ~ Publish(s)
      BY <1>3, <3>1 DEF Publish, Announce, Types
    <3>3. pc'[s] = "error"
      BY <2>2, <3>2 DEF PublishFails, Goto, Types
    <3>4. QED BY <1>3, <3>1, <3>3 DEF Ended
  <2>3. CASE ~ Publish(s) /\ ~ PublishFails(s)
    <3>1. /\ pc'[s] = "returned" => pc[s] = "returned"
          /\ pc'[s] = "error" => pc[s] = "error" \/ pc[s] \in {"json", "markdown"}
          /\ pc'[s] \notin {"error"} \cup Ended => pc[s] \notin {"error"} \cup Ended
      BY <1>1, <2>3 DEF Moves, Ended
    <3>2. pc[s] \in {"json", "markdown"} => announced[s] = {}
      BY DEF Told, Ended
    <3>3. QED BY <1>1, <1>3, <2>1, <3>1, <3>2 DEF Told
  <2>4. QED BY <2>2, <2>3
<1>4. CASE /\ Publish(s) \/ PublishFails(s)
           /\ announced'[s] = announced[s] \cup {ResultKind(s)} /\ announced'[s] # announced[s]
  <2>1. pc[s] = "publish" /\ announced[s] = {}
    BY <1>4 DEF Told, Ended, Publish, PublishFails
  <2>2. announced'[s] = {ResultKind(s)'}
    BY <1>4, <2>1, ResultKept
  <2>3. CASE Publish(s)
    BY <2>2, <2>3, AfterSteps DEF Publish, Goto, Types, Ended
  <2>4. CASE PublishFails(s)
    <3>1. pc'[s] = "error" /\ s \in lostReply'
      BY <1>4, <2>4 DEF PublishFails, Goto, Types
    <3>2. QED BY <2>2, <3>1
  <2>5. QED BY <1>4, <2>3, <2>4
<1>5. CASE PublishErrorAndReject(s) /\ announced'[s] = announced[s] \cup {"execution_error"}
  <2>1. pc[s] = "error" /\ ResultKind(s)' = ResultKind(s)
    BY <1>5, ResultKept DEF PublishErrorAndReject, Reject
  <2>2. announced[s] = {} \/ (s \in lostReply /\ announced[s] = {ResultKind(s)})
    BY <2>1 DEF Told
  <2>3. pc'[s] \in {"thrown", "lost"}
    <3>1. CASE owner[s] = "scheduler" /\ Down("scheduler")
      BY <2>1, <3>1 DEF Down, Live, Ended
    <3>2. CASE pc' = [pc EXCEPT ![s] = "thrown"]
      BY <3>2 DEF Types
    <3>3. QED BY <1>5, <3>1, <3>2, RejectEffect DEF PublishErrorAndReject
  <2>4. QED BY <1>1, <1>5, <2>1, <2>2, <2>3 DEF Ended
<1>6. QED BY <1>2, <1>3, <1>4, <1>5, AnnouncedStep

-------------------------------------------------------------------------------
(* The scans of a process.                                                 *)

\* The two ways a process has to start a scan.
Starts(s, p) == (p = "scheduler" /\ Tick(s)) \/ (p = "pipeline" /\ Preflight(s))

\* Starting a scan adds it to the scans of its process and to no other's.
LEMMA StartsEffect ==
    ASSUME Types, Running, NEW s \in Scans, NEW p \in Process, Starts(s, p)
    PROVE  /\ pc[s] = "new" /\ pc' = [pc EXCEPT ![s] = "probe"] /\ mode[p] = "up"
           /\ owner' = [owner EXCEPT ![s] = p]
           /\ clock' = clock + 1
           /\ overlapped' = IF Live(p) # {} THEN overlapped \cup {p} ELSE overlapped
           /\ p = "pipeline" => Live(p) = {}
           /\ UNCHANGED <<mode, finishedAt, history>>
BY DEF Starts, Tick, Preflight, Start, Goto, Running, outputs

\* Steps that start no scan leave the scans with their processes.
LEMMA OwnerKept ==
    ASSUME Types, [Next]_vars, ~ \E s \in Scans : \E p \in Process : Starts(s, p)
    PROVE  UNCHANGED <<owner, overlapped>>
BY RejectEffect DEF Starts, Process, Next, vars, ScanStep, ProbeTarget, ProbeMissing, Advance,
   WriteReport, WriteReportFails, Save, Publish, PublishFails, PublishErrorAndReject,
   RejectInSilence, StopSignal, Exit, Restart, scanVars

\* A scan leaves "new" only when it starts.
LEMMA NewStays ==
    ASSUME Types, Probed, [Next]_vars, ~ \E s \in Scans : \E p \in Process : Starts(s, p),
           NEW r \in Scans, pc[r] = "new"
    PROVE  pc'[r] = "new"
<1>1. ASSUME NEW p \in Process, Down(p) PROVE pc'[r] = "new"
  BY <1>1, DownMoves DEF Live
<1>2. ASSUME NEW s \in Scans, ProbeTarget(s) \/ ProbeMissing(s) PROVE pc'[r] = "new"
  BY <1>2, ProbeEffect DEF Types
<1>3. ASSUME NEW s \in Scans, Reject(s) PROVE pc'[r] = "new"
  BY <1>1, <1>3, RejectEffect DEF Types, Process
<1>4. ASSUME NEW s \in Scans,
             \/ WriteReport(s) \/ WriteReportFails(s) \/ Save(s) \/ Publish(s) \/ PublishFails(s)
      PROVE  pc'[r] = "new"
  BY <1>4 DEF WriteReport, WriteReportFails, Save, Publish, PublishFails, Goto, Types
<1>5. CASE UNCHANGED pc
  BY <1>5
<1>6. QED
  BY <1>1, <1>2, <1>3, <1>4, <1>5 DEF Starts, Process, Next, vars, ScanStep,
     PublishErrorAndReject, RejectInSilence, StopSignal, Exit, Restart

\* A scan is under way because it was, or because it starts.
LEMMA LiveStep ==
    ASSUME Types, Running, Probed, [Next]_vars, NEW p \in Process, NEW s \in Live(p)'
    PROVE  s \in Scans /\ (s \in Live(p) \/ Starts(s, p))
<1>1. s \in Scans
  BY DEF Live
<1>2. ASSUME NEW r \in Scans, NEW q \in Process, Starts(r, q)
      PROVE  s \in Live(p) \/ (r = s /\ q = p)
  BY <1>2, StartsEffect DEF Live, Types
<1>3. CASE ~ \E r \in Scans : \E q \in Process : Starts(r, q)
  <2>1. owner' = owner /\ Moves(s) /\ (pc[s] = "new" => pc'[s] = "new")
    BY <1>1, <1>3, OwnerKept, NewStays, StepMoves
  <2>2. QED BY <1>1, <2>1 DEF Moves, Live, Ended, Publish, PublishFails
<1>4. QED BY <1>1, <1>2, <1>3

\* A process is down when it went down, and the agent never is.
LEMMA ModeStep ==
    ASSUME Types, [Next]_vars, NEW p \in Process
    PROVE  /\ mode'["pipeline"] = mode["pipeline"]
           /\ mode'[p] = "down" => mode[p] = "down" \/ Down(p)
<1>1. \/ UNCHANGED mode
      \/ Down("scheduler")
      \/ \E m \in {"up", "stopping"} : mode' = [mode EXCEPT !["scheduler"] = m]
  BY RejectEffect DEF Next, vars, Tick, Preflight, Start, ScanStep, ProbeTarget, ProbeMissing,
     Advance, WriteReport, WriteReportFails, Save, Publish, PublishFails, PublishErrorAndReject,
     RejectInSilence, StopSignal, Exit, Restart
<1>2. CASE Down("scheduler")
  BY <1>2 DEF Down, Types, Process
<1>3. CASE ~ Down("scheduler")
  BY <1>1, <1>3 DEF Types, Process
<1>4. QED BY <1>2, <1>3

\* A process that goes down has no scan left.
LEMMA DownEnds ==
    ASSUME Types, [Next]_vars, NEW p \in Process, Down(p), owner' = owner
    PROVE  Live(p)' = {}
BY DownMoves DEF Live, Ended

\* Scans run in processes that run, and one at a time where ticks never overlapped.
LEMMA RunningStep ==
    ASSUME Types, Running, Probed, [Next]_vars
    PROVE  Running'
<1>1. mode'["pipeline"] = "up"
  BY ModeStep DEF Running, Process
<1>2. overlapped \subseteq overlapped' /\ "pipeline" \notin overlapped'
  <2>1. ASSUME NEW s \in Scans, NEW p \in Process, Starts(s, p)
        PROVE  overlapped \subseteq overlapped' /\ "pipeline" \notin overlapped'
    BY <2>1, StartsEffect DEF Running
  <2>2. QED BY <2>1, OwnerKept DEF Running
<1>3. ASSUME NEW p \in Process, mode'[p] = "down" PROVE Live(p)' = {}
  <2>1. ~ \E s \in Scans : Starts(s, p)
    <3>1. ASSUME NEW s \in Scans, Starts(s, p) PROVE FALSE
      BY <1>3, <3>1, StartsEffect
    <3>2. QED BY <3>1
  <2>2. CASE mode[p] = "down"
    BY <2>1, <2>2, LiveStep DEF Running
  <2>3. CASE Down(p)
    <3>1. ~ \E s \in Scans : \E q \in Process : Starts(s, q)
      <4>1. ASSUME NEW s \in Scans, NEW q \in Process, Starts(s, q) PROVE FALSE
        <5>1. pc[s] = "new" /\ pc'[s] = "probe"
          BY <4>1, StartsEffect DEF Types
        <5>2. QED BY <2>3, <5>1, DownMoves
      <4>2. QED BY <4>1
    <3>2. QED BY <2>3, <3>1, OwnerKept, DownEnds
  <2>4. QED BY <1>3, <2>2, <2>3, ModeStep
<1>4. ASSUME NEW p \in Process \ overlapped', NEW s \in Live(p)', NEW r \in Live(p)'
      PROVE  s = r
  <2>1. p \in Process \ overlapped /\ s \in Scans /\ r \in Scans
    BY <1>2, LiveStep
  <2>2. CASE s \in Live(p) /\ r \in Live(p)
    BY <2>1, <2>2 DEF Running
  <2>3. ASSUME NEW x \in Scans, Starts(x, p) PROVE Live(p) = {}
    BY <1>4, <2>1, <2>3, StartsEffect
  <2>4. CASE Starts(s, p) /\ Starts(r, p)
    <3>1. pc[r] = "new" /\ pc'[r] = "probe" /\ pc' = [pc EXCEPT ![s] = "probe"]
      BY <2>1, <2>4, StartsEffect DEF Types
    <3>2. QED BY <2>1, <3>1 DEF Types
  <2>5. s \in Live(p) \/ Starts(s, p)
    BY <2>1, LiveStep
  <2>6. r \in Live(p) \/ Starts(r, p)
    BY <2>1, LiveStep
  <2>7. QED BY <2>1, <2>2, <2>3, <2>4, <2>5, <2>6
<1>5. QED BY <1>1, <1>2, <1>3, <1>4 DEF Running

-------------------------------------------------------------------------------
(* The order of the records.                                               *)

\* The clock goes forward, and a scan finishes at a time of its own.
LEMMA FinishedStep ==
    ASSUME Types, Running, Probed, [Next]_vars, NEW r \in Scans
    PROVE  /\ clock \in Nat /\ clock' \in Nat /\ clock <= clock'
           /\ finishedAt[r] \in Nat
           /\ \/ finishedAt'[r] = finishedAt[r] /\ ~ (pc[r] = "probe" /\ pc'[r] = "json")
              \/ finishedAt'[r] = clock + 1 /\ clock' = clock + 1 /\ pc[r] = "probe"
<1>0. clock \in Nat /\ finishedAt[r] \in Nat
  BY DEF Types
<1>1. ASSUME NEW s \in Scans, ProbeTarget(s) \/ ProbeMissing(s)
      PROVE  /\ clock' \in Nat /\ clock <= clock'
             /\ \/ finishedAt'[r] = finishedAt[r] /\ ~ (pc[r] = "probe" /\ pc'[r] = "json")
                \/ finishedAt'[r] = clock + 1 /\ clock' = clock + 1 /\ pc[r] = "probe"
  <2>1. /\ pc[s] = "probe"
        /\ \/ UNCHANGED <<pc, clock, finishedAt>>
           \/ /\ pc' = [pc EXCEPT ![s] = "json"] /\ clock' = clock + 1
              /\ finishedAt' = [finishedAt EXCEPT ![s] = clock + 1]
    BY <1>1, ProbeEffect
  <2>2. CASE UNCHANGED <<pc, clock, finishedAt>>
    BY <1>0, <2>2
  <2>3. CASE /\ pc' = [pc EXCEPT ![s] = "json"] /\ clock' = clock + 1
             /\ finishedAt' = [finishedAt EXCEPT ![s] = clock + 1]
    <3>1. CASE r = s
      BY <1>0, <2>1, <2>3, <3>1 DEF Types
    <3>2. CASE r # s
      BY <1>0, <2>3, <3>2 DEF Types
    <3>3. QED BY <3>1, <3>2
  <2>4. QED BY <2>1, <2>2, <2>3
<1>2. CASE ~ \E s \in Scans : ProbeTarget(s) \/ ProbeMissing(s)
  <2>1. finishedAt' = finishedAt
    BY <1>2, ScanVarsKept
  <2>2. clock' = clock \/ clock' = clock + 1
    BY <1>2, RejectEffect DEF Next, vars, Tick, Preflight, Start, ScanStep, WriteReport,
       WriteReportFails, Save, Publish, PublishFails, PublishErrorAndReject, RejectInSilence,
       StopSignal, Exit, Restart, scanVars
  <2>3. ~ (pc[r] = "probe" /\ pc'[r] = "json")
    BY <1>2, StepMoves DEF Moves, Publish, PublishFails
  <2>4. QED BY <1>0, <2>1, <2>2, <2>3
<1>3. QED BY <1>0, <1>1, <1>2

\* A record is of a scan that is beyond its save.
LEMMA RecordOf ==
    ASSUME Types, Ordered, NEW p \in Process, NEW i \in DOMAIN history[p]
    PROVE  /\ history[p][i] \in Scans /\ owner[history[p][i]] = p
           /\ pc[history[p][i]] \in {"publish", "error"} \cup Ended
BY LenProperties, ElementOfSeq DEF Types, Ordered

\* Where the records of a process stay, their times do.
LEMMA TimesKept ==
    ASSUME Types, Running, Probed, Ordered, [Next]_vars, NEW p \in Process,
           NEW i \in DOMAIN history[p]
    PROVE  finishedAt'[history[p][i]] = finishedAt[history[p][i]]
BY RecordOf, FinishedStep DEF Ended

\* A scan that is beyond its save stays there, with its process.
LEMMA RecordedStays ==
    ASSUME Types, Running, Probed, [Next]_vars, NEW r \in Scans,
           pc[r] \in {"publish", "error"} \cup Ended
    PROVE  owner'[r] = owner[r] /\ pc'[r] \in {"publish", "error"} \cup Ended
<1>1. pc'[r] \in {"publish", "error"} \cup Ended
  BY StepMoves DEF Moves, Ended
<1>2. ASSUME NEW s \in Scans, NEW p \in Process, Starts(s, p) PROVE owner'[r] = owner[r]
  BY <1>2, StartsEffect DEF Types, Ended
<1>3. QED BY <1>1, <1>2, OwnerKept

\* Saving is a step of a scan under way and touches no time and no owner.
LEMMA SaveEffect ==
    ASSUME Types, NEW s \in Scans, Save(s)
    PROVE  /\ s \in Live(owner[s]) /\ pc[s] = "save" /\ pc'[s] = "publish"
           /\ UNCHANGED <<owner, finishedAt, overlapped>>
BY AfterSteps DEF Save, Live, Goto, Types, Ended, scanVars

\* Records are of scans beyond their save and a scan to be saved finished after them.
LEMMA OrderedStep ==
    ASSUME Types, Types', Running, Running', Probed, Ordered, [Next]_vars
    PROVE  Ordered'
<1>1. ASSUME NEW s \in Scans PROVE finishedAt'[s] <= clock'
  BY <1>1, FinishedStep DEF Ordered
<1>2. ASSUME NEW p \in Process, NEW i \in DOMAIN history'[p]
      PROVE  /\ owner'[history'[p][i]] = p
             /\ pc'[history'[p][i]] \in {"publish", "error"} \cup Ended
  <2>1. CASE history'[p] = history[p]
    BY <2>1, RecordOf, RecordedStays
  <2>2. CASE history'[p] = <<>>
    BY <1>2, <2>2
  <2>3. ASSUME NEW s \in Scans, Save(s), owner[s] = p, history'[p] = Record(history[p], s)
        PROVE  /\ owner'[history'[p][i]] = p
               /\ pc'[history'[p][i]] \in {"publish", "error"} \cup Ended
    <3>1. history[p] \in Seq(Scans)
      BY DEF Types
    <3>2. /\ i \in 1..(Len(history[p]) + 1) /\ Len(history[p]) \in Nat
          /\ DOMAIN history[p] = 1..Len(history[p])
          /\ \A j \in 1..Len(history[p]) : history'[p][j] = history[p][j]
          /\ history'[p][Len(history[p]) + 1] = s
      <4>1. /\ DOMAIN Record(history[p], s) = 1..(Len(history[p]) + 1)
            /\ DOMAIN history[p] = 1..Len(history[p]) /\ Len(history[p]) \in Nat
            /\ \A j \in 1..Len(history[p]) : Record(history[p], s)[j] = history[p][j]
            /\ Record(history[p], s)[Len(history[p]) + 1] = s
        BY <3>1, RecordAdds
      <4>2. QED BY <1>2, <2>3, <4>1
    <3>3. CASE i \in 1..Len(history[p])
      BY <3>2, <3>3, RecordOf, RecordedStays
    <3>4. CASE i = Len(history[p]) + 1
      BY <2>3, <3>2, <3>4, SaveEffect
    <3>5. QED BY <3>2, <3>3, <3>4
  <2>4. QED BY <2>1, <2>2, <2>3, HistoryStep
<1>3. ASSUME NEW p \in Process \ overlapped', NEW s \in Live(p)',
             pc'[s] \in {"json", "markdown", "save"}, NEW i \in DOMAIN history'[p]
      PROVE  finishedAt'[history'[p][i]] < finishedAt'[s]
  <2>1. p \in Process \ overlapped
    <3>1. ASSUME NEW r \in Scans, NEW q \in Process, Starts(r, q)
          PROVE  overlapped \subseteq overlapped'
      BY <3>1, StartsEffect
    <3>2. QED BY <3>1, OwnerKept
  <2>2. s \in Scans /\ s \in Live(p)
    <3>1. ASSUME Starts(s, p), s \in Scans PROVE FALSE
      BY <1>3, <3>1, StartsEffect DEF Types
    <3>2. QED BY <3>1, LiveStep
  <2>3. ~ \E r \in Scans : Save(r) /\ owner[r] = p
    <3>1. ASSUME NEW r \in Scans, Save(r), owner[r] = p PROVE FALSE
      <4>1. r \in Live(p) /\ pc'[r] = "publish"
        BY <3>1, SaveEffect
      <4>2. r = s
        BY <2>1, <2>2, <4>1 DEF Running
      <4>3. QED BY <1>3, <4>1, <4>2
    <3>2. QED BY <3>1
  <2>4. history'[p] = history[p]
    BY <1>3, <2>3, HistoryStep
  <2>5. /\ history[p][i] \in Scans /\ finishedAt[history[p][i]] \in Nat
        /\ finishedAt'[history[p][i]] = finishedAt[history[p][i]]
        /\ finishedAt[history[p][i]] <= clock
    BY <1>3, <2>4, RecordOf, TimesKept DEF Types, Ordered
  <2>6. CASE finishedAt'[s] = clock + 1
    BY <2>2, <2>4, <2>5, <2>6, FinishedStep
  <2>7. CASE finishedAt'[s] = finishedAt[s] /\ ~ (pc[s] = "probe" /\ pc'[s] = "json")
    <3>1. pc[s] \in {"json", "markdown", "save"}
      BY <1>3, <2>2, <2>7, StepMoves DEF Moves, Publish, PublishFails
    <3>2. finishedAt[history[p][i]] < finishedAt[s]
      BY <1>3, <2>1, <2>2, <2>4, <3>1 DEF Ordered
    <3>3. QED BY <2>4, <2>5, <2>7, <3>2
  <2>8. QED BY <2>2, <2>6, <2>7, FinishedStep
<1>4. QED BY <1>1, <1>2, <1>3 DEF Ordered

\* A record is put behind the records of scans that finished before.
LEMMA LatestStep ==
    ASSUME Types, Types', Running, Probed, Ordered, LatestIsNewest, [Next]_vars
    PROVE  LatestIsNewest'
<1> SUFFICES ASSUME NEW p \in Process \ overlapped',
                    NEW i \in DOMAIN history'[p], NEW j \in DOMAIN history'[p], i < j
             PROVE  finishedAt'[history'[p][i]] < finishedAt'[history'[p][j]]
  BY DEF LatestIsNewest
<1>1. p \in Process \ overlapped
  <2>1. ASSUME NEW r \in Scans, NEW q \in Process, Starts(r, q)
        PROVE  overlapped \subseteq overlapped'
    BY <2>1, StartsEffect
  <2>2. QED BY <2>1, OwnerKept
<1>2. CASE history'[p] = history[p]
  BY <1>1, <1>2, TimesKept DEF LatestIsNewest
<1>3. CASE history'[p] = <<>>
  BY <1>3
<1>4. ASSUME NEW s \in Scans, Save(s), owner[s] = p, history'[p] = Record(history[p], s)
      PROVE  finishedAt'[history'[p][i]] < finishedAt'[history'[p][j]]
  <2>1. history[p] \in Seq(Scans)
    BY DEF Types
  <2>2. /\ i \in 1..(Len(history[p]) + 1) /\ j \in 1..(Len(history[p]) + 1)
        /\ Len(history[p]) \in Nat /\ DOMAIN history[p] = 1..Len(history[p])
        /\ \A k \in 1..Len(history[p]) : history'[p][k] = history[p][k]
        /\ history'[p][Len(history[p]) + 1] = s
    <3>1. /\ DOMAIN Record(history[p], s) = 1..(Len(history[p]) + 1)
          /\ DOMAIN history[p] = 1..Len(history[p]) /\ Len(history[p]) \in Nat
          /\ \A k \in 1..Len(history[p]) : Record(history[p], s)[k] = history[p][k]
          /\ Record(history[p], s)[Len(history[p]) + 1] = s
      BY <2>1, RecordAdds
    <3>2. QED BY <1>4, <3>1
  <2>3. /\ s \in Live(p) /\ pc[s] = "save" /\ finishedAt' = finishedAt
    BY <1>4, SaveEffect
  <2>4. i \in 1..Len(history[p])
    BY <2>2
  <2>5. CASE j \in 1..Len(history[p])
    BY <1>1, <2>2, <2>3, <2>4, <2>5 DEF LatestIsNewest
  <2>6. CASE j = Len(history[p]) + 1
    BY <1>1, <2>2, <2>3, <2>4, <2>6 DEF Ordered
  <2>7. QED BY <2>2, <2>5, <2>6
<1>5. QED BY <1>2, <1>3, <1>4, HistoryStep

-------------------------------------------------------------------------------
(* The theorems.                                                           *)

\* The inductive invariant holds at first: no scan has started.
LEMMA IInvInit == Init => IInv
<1> SUFFICES ASSUME Init PROVE IInv
  OBVIOUS
<1>1. Types
  BY TypesInit
<1>2. \A p \in Process : Live(p) = {} /\ history[p] = <<>>
  BY DEF Init, Live
<1>3. Probed
  <2>1. \A s \in Scans : at[s] = 1 /\ seen[s] = <<>> /\ pending[s] = {} /\ pc[s] = "new"
    BY DEF Init
  <2>2. {Requested[i] : i \in 1..(1 - 1)} = {}
    OBVIOUS
  <2>3. QED BY <2>1, <2>2, RequestedIsSeq DEF Probed
<1>4. Running /\ Written
  BY <1>2 DEF Init, Running, Written, Process
<1>5. Told /\ Ordered
  BY <1>2 DEF Init, Told, Ordered, Ended
<1>6. ReportsBehindRecords /\ LatestIsNewest
  BY <1>2 DEF Init, ReportsBehindRecords, LatestIsNewest, Recorded, Contains
<1>7. QED BY <1>1, <1>3, <1>4, <1>5, <1>6 DEF IInv

\* The inductive invariant is kept by every step.
LEMMA IInvStep == IInv /\ [Next]_vars => IInv'
<1> SUFFICES ASSUME IInv, [Next]_vars PROVE IInv'
  OBVIOUS
<1> USE DEF IInv
<1>1. Types'
  BY TypesStep
<1>2. Running' /\ Probed' /\ Written'
  BY RunningStep, ProbedStep, WrittenStep
<1>3. Told' /\ Ordered'
  BY <1>1, <1>2, ToldStep, OrderedStep
<1>4. ReportsBehindRecords' /\ LatestIsNewest'
  BY <1>1, ReportsStep, LatestStep
<1>5. QED BY <1>1, <1>2, <1>3, <1>4

\* The inductive invariant holds in every reachable state.
LEMMA IInvAlways == Spec => []IInv
BY IInvInit, IInvStep, PTL DEF Spec

\* In every reachable state the variables keep their types, a process that is down has no scan
\* under way, and the agent runs at most one (TypeOK).
THEOREM TypeCorrect == Spec => []TypeOK
<1>1. IInv => TypeOK
  BY DEF IInv, Types, Running, Probed, TypeOK, Both, Process
<1>2. QED BY <1>1, IInvAlways, PTL

\* A scan that is recorded or announced with a result has both reports, whatever write
\* or publish is rejected and whenever a process ends (ReportsBehindRecords).
THEOREM RecordsHaveReports == Spec => []ReportsBehindRecords
<1>1. IInv => ReportsBehindRecords
  BY DEF IInv
<1>2. QED BY <1>1, IInvAlways, PTL

\* A scan is announced with one outcome, and with a second one only after a publish that was
\* applied and rejected (OneVerdict).
THEOREM OneOutcome == Spec => []OneVerdict
<1>1. IInv => OneVerdict
  BY DEF IInv, Told, OneVerdict
<1>2. QED BY <1>1, IInvAlways, PTL

\* A scan that lets a build pass saw nothing critical, announced its own result and put aside
\* exactly the targets without a probe (PassedWasSeen).
THEOREM PassesAreSeen == Spec => []PassedWasSeen
<1>1. IInv => PassedWasSeen
  <2> SUFFICES ASSUME IInv, NEW s \in Scans, pc[s] = "returned", Verdict(s) = "passed"
               PROVE  /\ ~ Contains(seen[s], "critical")
                      /\ announced[s] = {ResultKind(s)}
                      /\ {Requested[i] : i \in DOMAIN Requested} \ Probes = pending[s]
    BY DEF PassedWasSeen
  <2>1. ~ Contains(seen[s], "critical")
    BY DEF Verdict, Overall, CalculateOverallStatus
  <2>2. announced[s] = {ResultKind(s)}
    BY DEF IInv, Told
  <2>3. at[s] = Len(Requested) + 1 /\ at[s] - 1 = Len(Requested)
    BY RequestedIsSeq DEF IInv, Probed
  <2>4. {Requested[i] : i \in DOMAIN Requested} \ Probes = pending[s]
    BY <2>3, RequestedIsSeq DEF IInv, Probed
  <2>5. QED BY <2>1, <2>2, <2>4
<1>2. QED BY <1>1, IInvAlways, PTL

\* The last record of a process is that of the scan that finished last, unless two scans of
\* the process were under way at a time (LatestIsNewest).
THEOREM LatestFinishedLast == Spec => []LatestIsNewest
<1>1. IInv => LatestIsNewest
  BY DEF IInv
<1>2. QED BY <1>1, IInvAlways, PTL
================================================================================
