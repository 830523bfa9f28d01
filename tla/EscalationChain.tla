---------------------------- MODULE EscalationChain ----------------------------
(***************************************************************************)
(* What the collaboration agent promises about escalations, per scope (the *)
(* notification, or its message when it has no id): a card is sent only    *)
(* for an escalation that was triggered, an escalation is triggered only   *)
(* for a notification that timed out, and the escalation is reported as    *)
(* progress only after its card.  Anything may stop half way; no stage is  *)
(* skipped or taken back.  CollaborationAgent implements this.             *)
(***************************************************************************)
CONSTANT Scopes

VARIABLES timedOut, triggered, carded, reported

vars == <<timedOut, triggered, carded, reported>>

Init ==
    /\ timedOut = {}
    /\ triggered = {}
    /\ carded = {}
    /\ reported = {}

TimeOut(s) ==
    /\ timedOut' = timedOut \cup {s}
    /\ UNCHANGED <<triggered, carded, reported>>

Trigger(s) ==
    /\ s \in timedOut
    /\ triggered' = triggered \cup {s}
    /\ UNCHANGED <<timedOut, carded, reported>>

SendCard(s) ==
    /\ s \in triggered
    /\ carded' = carded \cup {s}
    /\ UNCHANGED <<timedOut, triggered, reported>>

Report(s) ==
    /\ s \in carded
    /\ reported' = reported \cup {s}
    /\ UNCHANGED <<timedOut, triggered, carded>>

Next == \E s \in Scopes : TimeOut(s) \/ Trigger(s) \/ SendCard(s) \/ Report(s)

Spec == Init /\ [][Next]_vars
================================================================================
