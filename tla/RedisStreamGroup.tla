--------------------------- MODULE RedisStreamGroup ---------------------------
(***************************************************************************)
(* One Redis stream and one consumer group on it, as far as                *)
(* RedisStreamsEventBroker uses them: XADD, XREADGROUP ">", XPENDING,      *)
(* XCLAIM and XACK.  Redis itself is external; each operator below says    *)
(* what the broker relies on.  Stream ids are the positions 1, 2, ... of   *)
(* the stream, so two entries may carry the same event (the pipeline agent *)
(* publishes derived events under a deterministic id).                     *)
(*                                                                         *)
(* Every subscription of a queue uses the same consumer name, so the owner *)
(* column of the pending entries list tells nothing apart and is left out. *)
(***************************************************************************)
EXTENDS Naturals, Sequences, FiniteSets

CONSTANTS Events,      \* event ids that producers publish
          BatchSize,   \* COUNT of XREADGROUP and of XPENDING
          MaxEntries   \* bound: length of the stream

ASSUME GroupAssumption ==
    /\ BatchSize \in Nat \ {0}
    /\ MaxEntries \in Nat

VARIABLES stream,         \* the entries, oldest first: entry e carries event stream[e]
          lastDelivered,  \* the group's last-delivered-id
          deliveries,     \* delivery counter of a pending entry, 0 for an entry not pending
          idle            \* the pending entries idle for at least pendingIdleMs

groupVars == <<stream, lastDelivered, deliveries, idle>>

Entries == 1..MaxEntries
Pending == {e \in Entries : deliveries[e] > 0}

\* The entries the group has delivered and XACK has removed from its pending list.
Acked == (1..lastDelivered) \ Pending

GroupInit ==
    /\ stream = <<>>
    /\ lastDelivered = 0
    /\ deliveries = [e \in Entries |-> 0]
    /\ idle = {}

XAdd(ev) ==
    /\ Len(stream) < MaxEntries
    /\ stream' = Append(stream, ev)
    /\ UNCHANGED <<lastDelivered, deliveries, idle>>

\* What XREADGROUP ">" would return: at most BatchSize entries nobody has read yet.
ReadTo == IF Len(stream) < lastDelivered + BatchSize
          THEN Len(stream) ELSE lastDelivered + BatchSize
Unread == (lastDelivered + 1)..ReadTo

\* The whole batch enters the pending list at once, each entry with one delivery.
XReadGroup ==
    /\ Unread # {}
    /\ lastDelivered' = ReadTo
    /\ deliveries' = [e \in Entries |-> IF e \in Unread THEN 1 ELSE deliveries[e]]
    /\ UNCHANGED <<stream, idle>>

\* XPENDING "-" "+" BatchSize: the oldest BatchSize pending entries, idle or not.
PendingPage ==
    {e \in Pending : Cardinality({f \in Pending : f <= e}) <= BatchSize}

\* XCLAIM with min-idle-time: counts a delivery and restarts the idle clock.
XClaim(e) ==
    /\ e \in idle
    /\ deliveries' = [deliveries EXCEPT ![e] = @ + 1]
    /\ idle' = idle \ {e}
    /\ UNCHANGED <<stream, lastDelivered>>

XAck(e) ==
    /\ deliveries' = [deliveries EXCEPT ![e] = 0]
    /\ idle' = idle \ {e}
    /\ UNCHANGED <<stream, lastDelivered>>

\* pendingIdleMs pass without a delivery of e, whatever its consumer is doing.
GrowIdle(e) ==
    /\ e \in Pending \ idle
    /\ idle' = idle \cup {e}
    /\ UNCHANGED <<stream, lastDelivered, deliveries>>
===============================================================================
