------------------------------ MODULE AtLeastOnce ------------------------------
(***************************************************************************)
(* What a queue on the event bus promises its publishers: an entry of the  *)
(* stream is closed only when no handler wants its event, or a handler run *)
(* for the event has succeeded, or the subscriber has given the event up.  *)
(* An event can be handled more than once, and be both completed and given *)
(* up; it is never dropped in silence.  EventDelivery implements this.     *)
(***************************************************************************)
EXTENDS Naturals, Sequences

CONSTANTS Events, HandledEvents, MaxEntries

VARIABLES stream,     \* the published entries
          completed,  \* events some handler run has finished successfully
          gaveUp,     \* events the subscriber has decided not to retry
          closed      \* entries the queue will not deliver again

vars == <<stream, completed, gaveUp, closed>>

Published == {stream[e] : e \in DOMAIN stream}
Settled(ev) == ev \in HandledEvents => ev \in completed \cup gaveUp

Init ==
    /\ stream = <<>>
    /\ completed = {}
    /\ gaveUp = {}
    /\ closed = {}

Publish(ev) ==
    /\ Len(stream) < MaxEntries
    /\ stream' = Append(stream, ev)
    /\ UNCHANGED <<completed, gaveUp, closed>>

Complete(ev) ==
    /\ ev \in Published \cap HandledEvents
    /\ completed' = completed \cup {ev}
    /\ UNCHANGED <<stream, gaveUp, closed>>

GiveUp(ev) ==
    /\ ev \in Published \cap HandledEvents
    /\ gaveUp' = gaveUp \cup {ev}
    /\ UNCHANGED <<stream, completed, closed>>

Close(e) ==
    /\ e \in DOMAIN stream
    /\ Settled(stream[e])
    /\ closed' = closed \cup {e}
    /\ UNCHANGED <<stream, completed, gaveUp>>

Next ==
    \/ \E ev \in Events : Publish(ev) \/ Complete(ev) \/ GiveUp(ev)
    \/ \E e \in DOMAIN stream : Close(e)

Spec == Init /\ [][Next]_vars
================================================================================
