------------------------- MODULE MCCollaborationAgent --------------------------
(* The collaboration agent with one notification and the message that carries it. *)
EXTENDS CollaborationAgent, TLC

CONSTANTS n1, m1, ops

MCIds == {n1, m1}
MCTargets == {ops}

Payload(type, ntf, msg, say) ==
    [type |-> type, ntf |-> ntf, msg |-> msg, esc |-> NoId, to |-> NoId, say |-> say]

\* A timeout of the notification, a click on its card and a reply.
MCArrivals ==
    {Payload("timeout", n1, m1, NoId), Payload("click", NoId, m1, "mark_fixed"),
     Payload("reply", NoId, m1, "effective")}
================================================================================
