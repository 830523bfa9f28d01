---------------------------- MODULE MCEventDelivery ----------------------------
(* EventDelivery on small instances for TLC. *)
EXTENDS EventDelivery, TLC

\* Workers are interchangeable: no action or safety property tells them apart.
WorkerSymmetry == Permutations(Workers)
================================================================================
