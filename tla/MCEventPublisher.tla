---- MODULE MCEventPublisher ----
(* EventPublisher for TLC.                                                   *)
EXTENDS EventPublisher
====
