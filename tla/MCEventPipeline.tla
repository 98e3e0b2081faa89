--------------------------- MODULE MCEventPipeline ---------------------------
(* Instances of EventPipeline for TLC. *)
EXTENDS EventPipeline

CONSTANTS c1, c2, r1, e1, v1
===============================================================================
