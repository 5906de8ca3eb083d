-------------------------- MODULE MCEventPipeline --------------------------
(* Instances of EventPipeline for TLC.                                     *)
EXTENDS EventPipeline
=============================================================================
