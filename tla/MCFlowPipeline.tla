---------------------------- MODULE MCFlowPipeline -----------------------------
(* Instances of FlowPipeline for TLC. *)
EXTENDS FlowPipeline

(* One profile matches every flow, the other one only the second. *)
MCMatch == [p \in Profiles |-> IF p = 1 THEN Flows ELSE {2} \cap Flows]
================================================================================
