-------------------------- MODULE PipelineConstants --------------------------
(***************************************************************************)
(* The parameters of LayerPipeline, in a module of their own for modules   *)
(* that take LayerPipeline by INSTANCE beside other components.            *)
(***************************************************************************)
EXTENDS Naturals

CONSTANTS
  N,          \* layers that support the handler type, in the order they run
  Kinds,      \* handler types the invocation may have
  MaxCalls    \* bound: calls of `dispatch` in one invocation

AllKinds == {"http", "websocket", "consumer", "schedule", "custom"}

ASSUME PipelineAssumption ==
  /\ N \in Nat
  /\ MaxCalls \in Nat \ {0}
  /\ Kinds \subseteq AllKinds
=============================================================================
