------------------------------ MODULE MCReview ------------------------------
(***************************************************************************)
(* An instance of Review for TLC that asks about memory.insert and         *)
(* memory.replace: both are known, neither is a secret, no setting of the  *)
(* operator approves anything by itself, and the policies are any.         *)
(***************************************************************************)
EXTENDS Review

MemoryTool ==
  [known : {TRUE}, caps : {ToolCapability}, effect : {"NonIdempotentMutation"},
   risk : {"Medium"}, policy : [ToolCapability -> [Layer -> LayerValue]],
   kind : {"MemoryMutation"}, mild : BOOLEAN, secret : {FALSE}, lenient : {FALSE}]

MCNext == \E t \in MemoryTool : AskTool(t)

MCSpec == ReviewInit /\ [][MCNext]_reviewVars
=============================================================================
