----------------------------- MODULE MCApproval -----------------------------
(***************************************************************************)
(* An instance of Approval for TLC that asks whether a pending request is  *)
(* used again.  Nobody answers in it, and identifiers are numbers of which *)
(* the lowest that is free is taken: which one it is makes no difference.  *)
(* MCServices explores Approval with its answers, crashes and lags.        *)
(***************************************************************************)
EXTENDS Approval

Unanswered ==
  /\ \/ \E x \in Asker : RunStep(x) \/ Choice(x)
     \/ Chatter
     \/ Crash
  /\ \A i, j \in Id : i < j /\ Fresh(i)' => Fresh(j)'

MCSpec == ApprovalInit /\ [][Unanswered]_approvalVars
=============================================================================
