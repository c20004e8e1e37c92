---------------------------- MODULE MCExecution ----------------------------
(***************************************************************************)
(* Instances of Execution for TLC.  The bounds: at most MaxCrashes crashes *)
(* and MaxCommands cancel and kill commands, days and 10-minute waits      *)
(* (other than those of an execution without a run) in a behaviour.        *)
(***************************************************************************)
EXTENDS Execution

CONSTANTS MaxCrashes, MaxCommands

VARIABLE commands       \* commands and waits so far

MCInit == Init /\ commands = 0

Counted ==
  \/ \E x \in Exec : \/ CancelExecution(x) \/ Kill(x)
                     \/ TenMinutesPass(x) /\ Live(x)
  \/ DayPasses

Uncounted ==
  \/ \E m \in Msg : Send(m)
  \/ \E x \in Exec : \/ RunStep(x) \/ ApprovalAnswered(x)
                     \/ TenMinutesPass(x) /\ ~Live(x)
  \/ Housekeeping
  \/ Crash /\ crashes < MaxCrashes
  \/ Boot

MCNext ==
  \/ Counted /\ commands < MaxCommands /\ commands' = commands + 1
  \/ Uncounted /\ UNCHANGED commands

(* Housekeeping prunes no checkpoint under a run. *)
MCSafetySpec == MCInit /\ [][MCNext /\ PrunesAtRest]_<<vars, commands>>

(* Housekeeping as it is, on a day that every run spends waiting for its   *)
(* model, its tool or its operator.                                        *)
Waits == \A x \in Exec : run[x].at \in {"off", "think", "ask", "act"}
MCPruningSpec == MCInit /\ [][MCNext /\ (DayPasses => Waits)]_<<vars, commands>>

MCSpec == MCSafetySpec /\ Fairness
=============================================================================
