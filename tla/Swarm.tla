------------------------------- MODULE Swarm -------------------------------
(***************************************************************************)
(* The swarm patterns of swarm_orchestrator.rs: a debate of two agents,    *)
(* and the dispatch of tasks to workers with one report on all of them     *)
(* (supervisor and fan-out, which differ in their texts, in the verdict    *)
(* and in that a supervisor gives each worker one task).                   *)
(***************************************************************************)
EXTENDS Integers, FiniteSets

CONSTANTS
  Tasks,        \* number of tasks of a fan-out or supervisor
  Team,         \* number of workers
  Rounds        \* rounds of a debate

ASSUME SwarmAssumption == Tasks \in Nat /\ Team \in Nat \ {0} /\ Rounds \in 1..10

Task == 1..Tasks
WorkerOf(i) == (i - 1) % Team           \* of worker_ids

VARIABLES
  swarm,        \* where the command is
  next,         \* the task to dispatch, or the round of the debate
  status,       \* agent_executions.status of the execution of each task
  inbox,        \* tasks whose message is queued at their worker
  asking,       \* executions asked for at the scheduler
  lastRead,     \* final_status_map
  counted,      \* completed_count of the last poll
  late,         \* sixty seconds have passed
  verdict,      \* overall_status of the report
  holdsPermit,  \* the debate has a permit of the scheduler
  taken         \* history: the execution that claimed the message of a task

swarmVars == <<swarm, next, status, inbox, asking, lastRead, counted, late, verdict,
               holdsPermit, taken>>

Final == {"Completed", "Failed", "Cancelled"}
Status == {"none", "Pending", "Running"} \union Final

SwarmTypeOK ==
  /\ swarm \in {"idle", "plan", "dispatch", "queue", "waiting", "judged",
                "permit", "proponent", "critic", "judge", "over"}
  /\ next \in 0..(Tasks + Rounds + 1)
  /\ status \in [Task -> Status] /\ lastRead \in [Task -> Status]
  /\ inbox \subseteq Task /\ asking \subseteq Task
  /\ counted \in 0..Tasks
  /\ late \in BOOLEAN /\ holdsPermit \in BOOLEAN
  /\ verdict \in {"none", "all completed", "timeout", "some failed", "consensus", "error"}
  /\ taken \in [Task -> 0..Tasks]

SwarmInit ==
  /\ swarm = "idle" /\ next = 0
  /\ status = [i \in Task |-> "none"] /\ lastRead = [i \in Task |-> "none"]
  /\ inbox = {} /\ asking = {} /\ counted = 0 /\ late = FALSE /\ verdict = "none"
  /\ holdsPermit = FALSE /\ taken = [i \in Task |-> 0]

Dispatched == <<status, inbox, asking, taken>>
Waited == <<lastRead, counted, late>>

-----------------------------------------------------------------------------
(* run_debate *)

StartDebate ==
  /\ swarm = "idle" /\ swarm' = "permit" /\ next' = 1
  /\ UNCHANGED <<verdict, holdsPermit>> /\ UNCHANGED Dispatched /\ UNCHANGED Waited

GetPermit ==
  /\ swarm = "permit" /\ swarm' = "proponent" /\ holdsPermit' = TRUE
  /\ UNCHANGED <<next, verdict>> /\ UNCHANGED Dispatched /\ UNCHANGED Waited

Speak ==
  /\ \/ swarm = "proponent" /\ swarm' = "critic" /\ UNCHANGED next
     \/ /\ swarm = "critic"
        /\ IF next < Rounds THEN swarm' = "proponent" /\ next' = next + 1
                            ELSE swarm' = "judge" /\ UNCHANGED next
  /\ UNCHANGED <<verdict, holdsPermit>> /\ UNCHANGED Dispatched /\ UNCHANGED Waited

(* The synthesis, or an error at any turn: the permit goes back either way.*)
EndDebate ==
  /\ swarm \in {"permit", "proponent", "critic", "judge"}
  /\ swarm' = "over" /\ holdsPermit' = FALSE
  /\ verdict' \in {"error"} \union (IF swarm = "judge" THEN {"consensus"} ELSE {})
  /\ UNCHANGED next /\ UNCHANGED Dispatched /\ UNCHANGED Waited

-----------------------------------------------------------------------------
(* run_supervisor and run_fanout *)

(* The plan or the announcement is posted. *)
Announce ==
  /\ swarm = "idle" /\ swarm' = "dispatch" /\ next' = 1
  /\ UNCHANGED <<verdict, holdsPermit>> /\ UNCHANGED Dispatched /\ UNCHANGED Waited

(* An error ends the command; what was dispatched before runs on, and      *)
(* nobody reports on it.                                                   *)
GiveUp ==
  /\ swarm = "dispatch" /\ next <= Tasks
  /\ swarm' = "over" /\ verdict' = "error"
  /\ UNCHANGED <<next, holdsPermit>> /\ UNCHANGED Dispatched /\ UNCHANGED Waited

(* spawn_worker_execution: the row and the message in one transaction, and *)
(* then the request.                                                       *)
SpawnWorkerExecution ==
  /\ \/ /\ swarm = "dispatch" /\ next <= Tasks /\ swarm' = "queue"
        /\ status' = [status EXCEPT ![next] = "Pending"]
        /\ inbox' = inbox \union {next}
        /\ UNCHANGED <<next, asking>>
     \/ /\ swarm = "queue" /\ swarm' = "dispatch" /\ next' = next + 1
        /\ asking' = asking \union {next}
        /\ UNCHANGED <<status, inbox>>
  /\ UNCHANGED <<verdict, holdsPermit, taken>> /\ UNCHANGED Waited

BeginWait ==
  /\ swarm = "dispatch" /\ next > Tasks
  /\ swarm' = "waiting"
  /\ UNCHANGED <<next, verdict, holdsPermit>> /\ UNCHANGED Dispatched /\ UNCHANGED Waited

Timeout ==
  /\ swarm \in {"waiting", "judged"} /\ ~late
  /\ late' = TRUE
  /\ UNCHANGED <<swarm, next, verdict, holdsPermit, lastRead, counted>> /\ UNCHANGED Dispatched

(* Mutant: the count goes on from poll to poll.                            *)
PollCumulative ==
  /\ swarm = "waiting"
  /\ lastRead' = status
  /\ LET ended == counted + Cardinality({i \in Task : status[i] \in Final})
     IN /\ counted' = IF ended > Tasks THEN Tasks ELSE ended
        /\ swarm' = IF ended >= Tasks \/ late THEN "judged" ELSE "waiting"
  /\ UNCHANGED <<next, late, verdict, holdsPermit>> /\ UNCHANGED Dispatched

(* Every 200 ms: all executions are read and counted anew, unless the read *)
(* fails.  The wait ends when all have ended or the time is over.          *)
Poll ==
  /\ swarm = "waiting"
  /\ \/ /\ lastRead' = status
        /\ counted' = Cardinality({i \in Task : status[i] \in Final})
     \/ UNCHANGED lastRead /\ counted' = 0
  /\ swarm' = IF counted' = Tasks \/ late THEN "judged" ELSE "waiting"
  /\ UNCHANGED <<next, late, verdict, holdsPermit>> /\ UNCHANGED Dispatched

(* The time is looked at once more for the verdict.                        *)
Report ==
  /\ swarm = "judged" /\ swarm' = "over"
  /\ LET all == Tasks > 0 /\ \A i \in Task : lastRead[i] = "Completed"
     IN verdict' = IF all THEN "all completed" ELSE IF late THEN "timeout" ELSE "some failed"
  /\ UNCHANGED <<next, holdsPermit>> /\ UNCHANGED Dispatched /\ UNCHANGED Waited

-----------------------------------------------------------------------------
(* The executions, as far as they are seen here.  A run claims the oldest  *)
(* message in the inbox of its agent at each step: also that of another    *)
(* execution of its agent, which then runs without a task of its own.      *)

ClaimNext(i) ==
  LET mine == {k \in inbox : WorkerOf(k) = WorkerOf(i)}
      oldest == {k \in mine : \A l \in mine : k <= l}
  IN /\ inbox' = inbox \ oldest
     /\ taken' = [k \in Task |-> IF k \in oldest THEN i ELSE taken[k]]

RunStarts(i) ==
  /\ i \in asking
  /\ asking' = asking \ {i} /\ status' = [status EXCEPT ![i] = "Running"]
  /\ ClaimNext(i)
  /\ UNCHANGED <<swarm, next, verdict, holdsPermit>> /\ UNCHANGED Waited

RunClaims(i) ==
  /\ status[i] = "Running" /\ \E k \in inbox : WorkerOf(k) = WorkerOf(i)
  /\ ClaimNext(i)
  /\ UNCHANGED <<swarm, next, verdict, holdsPermit, status, asking>> /\ UNCHANGED Waited

RunEnds(i) ==
  /\ status[i] = "Running"
  /\ \E s \in {"Completed", "Failed"} : status' = [status EXCEPT ![i] = s]
  /\ UNCHANGED <<swarm, next, verdict, holdsPermit, inbox, asking, taken>> /\ UNCHANGED Waited

(* kill_agent_execution writes 'Failed' whatever the execution is doing;   *)
(* the request of one that has not started stays where it is.              *)
Kill(i) ==
  /\ status[i] # "none"
  /\ status' = [status EXCEPT ![i] = "Failed"]
  /\ UNCHANGED <<swarm, next, verdict, holdsPermit, inbox, asking, taken>> /\ UNCHANGED Waited

SwarmNext ==
  \/ StartDebate \/ GetPermit \/ Speak \/ EndDebate
  \/ Announce \/ GiveUp \/ SpawnWorkerExecution \/ BeginWait \/ Timeout \/ Poll \/ Report
  \/ \E i \in Task : RunStarts(i) \/ RunClaims(i) \/ RunEnds(i) \/ Kill(i)

SwarmSpec == SwarmInit /\ [][SwarmNext]_swarmVars

-----------------------------------------------------------------------------
(* A verdict other than a timeout is given only when every execution had   *)
(* ended at one and the same poll -- whatever happens to them afterwards,  *)
(* as to one that was killed before it started -- and 'all completed' only *)
(* when all had completed.                                                 *)
VerdictIsFounded ==
  /\ verdict = "some failed" => \A i \in Task : lastRead[i] \in Final
  /\ verdict = "all completed" => \A i \in Task : lastRead[i] = "Completed"
=============================================================================
