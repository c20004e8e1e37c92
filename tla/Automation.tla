----------------------------- MODULE Automation -----------------------------
(***************************************************************************)
(* The heartbeat that fires scheduled tasks (scheduled_automation.rs,      *)
(* scheduled_task_repo.rs, automation_commands.rs).                        *)
(*                                                                         *)
(* Time is a number of ticks.  The tasks are those of one project; each    *)
(* has an agent, whose execution is one row here.  An execution that has   *)
(* ended is replaced by a new row for a trigger, which counts as the same  *)
(* execution.                                                              *)
(***************************************************************************)
EXTENDS Integers, FiniteSets

CONSTANTS
  Job,          \* scheduled tasks
  Worker,       \* agents that are their targets
  Invalid,      \* a target that is not the id of an agent, as the default is
  Interval      \* what compute_next_run adds to a time, for each task

ASSUME AutomationAssumption ==
  Interval \in [Job -> Nat \ {0}] /\ Invalid \notin Worker /\ Job # {}

VARIABLES
  time,         \* Utc::now
  job,          \* scheduled_tasks: kind of row, next_run_at and target
  beat,         \* the heartbeat: its tasks still to fire, the one it fires, where,
                \* and the now it has taken
  work,         \* agent_executions.status of the workers
  requests,        \* requests for their executions at the scheduler, of each worker
  latch,        \* workers with a latched wake: their execution runs once more
  mail,         \* inbox messages that no run has claimed, per worker
  fired,        \* history: the time of the last trigger of a task, 0 for none
  repeated,     \* history: tasks whose row was not advanced after they fired last
  hushed,       \* history: workers with messages of which a request was lost
  stops         \* history: crashes so far

autoVars == <<time, job, beat, work, requests, latch, mail, fired, repeated, hushed, stops>>

AtRest == [at |-> "rest", list |-> {}, now |-> 0, job |-> CHOOSE j \in Job : TRUE]
NoJob == [row |-> "none", next |-> 0, target |-> Invalid]

AutomationTypeOK ==
  /\ time \in Nat
  /\ job \in [Job -> [row: {"none", "active", "off"}, next: Nat, target: Worker \union {Invalid}]]
  /\ beat \in [at: {"rest", "tick", "execution", "message", "advance"},
               list: SUBSET Job, now: Nat, job: Job]
  /\ work \in [Worker -> {"none", "Pending", "Running", "Ended"}]
  /\ requests \in [Worker -> Nat] /\ latch \subseteq Worker /\ mail \in [Worker -> Nat]
  /\ fired \in [Job -> Nat]
  /\ repeated \subseteq Job /\ hushed \subseteq Worker /\ stops \in Nat

AutomationInit ==
  /\ time = 1 /\ job = [j \in Job |-> NoJob] /\ beat = AtRest
  /\ work = [w \in Worker |-> "none"] /\ latch = {}
  /\ requests = [w \in Worker |-> 0] /\ mail = [w \in Worker |-> 0]
  /\ fired = [j \in Job |-> 0]
  /\ repeated = {} /\ hushed = {} /\ stops = 0

History == <<fired, repeated, hushed, stops>>
ComputeNextRun(j, from) == from + Interval[j]

Passes ==
  /\ time' = time + 1
  /\ UNCHANGED <<job, beat, work, requests, latch, mail>> /\ UNCHANGED History

-----------------------------------------------------------------------------
(* The commands.  An identifier is used once. *)

CreateTask(j, target) ==
  /\ job[j].row = "none" /\ job[j].next = 0
  /\ job' = [job EXCEPT ![j] = [row |-> "active", next |-> ComputeNextRun(j, time),
                                target |-> target]]
  /\ UNCHANGED <<time, beat, work, requests, latch, mail>> /\ UNCHANGED History

ToggleTask(j) ==
  /\ job[j].row # "none"
  /\ job' = [job EXCEPT ![j].row = IF @ = "active" THEN "off" ELSE "active"]
  /\ UNCHANGED <<time, beat, work, requests, latch, mail>> /\ UNCHANGED History

DeleteTask(j) ==
  /\ job[j].row # "none"
  /\ job' = [job EXCEPT ![j].row = "none"]
  /\ UNCHANGED <<time, beat, work, requests, latch, mail>> /\ UNCHANGED History

-----------------------------------------------------------------------------
(* The heartbeat *)

IsDue(j, now) == job[j].row = "active" /\ job[j].next <= now

(* One read per tick.  What the commands change afterwards is not seen.    *)
ListDueTasks ==
  /\ beat.at = "rest"
  /\ \E j \in Job : IsDue(j, time)
  /\ beat' = [beat EXCEPT !.at = "tick", !.list = {j \in Job : IsDue(j, time)}, !.now = time]
  /\ UNCHANGED <<time, job, work, requests, latch, mail>> /\ UNCHANGED History

(* An invalid target advances the row and fires nothing. *)
TakeJob(j) ==
  /\ beat.at = "tick" /\ j \in beat.list
  /\ beat' = [beat EXCEPT !.list = @ \ {j}, !.job = j,
                          !.at = IF job[j].target = Invalid THEN "advance" ELSE "execution"]
  /\ UNCHANGED <<time, job, work, requests, latch, mail>> /\ UNCHANGED History

TickEnds ==
  /\ beat.at = "tick" /\ beat.list = {}
  /\ beat' = AtRest
  /\ UNCHANGED <<time, job, work, requests, latch, mail>> /\ UNCHANGED History

Open == {"Pending", "Running"}
Target == job[beat.job].target

(* An open execution of the agent, or a new one, whose insertion may fail  *)
(* and leave an id without a row.                                          *)
FindExecution ==
  /\ beat.at = "execution"
  /\ beat' = [beat EXCEPT !.at = "message"]
  /\ \/ work[Target] \in Open /\ UNCHANGED work
     \/ work[Target] \notin Open /\ \E s \in {"Pending", "none"} : work' = [work EXCEPT ![Target] = s]
  /\ UNCHANGED <<time, job, requests, latch, mail>> /\ UNCHANGED History

(* After a stop everything in memory is lost, and recovery asks for the    *)
(* executions that were 'Running'.                                         *)
Restart(letters) ==
  /\ stops' = stops + 1
  /\ requests' = [w \in Worker |-> IF work[w] = "Running" THEN 1 ELSE 0]
  /\ latch' = {}
  /\ hushed' = {w \in Worker : letters[w] > 0}

(* Mutant: the execution is queued only when its row is new. *)
CommitWithoutWake ==
  /\ beat.at = "message"
  /\ beat' = [beat EXCEPT !.at = "advance"]
  /\ mail' = [mail EXCEPT ![Target] = @ + 1]
  /\ requests' = IF work[Target] = "Pending" THEN [requests EXCEPT ![Target] = @ + 1] ELSE requests
  /\ fired' = [fired EXCEPT ![beat.job] = beat.now]
  /\ repeated' = repeated \ {beat.job}
  /\ UNCHANGED <<time, job, work, latch, hushed, stops>>

(* The message is committed, and then the execution is asked for: a stop may  *)
(* come in between.  When the commit fails nothing is asked for.           *)
CommitTrigger ==
  LET letters == [mail EXCEPT ![Target] = @ + 1] IN
  /\ beat.at = "message"
  /\ \/ /\ beat' = [beat EXCEPT !.at = "advance"]
        /\ mail' = letters /\ fired' = [fired EXCEPT ![beat.job] = beat.now]
        /\ requests' = [requests EXCEPT ![Target] = @ + 1]
        /\ repeated' = repeated \ {beat.job}
        /\ UNCHANGED <<latch, hushed, stops>>
     \/ /\ beat' = [beat EXCEPT !.at = "advance"]
        /\ UNCHANGED <<mail, requests, latch>> /\ UNCHANGED History
     \/ /\ beat' = AtRest                           \* the stop
        /\ mail' = letters /\ fired' = [fired EXCEPT ![beat.job] = beat.now]
        /\ repeated' = repeated \union {beat.job}
        /\ Restart(letters)
  /\ UNCHANGED <<time, job, work>>

(* Mutant: the next run is counted from the time the row waits for.        *)
AdvanceFromRow ==
  /\ beat.at = "advance"
  /\ beat' = [beat EXCEPT !.at = "tick"]
  /\ job' = [job EXCEPT ![beat.job].next = ComputeNextRun(beat.job, @)]
  /\ UNCHANGED <<time, work, requests, latch, mail>> /\ UNCHANGED History

(* Counted from the now of the tick, so that runs missed while the program *)
(* was not running are made up for once.  A failed write is only logged.   *)
Advance ==
  /\ beat.at = "advance"
  /\ beat' = [beat EXCEPT !.at = "tick"]
  /\ \/ /\ job' = [job EXCEPT ![beat.job].next = ComputeNextRun(beat.job, beat.now)]
        /\ UNCHANGED repeated
     \/ /\ repeated' = repeated \union {beat.job}
        /\ UNCHANGED job
  /\ UNCHANGED <<time, work, requests, latch, mail, fired, hushed, stops>>

-----------------------------------------------------------------------------
(* The rest of the program.  A run claims one message of its agent at the  *)
(* start of every step, and may end with others still in the inbox.        *)

OneRead(w) ==
  /\ mail' = [mail EXCEPT ![w] = IF @ > 0 THEN @ - 1 ELSE 0]
  /\ hushed' = IF mail[w] <= 1 THEN hushed \ {w} ELSE hushed

(* A request starts the execution; two requests in a row may start it      *)
(* twice.  Without a row, or when anything else fails, no run starts.      *)
StartWork(w) ==
  /\ requests[w] > 0 /\ requests' = [requests EXCEPT ![w] = @ - 1]
  /\ \/ /\ work[w] # "none"
        /\ work' = [work EXCEPT ![w] = "Running"]
        /\ OneRead(w)
     \/ /\ hushed' = hushed \union {w}
        /\ UNCHANGED <<work, mail>>
  /\ UNCHANGED <<time, job, beat, latch, fired, repeated, stops>>

(* A request for an execution that runs is latched: two become one.        *)
LatchWake(w) ==
  /\ requests[w] > 0 /\ work[w] = "Running"
  /\ requests' = [requests EXCEPT ![w] = @ - 1]
  /\ latch' = latch \union {w}
  /\ hushed' = IF w \in latch THEN hushed \union {w} ELSE hushed
  /\ UNCHANGED <<time, job, beat, work, mail, fired, repeated, stops>>

ReadOn(w) ==
  /\ work[w] = "Running" /\ mail[w] > 0
  /\ OneRead(w)
  /\ UNCHANGED <<time, job, beat, work, requests, latch, fired, repeated, stops>>

EndWork(w) ==
  /\ work[w] = "Running"
  /\ work' = [work EXCEPT ![w] = "Ended"]
  /\ latch' = latch \ {w}
  /\ requests' = [requests EXCEPT ![w] = IF w \in latch THEN @ + 1 ELSE @]
  /\ UNCHANGED <<time, job, beat, mail>> /\ UNCHANGED History

Stop ==
  /\ beat' = AtRest /\ Restart(mail)
  /\ repeated' = IF beat.at = "advance" THEN repeated \union {beat.job} ELSE repeated
  /\ UNCHANGED <<time, job, work, mail, fired>>

AutomationNext ==
  \/ Passes \/ ListDueTasks \/ TickEnds \/ FindExecution \/ CommitTrigger \/ Advance \/ Stop
  \/ \E j \in Job : TakeJob(j) \/ ToggleTask(j) \/ DeleteTask(j)
  \/ \E j \in Job, target \in Worker \union {Invalid} : CreateTask(j, target)
  \/ \E w \in Worker : StartWork(w) \/ LatchWake(w) \/ ReadOn(w) \/ EndWork(w)

AutomationSpec == AutomationInit /\ [][AutomationNext]_autoVars

-----------------------------------------------------------------------------
Fires(j) == beat.at = "message" /\ beat.job = j /\ mail' # mail

(* A task fires at most once in an interval, counted from the tick that    *)
(* fired it, however late the heartbeat is -- unless the program stopped   *)
(* or a write failed between the message and the row.                      *)
OncePerInterval ==
  [][\A j \in Job : Fires(j) /\ fired[j] # 0 /\ j \notin repeated
       => beat.now >= fired[j] + Interval[j]]_autoVars

(* Every trigger in an inbox has a request for a run, or a latched wake,   *)
(* of its own -- unless the program stopped between the message and the    *)
(* request, a run could not start, or two wakes were latched as one.       *)
TriggerIsServed ==
  \A w \in Worker : w \in hushed \/ mail[w] <= requests[w] + (IF w \in latch THEN 1 ELSE 0)
=============================================================================
