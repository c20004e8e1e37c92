----------------------------- MODULE Execution -----------------------------
(***************************************************************************)
(* The durable life of the executions of one agent in one conversation:    *)
(* agent_runtime.rs, agent_inbox.rs, checkpoint_manager.rs,                *)
(* recovery_manager.rs, housekeeping.rs and the commands that send         *)
(* messages, cancel and kill.                                              *)
(*                                                                         *)
(* The database survives a crash of the program; runs, requests of the     *)
(* scheduler and half-done commands do not.  Each action is one database   *)
(* transaction of the code with the local steps around it, or one access   *)
(* to shared memory.  An execution has at most one run at a time.          *)
(***************************************************************************)
EXTENDS Naturals, Sequences, FiniteSets

CONSTANTS
  Exec,        \* executions of the agent
  Msg,         \* messages to the agent, numbered in the order of their arrival
  MaxSteps,    \* a run stops after this many steps (25)
  NoExec, NoMsg

ASSUME ExecutionAssumption ==
  /\ Msg \subseteq Nat /\ IsFiniteSet(Msg) /\ NoMsg \notin Msg
  /\ MaxSteps \in Nat \ {0}
  /\ NoExec \notin Exec

VARIABLES
  (* The project database. *)
  status,      \* agent_executions.status
  generation,  \* agent_executions.generation
  cp,          \* execution_checkpoints, at most one row per execution
  inbox,       \* inbox_messages.delivery_state
  log,         \* domain_events, those that recovery can tell apart
  stale,       \* running executions whose updated_at is older than 10 minutes
  old,         \* checkpoints whose created_at is older than 24 hours
  (* Memory. *)
  phase,       \* "up", "down", or "booting" between recovery and the requeue
  recovered,   \* executions the recovery returned, not queued yet
  queue,       \* executions with a request, a waiting task or a latched wake
  run,         \* the run of each execution
  cancelled,   \* executions whose registered token is cancelled
  stalled,     \* the list the housekeeper has read and not yet written
  sending,     \* what send_message is doing with each message
  (* History. *)
  unlogged,    \* tool calls of each execution that took effect and are not in the log
  killed,      \* executions killed by the operator and not asked for since
  pruned,      \* messages whose checkpoint housekeeping has pruned
  crashes,     \* crashes of the program so far
  cuts         \* tool calls that took effect and were cancelled before they answered

dbVars == <<status, generation, cp, inbox, log, stale, old>>
rowVars == <<status, generation, stale>>
runVars == <<queue, run, cancelled>>
memVars == <<phase, recovered, queue, run, cancelled, stalled, sending>>
history == <<unlogged, killed, pruned, crashes, cuts>>
vars == <<status, generation, cp, inbox, log, stale, old, phase, recovered,
          queue, run, cancelled, stalled, sending, unlogged, killed, pruned,
          crashes, cuts>>

Status == {"none", "Pending", "Queued", "Running", "Completed", "Failed"}

(* The statuses send_message looks for.  'Pending' is what it inserts; no  *)
(* code writes the three waiting ones; 'Queued' is not among them.         *)
Open == {"Pending", "Running"}

Delivery == {"none", "QUEUED", "CLAIMED", "ACKED"}

Place == {"off", "begin", "loop", "save", "ack", "think", "ask", "act", "step",
          "final", "reply", "complete"}

Event ==
  [kind : {"MessageSent"}, of : {NoExec}, n : {0}]
  \cup [kind : {"ExecutionStarted", "PendingApproval", "ToolExecuted"}, of : Exec, n : {0}]
  \cup [kind : {"ExecutionStepCompleted"}, of : Exec, n : Nat]

NoCheckpoint == [gen |-> 0, total |-> 0, msgs |-> {}, seq |-> 0, exists |-> FALSE]

NoRun == [at |-> "off", total |-> 0, msgs |-> {}, seq |-> 0, claimed |-> NoMsg,
          tool |-> "none", last |-> FALSE, failed |-> FALSE]

-----------------------------------------------------------------------------
Init ==
  /\ status = [x \in Exec |-> "none"]
  /\ generation = [x \in Exec |-> 0]
  /\ cp = [x \in Exec |-> NoCheckpoint]
  /\ inbox = [m \in Msg |-> "none"]
  /\ log = <<>>
  /\ stale = {}
  /\ old = {}
  /\ phase = "up"
  /\ recovered = {}
  /\ queue = {}
  /\ run = [x \in Exec |-> NoRun]
  /\ cancelled = {}
  /\ stalled = {}
  /\ sending = [m \in Msg |-> [at |-> "new", to |-> NoExec]]
  /\ unlogged = [x \in Exec |-> 0]
  /\ killed = {}
  /\ pruned = {}
  /\ crashes = 0
  /\ cuts = 0

-----------------------------------------------------------------------------
(* send_message: the message, then the execution it goes to, then the      *)
(* inbox, then a request to the scheduler.                                 *)

Sends(m, from, to, x) ==
  /\ phase = "up"
  /\ sending[m].at = from
  /\ sending' = [sending EXCEPT ![m] = [at |-> to, to |-> x]]

(* MessageSent is committed and an open execution is looked up. *)
SendMessage(m) ==
  /\ \E x \in Exec \cup {NoExec} :
       /\ IF \E y \in Exec : status[y] \in Open
            THEN x \in Exec /\ status[x] \in Open
            ELSE x = NoExec
       /\ Sends(m, "new", "found", x)
  /\ log' = Append(log, [kind |-> "MessageSent", of |-> NoExec, n |-> 0])
  /\ UNCHANGED <<rowVars, cp, inbox, old, phase, recovered, runVars, stalled, history>>

(* The execution is inserted if none was found. *)
InsertExecution(m) ==
  /\ sending[m].to = NoExec
  /\ \E x \in Exec :
       /\ status[x] = "none"
       /\ Sends(m, "found", "found", x)
       /\ status' = [status EXCEPT ![x] = "Pending"]
  /\ UNCHANGED <<generation, cp, inbox, log, stale, old, phase, recovered, runVars,
                 stalled, history>>

(* The inbox row, in a transaction of its own. *)
DeliverMessage(m) ==
  /\ \A n \in Msg : n < m => sending[n].at \notin {"new", "found"}
  /\ sending[m].to # NoExec
  /\ Sends(m, "found", "delivered", sending[m].to)
  /\ inbox' = [inbox EXCEPT ![m] = "QUEUED"]
  /\ UNCHANGED <<rowVars, cp, log, old, phase, recovered, runVars, stalled, history>>

ScheduleMessage(m) ==
  /\ Sends(m, "delivered", "done", NoExec)
  /\ queue' = queue \cup {sending[m].to}
  /\ killed' = killed \ {sending[m].to}
  /\ UNCHANGED <<dbVars, phase, recovered, run, cancelled, stalled, unlogged, pruned,
                 crashes, cuts>>

-----------------------------------------------------------------------------
(* A run of an execution.                                                  *)

At(x, place) == phase = "up" /\ run[x].at = place

Goes(x, from, to) ==
  /\ At(x, from)
  /\ run' = [run EXCEPT ![x].at = to]

(* The run returns; its token goes with it. *)
Returns(x) ==
  /\ run' = [run EXCEPT ![x] = NoRun]
  /\ cancelled' = cancelled \ {x}

(* Whoever writes the row of an execution sets updated_at. *)
Touched(x) == stale' = stale \ {x}

(* The scheduler starts a run from the checkpoint, unless the generations  *)
(* of the row and of the checkpoint differ.  It does not look at status.   *)
Start(x) ==
  /\ At(x, "off")
  /\ x \in queue
  /\ queue' = queue \ {x}
  /\ run' = IF cp[x].exists /\ cp[x].gen # generation[x] THEN run
            ELSE [run EXCEPT ![x] = [NoRun EXCEPT !.at = "begin",
                                                  !.total = cp[x].total,
                                                  !.msgs = cp[x].msgs]]
  /\ UNCHANGED <<dbVars, phase, recovered, cancelled, stalled, sending, history>>

(* ExecutionStarted is committed and projected. *)
Begin(x) ==
  /\ At(x, "begin")
  /\ log' = Append(log, [kind |-> "ExecutionStarted", of |-> x, n |-> 0])
  /\ run' = [run EXCEPT ![x].at = "loop", ![x].seq = Len(log')]
  /\ status' = [status EXCEPT ![x] = "Running"]
  /\ Touched(x)
  /\ UNCHANGED <<generation, cp, inbox, old, phase, recovered, queue, cancelled,
                 stalled, sending, history>>

CancelledAtLoop(x) ==
  /\ At(x, "loop")
  /\ x \in cancelled
  /\ Returns(x)
  /\ UNCHANGED <<dbVars, phase, recovered, queue, stalled, sending, history>>

Waiting == {m \in Msg : inbox[m] = "QUEUED"}

(* claim_next: the oldest queued message of the agent becomes a step. *)
Claim(x) ==
  /\ x \notin cancelled
  /\ At(x, "loop")
  /\ \/ /\ Waiting = {}
        /\ run' = [run EXCEPT ![x].at = "save"]
        /\ UNCHANGED inbox
     \/ \E m \in Waiting :
          /\ \A n \in Waiting : m <= n
          /\ inbox' = [inbox EXCEPT ![m] = "CLAIMED"]
          /\ run' = [run EXCEPT ![x].at = "save", ![x].total = @ + 1,
                                ![x].msgs = @ \cup {m}, ![x].claimed = m]
  /\ UNCHANGED <<rowVars, cp, log, old, phase, recovered, queue, cancelled,
                 stalled, sending, history>>

(* Faulty variant: the checkpoint claims one event too many. *)
CheckpointAhead(x) ==
  [gen |-> run[x].total, total |-> run[x].total, msgs |-> run[x].msgs,
   seq |-> run[x].seq + 1, exists |-> TRUE]

Checkpoint(x) ==
  [gen |-> run[x].total, total |-> run[x].total, msgs |-> run[x].msgs,
   seq |-> run[x].seq, exists |-> TRUE]

(* Faulty variant: the generation of the row is not written. *)
SaveCheckpointOnly(x) ==
  /\ Goes(x, "save", IF run[x].claimed = NoMsg THEN "think" ELSE "ack")
  /\ cp' = [cp EXCEPT ![x] = Checkpoint(x)]
  /\ old' = old \ {x}
  /\ Touched(x)
  /\ UNCHANGED <<status, generation, inbox, log, phase, recovered, queue, cancelled,
                 stalled, sending, history>>

(* The checkpoint and the generation of the row, in one transaction. *)
Save(x) ==
  /\ Goes(x, "save", IF run[x].claimed = NoMsg THEN "think" ELSE "ack")
  /\ cp' = [cp EXCEPT ![x] = Checkpoint(x)]
  /\ generation' = [generation EXCEPT ![x] = run[x].total]
  /\ old' = old \ {x}
  /\ Touched(x)
  /\ UNCHANGED <<status, inbox, log, phase, recovered, queue, cancelled, stalled,
                 sending, history>>

Ack(x) ==
  /\ At(x, "ack")
  /\ inbox' = [inbox EXCEPT ![run[x].claimed] = "ACKED"]
  /\ run' = [run EXCEPT ![x].at = "think", ![x].claimed = NoMsg]
  /\ UNCHANGED <<rowVars, cp, log, old, phase, recovered, queue, cancelled,
                 stalled, sending, history>>

(* Faulty variant: the run can also end between a tool call and its event. *)
AbortAfterTool(x) ==
  /\ At(x, "think") \/ At(x, "step")
  /\ Returns(x)
  /\ UNCHANGED <<dbVars, phase, recovered, queue, stalled, sending, history>>

(* The model fails for good, the budget is exhausted or the token is       *)
(* cancelled: the run returns an error and the row stays as it is.         *)
Abort(x) ==
  /\ At(x, "think")
  /\ Returns(x)
  /\ UNCHANGED <<dbVars, phase, recovered, queue, stalled, sending, history>>

(* The model answers: no tool call and the loop ends, a call that the      *)
(* policy denies, or one that it allows (or that was approved before).     *)
Answer(x) ==
  /\ \/ Goes(x, "think", "act")
     \/ /\ At(x, "think")
        /\ \/ run' = [run EXCEPT ![x].at = "step", ![x].tool = "failed"]
           \/ run' = [run EXCEPT ![x].at = "step", ![x].last = TRUE]
  /\ UNCHANGED <<dbVars, phase, recovered, queue, cancelled, stalled, sending, history>>

(* The policy asks: PendingApproval is committed, status is left alone. *)
AskApproval(x) ==
  /\ Goes(x, "think", "ask")
  /\ log' = Append(log, [kind |-> "PendingApproval", of |-> x, n |-> 0])
  /\ UNCHANGED <<rowVars, cp, inbox, old, phase, recovered, queue, cancelled,
                 stalled, sending, history>>

ApprovalAnswered(x) ==
  /\ \/ Goes(x, "ask", "act")
     \/ /\ At(x, "ask")
        /\ run' = [run EXCEPT ![x].at = "step", ![x].tool = "failed"]
  /\ UNCHANGED <<dbVars, phase, recovered, queue, cancelled, stalled, sending, history>>

CancelledWhileAsking(x) ==
  /\ At(x, "ask")
  /\ x \in cancelled
  /\ Returns(x)
  /\ UNCHANGED <<dbVars, phase, recovered, queue, stalled, sending, history>>

(* The tool has its effect on the world, which no transaction covers. *)
Act(x) ==
  /\ At(x, "act")
  /\ \/ /\ run' = [run EXCEPT ![x].at = "step", ![x].tool = "done"]
        /\ unlogged' = [unlogged EXCEPT ![x] = @ + 1]
     \/ /\ run' = [run EXCEPT ![x].at = "step", ![x].tool = "failed"]
        /\ UNCHANGED unlogged
  /\ UNCHANGED <<dbVars, phase, recovered, queue, cancelled, stalled, sending,
                 killed, pruned, crashes, cuts>>

(* The token is cancelled while the tool runs: its future is dropped,      *)
(* after the effect or before it, and the run returns.                     *)
CancelledWhileActing(x) ==
  /\ At(x, "act")
  /\ x \in cancelled
  /\ Returns(x)
  /\ \/ /\ unlogged' = [unlogged EXCEPT ![x] = @ + 1]
        /\ cuts' = cuts + 1
     \/ UNCHANGED <<unlogged, cuts>>
  /\ UNCHANGED <<dbVars, phase, recovered, queue, stalled, sending, killed, pruned,
                 crashes>>

(* ToolExecuted and ExecutionStepCompleted are committed together.  The    *)
(* loop ends at an answer, at MaxSteps, or at a repeated error or action.  *)
Step(x) ==
  LET total == run[x].total + 1
      tool == IF run[x].tool = "none" THEN <<>>
              ELSE <<[kind |-> "ToolExecuted", of |-> x, n |-> 0]>>
  IN
  /\ At(x, "step")
  /\ log' = log \o tool \o <<[kind |-> "ExecutionStepCompleted", of |-> x, n |-> total]>>
  /\ \E ends \in {b \in BOOLEAN : run[x].last \/ total >= MaxSteps => b} :
       run' = [run EXCEPT ![x] = [NoRun EXCEPT !.at = IF ends THEN "final" ELSE "loop",
                                               !.total = total,
                                               !.msgs = run[x].msgs,
                                               !.seq = Len(log')]]
  /\ unlogged' = IF run[x].tool = "done" THEN [unlogged EXCEPT ![x] = @ - 1] ELSE unlogged
  /\ Touched(x)
  /\ UNCHANGED <<status, generation, cp, inbox, old, phase, recovered, queue,
                 cancelled, stalled, sending, killed, pruned, crashes, cuts>>

(* Faulty variant: the final checkpoint is not written. *)
FinalStatusOnly(x) ==
  /\ At(x, "final")
  /\ \E failed \in BOOLEAN :
       /\ run' = [run EXCEPT ![x].at = "reply", ![x].failed = failed]
       /\ status' = [status EXCEPT ![x] = IF failed THEN "Failed" ELSE "Completed"]
  /\ generation' = [generation EXCEPT ![x] = run[x].total]
  /\ Touched(x)
  /\ UNCHANGED <<cp, inbox, log, old, phase, recovered, queue, cancelled, stalled, sending,
                 history>>

(* The final checkpoint and the status of the row, in one transaction. *)
Final(x) ==
  /\ At(x, "final")
  /\ \E failed \in BOOLEAN :
       /\ run' = [run EXCEPT ![x].at = "reply", ![x].failed = failed]
       /\ status' = [status EXCEPT ![x] = IF failed THEN "Failed" ELSE "Completed"]
  /\ cp' = [cp EXCEPT ![x] = Checkpoint(x)]
  /\ generation' = [generation EXCEPT ![x] = run[x].total]
  /\ old' = old \ {x}
  /\ Touched(x)
  /\ UNCHANGED <<inbox, log, phase, recovered, queue, cancelled, stalled, sending,
                 history>>

(* The reply (MessageCreated), which recovery does not replay. *)
Reply(x) ==
  /\ Goes(x, "reply", "complete")
  /\ UNCHANGED <<dbVars, phase, recovered, queue, cancelled, stalled, sending, history>>

(* ExecutionCompleted or ExecutionFailed is committed and projected. *)
Complete(x) ==
  /\ At(x, "complete")
  /\ Returns(x)
  /\ status' = [status EXCEPT ![x] = IF run[x].failed THEN "Failed" ELSE "Completed"]
  /\ Touched(x)
  /\ UNCHANGED <<generation, cp, inbox, log, old, phase, recovered, queue, stalled,
                 sending, history>>

-----------------------------------------------------------------------------
(* Commands of the operator. *)

(* cancel_execution: only the token of a live run can be cancelled. *)
CancelExecution(x) ==
  /\ phase = "up"
  /\ run[x].at # "off"
  /\ cancelled' = cancelled \cup {x}
  /\ UNCHANGED <<dbVars, phase, recovered, queue, run, stalled, sending, history>>

(* kill_agent_execution: cancel, and write 'Failed' whatever the status is. *)
Kill(x) ==
  /\ phase = "up"
  /\ status[x] # "none"
  /\ cancelled' = IF run[x].at = "off" THEN cancelled ELSE cancelled \cup {x}
  /\ status' = [status EXCEPT ![x] = "Failed"]
  /\ Touched(x)
  /\ killed' = killed \cup {x}
  /\ UNCHANGED <<generation, cp, inbox, log, old, phase, recovered, queue, run,
                 stalled, sending, unlogged, pruned, crashes, cuts>>

-----------------------------------------------------------------------------
(* Housekeeping. *)

(* Ten minutes pass without a write to the row of an open execution: it    *)
(* has no run, or its run waits for the model, a tool or an approval.      *)
TenMinutesPass(x) ==
  /\ phase = "up"
  /\ status[x] = "Running"
  /\ run[x].at \in {"off", "begin", "think", "ask", "act"}
  /\ x \notin stale
  /\ stale' = stale \cup {x}
  /\ UNCHANGED <<status, generation, cp, inbox, log, old, memVars, history>>

ReadStalled ==
  /\ phase = "up"
  /\ stalled = {}
  /\ stalled' = {x \in stale : status[x] = "Running"}
  /\ stalled' # {}
  /\ UNCHANGED <<dbVars, phase, recovered, runVars, sending, history>>

(* Faulty variant: the executions are reported and left as they are. *)
ReportStalled ==
  /\ phase = "up"
  /\ stalled # {}
  /\ stale' = stale \ stalled
  /\ stalled' = {}
  /\ UNCHANGED <<status, generation, cp, inbox, log, old, phase, recovered, runVars,
                 sending, history>>

(* Written without another look at the rows. *)
FailStalled ==
  /\ phase = "up"
  /\ stalled # {}
  /\ status' = [x \in Exec |-> IF x \in stalled THEN "Failed" ELSE status[x]]
  /\ stale' = stale \ stalled
  /\ stalled' = {}
  /\ UNCHANGED <<generation, cp, inbox, log, old, phase, recovered, runVars, sending,
                 history>>

DayPasses ==
  /\ old' = {x \in Exec : cp[x].exists}
  /\ old' # old
  /\ stale' = {x \in Exec : status[x] = "Running"}
  /\ UNCHANGED <<status, generation, cp, inbox, log, memVars, history>>

PruneCheckpoints ==
  /\ phase = "up"
  /\ old # {}
  /\ cp' = [x \in Exec |-> IF x \in old THEN NoCheckpoint ELSE cp[x]]
  /\ old' = {}
  /\ pruned' = pruned \cup UNION {cp[x].msgs : x \in old}
  /\ UNCHANGED <<rowVars, inbox, log, memVars, unlogged, killed, crashes, cuts>>

-----------------------------------------------------------------------------
(* Crash and recovery. *)

(* Memory is gone; the database stays as it is. *)
Crash ==
  /\ phase # "down"
  /\ phase' = "down"
  /\ recovered' = {}
  /\ queue' = {}
  /\ run' = [x \in Exec |-> NoRun]
  /\ cancelled' = {}
  /\ stalled' = {}
  /\ sending' = [m \in Msg |-> IF sending[m].at = "new" THEN sending[m]
                               ELSE [at |-> "done", to |-> NoExec]]
  /\ crashes' = crashes + 1
  /\ UNCHANGED <<dbVars, unlogged, killed, pruned, cuts>>

(* Faulty variant: completed steps are not replayed. *)
ReplayedCalls(x, total, e) ==
  CASE e.kind = "MessageSent" -> total + 1
    [] e.kind \in {"ToolExecuted", "PendingApproval"} /\ e.of = x -> total + 1
    [] OTHER -> total

(* One event replayed on the number of steps of execution x: every event   *)
(* of a tool, an approval or a message counts one more, and a completed    *)
(* step at least its own number.  MemoryStored, which would count too, is  *)
(* committed nowhere in the program.                                       *)
Replayed(x, total, e) ==
  CASE e.kind = "MessageSent" -> total + 1
    [] e.kind \in {"ToolExecuted", "PendingApproval"} /\ e.of = x -> total + 1
    [] e.kind = "ExecutionStepCompleted" /\ e.of = x /\ e.n > total -> e.n
    [] OTHER -> total

(* The number of steps recovery arrives at from the checkpoint of x. *)
ReplayTotal(x) ==
  LET total[n \in 0 .. Len(log)] ==
        IF n <= cp[x].seq THEN cp[x].total ELSE Replayed(x, total[n-1], log[n])
  IN  total[Len(log)]

(* The checkpoint recovery writes; without one it writes none. *)
Replay(x) ==
  IF cp[x].exists
    THEN [cp[x] EXCEPT !.gen = ReplayTotal(x), !.total = ReplayTotal(x),
                       !.seq = Len(log)]
    ELSE cp[x]

Crashed == {x \in Exec : status[x] = "Running"}

(* Faulty variant: claimed messages stay claimed. *)
RecoverExecutionsOnly ==
  /\ phase = "down"
  /\ phase' = "booting"
  /\ recovered' = Crashed
  /\ cp' = [x \in Exec |-> IF x \in Crashed THEN Replay(x) ELSE cp[x]]
  /\ generation' = [x \in Exec |-> IF x \in Crashed THEN Replay(x).gen ELSE generation[x]]
  /\ status' = [x \in Exec |-> IF x \in Crashed THEN "Queued" ELSE status[x]]
  /\ stale' = stale \ Crashed
  /\ UNCHANGED <<inbox, log, old, runVars, stalled, sending, history>>

(* recover_crashed_executions, at the next start: one exclusive            *)
(* transaction per project, before anything else runs.                     *)
Recover ==
  /\ phase = "down"
  /\ phase' = "booting"
  /\ recovered' = Crashed
  /\ cp' = [x \in Exec |-> IF x \in Crashed THEN Replay(x) ELSE cp[x]]
  /\ generation' = [x \in Exec |-> IF x \in Crashed THEN Replay(x).gen ELSE generation[x]]
  /\ status' = [x \in Exec |-> IF x \in Crashed THEN "Queued" ELSE status[x]]
  /\ stale' = stale \ Crashed
  /\ inbox' = [m \in Msg |-> IF inbox[m] = "CLAIMED" THEN "QUEUED" ELSE inbox[m]]
  /\ UNCHANGED <<log, old, runVars, stalled, sending, history>>

(* main.rs queues what recovery returned; then the commands are open. *)
QueueRecovered ==
  /\ phase = "booting"
  /\ phase' = "up"
  /\ queue' = recovered
  /\ recovered' = {}
  /\ UNCHANGED <<dbVars, run, cancelled, stalled, sending, history>>

-----------------------------------------------------------------------------
Send(m) ==
  SendMessage(m) \/ InsertExecution(m) \/ DeliverMessage(m) \/ ScheduleMessage(m)

(* The steps a run takes without waiting for a person. *)
RunStep(x) ==
  \/ Start(x) \/ Begin(x) \/ CancelledAtLoop(x) \/ Claim(x) \/ Save(x) \/ Ack(x)
  \/ Abort(x) \/ Answer(x) \/ AskApproval(x) \/ CancelledWhileAsking(x) \/ Act(x)
  \/ CancelledWhileActing(x) \/ Step(x) \/ Final(x) \/ Reply(x) \/ Complete(x)

Housekeeping == ReadStalled \/ FailStalled \/ PruneCheckpoints

Boot == Recover \/ QueueRecovered

Next ==
  \/ \E m \in Msg : Send(m)
  \/ \E x \in Exec : \/ RunStep(x) \/ ApprovalAnswered(x)
                      \/ CancelExecution(x) \/ Kill(x) \/ TenMinutesPass(x)
  \/ Housekeeping \/ DayPasses
  \/ Crash \/ Boot

Spec == Init /\ [][Next]_vars

(* The housekeeper ticks every 60 seconds, time passes, and the program is *)
(* started again after a crash.  Nothing is assumed of the runs: a model,  *)
(* a tool or a person may never answer.                                    *)
Fairness ==
  /\ WF_vars(ReadStalled)
  /\ WF_vars(FailStalled)
  /\ WF_vars(Boot)
  /\ \A x \in Exec : WF_vars(TenMinutesPass(x))

FairSpec == Spec /\ Fairness

-----------------------------------------------------------------------------
RowTypeOK ==
  /\ status \in [Exec -> Status]
  /\ generation \in [Exec -> Nat]
  /\ stale \subseteq Exec

CheckpointTypeOK ==
  /\ cp \in [Exec -> [gen : Nat, total : Nat, msgs : SUBSET Msg, seq : Nat,
                      exists : BOOLEAN]]
  /\ old \subseteq Exec
  /\ \A x \in Exec : cp[x].seq <= Len(log)

LogTypeOK ==
  /\ inbox \in [Msg -> Delivery]
  /\ log \in Seq(Event)

RunTypeOK ==
  /\ run \in [Exec -> [at : Place, total : Nat, msgs : SUBSET Msg, seq : Nat,
                       claimed : Msg \cup {NoMsg}, tool : {"none", "done", "failed"},
                       last : BOOLEAN, failed : BOOLEAN]]
  /\ \A x \in Exec : run[x].at = "ack" => run[x].claimed \in Msg

MemoryTypeOK ==
  /\ phase \in {"up", "down", "booting"}
  /\ recovered \subseteq Exec
  /\ queue \subseteq Exec
  /\ cancelled \subseteq Exec
  /\ stalled \subseteq Exec
  /\ sending \in [Msg -> [at : {"new", "found", "delivered", "done"},
                          to : Exec \cup {NoExec}]]

HistoryTypeOK ==
  /\ unlogged \in [Exec -> Nat]
  /\ killed \subseteq Exec
  /\ pruned \subseteq Msg
  /\ crashes \in Nat
  /\ cuts \in Nat

(* Every variable has its type, and a checkpoint never points past the log.*)
TypeOK == /\ RowTypeOK /\ CheckpointTypeOK /\ LogTypeOK /\ RunTypeOK
          /\ MemoryTypeOK /\ HistoryTypeOK

(* A row and its checkpoint carry the same generation in every state a     *)
(* crash or a new run can meet, so load_checkpoint never answers           *)
(* StaleGeneration and no execution is locked out of its own history.      *)
GenerationMatches ==
  \A x \in Exec : cp[x].exists => cp[x].gen = generation[x]

Live(x) == run[x].at # "off"

Durable(m) == m \in pruned \/ \E x \in Exec : m \in cp[x].msgs

(* Inbox delivery is at-least-once: a message is queued, or claimed by a   *)
(* live run that still has it (or by one that died with the program), or   *)
(* acked, and then a checkpoint holds it until it is pruned.               *)
NoMessageLost ==
  \A m \in Msg :
    /\ inbox[m] = "CLAIMED" /\ phase # "down" =>
         \E x \in Exec : Live(x) /\ run[x].claimed = m
    /\ inbox[m] = "ACKED" => Durable(m)

(* The steps of a live run that a transaction has recorded. *)
Recorded(x) == IF run[x].at = "save" /\ run[x].claimed # NoMsg
               THEN run[x].total - 1 ELSE run[x].total

(* "Picks up where it stopped": whenever the program dies, recovery        *)
(* arrives at no fewer steps than the dead run had recorded.               *)
CrashForgetsNothing == \A x \in Exec : Live(x) => Replay(x).total >= Recorded(x)

(* What it takes: housekeeping prunes no checkpoint under a run, that is,  *)
(* no run goes on for 24 hours without a checkpoint of its own.            *)
PrunesAtRest == PruneCheckpoints => \A x \in old : ~Live(x)

(* From how many steps the next run of x goes on, if the program is not    *)
(* stopped, or dies, or is started again: a live run has recorded them, and*)
(* a dead one left them to recovery, or to its checkpoint.                 *)
Known(x) ==
  IF Live(x) THEN Recorded(x)
  ELSE IF phase = "down" /\ status[x] = "Running" THEN Replay(x).total
  ELSE cp[x].total

Keeps == INSTANCE Durability WITH
  live <- {x \in Exec : Live(x)}, open <- Crashed, stopped <- cancelled,
  known <- [x \in Exec |-> Known(x)], up <- (phase # "down")

(* Checkpoints, log and recovery together are a memory: whatever crashes   *)
(* and whenever, an execution goes on from no fewer steps than it had      *)
(* taken.  A run that was cancelled may leave without the last of them.    *)
ImplementsDurability == Keeps!Spec

(* A tool call that took effect is logged in the next step of its run.     *)
(* Only a crash, or a cancellation while the tool runs, comes between the  *)
(* two: at most one call for each of them has left no trace.               *)
EffectsAreLogged ==
  \A x \in Exec :
    unlogged[x] <= crashes + cuts + (IF run[x].tool = "done" THEN 1 ELSE 0)

(* An execution that says it is running and has no run does not stay so:   *)
(* it is started, recovered, or failed by the housekeeper.                 *)
OrphansResolved ==
  \A x \in Exec :
    status[x] = "Running" /\ ~Live(x) ~> status[x] # "Running" \/ Live(x)

(* After a crash the execution picks up where it stopped: a recovered      *)
(* execution waits to be started.  A second crash before it is started     *)
(* leaves it 'Queued', which recovery does not look for.                   *)
RecoveredIsScheduled ==
  phase = "up" => \A x \in Exec : status[x] = "Queued" => x \in queue \/ Live(x)

(* Housekeeping detects "orphaned/stalled executions": one that is waiting *)
(* for its operator is neither.                                            *)
WaitingIsNotFailed ==
  [][FailStalled => \A x \in stalled : run[x].at # "ask"]_vars

(* kill_agent_execution halts an execution immediately: unless somebody    *)
(* asks for it again, it does not start after it was killed.               *)
KilledStaysStopped ==
  [][\A x \in killed : ~Live(x) => ~Live(x)']_vars
=============================================================================
