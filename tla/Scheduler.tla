----------------------------- MODULE Scheduler -----------------------------
(***************************************************************************)
(* The execution scheduler of trans4mers-engine (scheduler.rs).            *)
(*                                                                         *)
(* One orchestrator loop receives queue and wake requests from two bounded *)
(* channels.  For a request whose execution is not registered as running   *)
(* it spawns a task.  A task claims a slot of its project, then a global   *)
(* permit, registers itself, boots, runs the agent loop, and cleans up.    *)
(* Every step below is one critical section of the code: what happens      *)
(* between two accesses to a shared map, or between two await points.      *)
(*                                                                         *)
(* The agent loop itself is abstracted to what the scheduler sees of it:   *)
(* it gives its permit back while it waits for an approval, takes it again *)
(* afterwards, and ends.  Debates of the swarm orchestrator take permits   *)
(* from the same semaphore.                                                *)
(***************************************************************************)
EXTENDS Naturals, Sequences, FiniteSets

CONSTANTS
  Exec,         \* agent executions
  Project,      \* projects
  ProjectOf,    \* the project of each execution
  Task,         \* handles of spawned tasks: at most |Task| are alive at once
  Debate,       \* swarm debates, which take a permit and no slot
  MaxAgents,    \* permits of the global semaphore (8 in main.rs)
  Cap,          \* slots of a project (project_caps is never written: 4)
  QueueCap,     \* capacity of the two request channels (256)
  NoExec, NoTask

ASSUME SchedulerAssumption ==
  /\ ProjectOf \in [Exec -> Project]
  /\ IsFiniteSet(Task) /\ IsFiniteSet(Debate) /\ Task \cap Debate = {}
  /\ MaxAgents \in Nat \ {0}
  /\ Cap \in Nat \ {0}
  /\ QueueCap \in Nat \ {0}
  /\ NoExec \notin Exec
  /\ NoTask \notin Task

VARIABLES
  newQueue,     \* requests to schedule an execution
  wakeQueue,    \* requests to wake an execution
  loop,         \* what the orchestrator loop is doing, and for which execution
  pc,           \* where each task is
  exec,         \* the execution each task was spawned for
  permits,      \* free permits of the global semaphore
  active,       \* project_active: claimed slots of each project
  running,      \* running_executions: executions registered as running
  tokens,       \* cancellation_tokens: the task whose token is registered
  cancelled,    \* tasks whose token has been cancelled
  latch,        \* wake_latch: executions with a latched wake
  shutdown,     \* the shutdown signal has been sent
  subscribed,   \* tasks that subscribed before the shutdown signal was sent
  debate        \* where each debate is

requestVars == <<newQueue, wakeQueue, loop>>
taskVars == <<pc, exec>>
stopVars == <<shutdown, subscribed>>
vars == <<newQueue, wakeQueue, loop, pc, exec, permits, active, running, tokens,
          cancelled, latch, shutdown, subscribed, debate>>

(* The places of a task, in the order of try_schedule. *)
Place == {"free", "start", "claim", "park", "wait", "permit", "register",
          "boot", "run", "ask", "reacquire", "unregister", "untoken", "unslot",
          "drain", "requeue", "bailSlot", "bailPermit"}

(* Between claiming a project slot and giving it back. *)
SlotPlace == {"permit", "register", "boot", "run", "ask", "reacquire",
              "unregister", "untoken", "unslot", "bailSlot"}

(* Owning one permit of the global semaphore. *)
PermitPlace == {"register", "boot", "run", "bailSlot", "bailPermit"}

(* From the registration of the token to the end of the agent loop. *)
RunPlace == {"run", "ask", "reacquire"}

SlotHolders(p) ==
  {t \in Task : pc[t] \in SlotPlace /\ ProjectOf[exec[t]] = p}

PermitHolders ==
  {t \in Task : pc[t] \in PermitPlace} \cup {d \in Debate : debate[d] = "hold"}

LoopPlace == {"select", "latch", "requeue", "down"}

-----------------------------------------------------------------------------
Init ==
  /\ newQueue = <<>>
  /\ wakeQueue = <<>>
  /\ loop = [at |-> "select", for |-> NoExec]
  /\ pc = [t \in Task |-> "free"]
  /\ exec = [t \in Task |-> NoExec]
  /\ permits = MaxAgents
  /\ active = [p \in Project |-> 0]
  /\ running = {}
  /\ tokens = [e \in Exec |-> NoTask]
  /\ cancelled = {}
  /\ latch = {}
  /\ shutdown = FALSE
  /\ subscribed = {}
  /\ debate = [d \in Debate |-> "idle"]

-----------------------------------------------------------------------------
(* Requests.  try_send drops the request when the channel is full or its   *)
(* receiver is gone, and the caller is not told.                           *)

(* Faulty variant: an unbounded channel. *)
SentUnbounded(queue, e) ==
  IF loop.at # "down" THEN Append(queue, e) ELSE queue

Sent(queue, e) ==
  IF Len(queue) < QueueCap /\ loop.at # "down" THEN Append(queue, e) ELSE queue

Queue(e) ==
  /\ newQueue' = Sent(newQueue, e)
  /\ UNCHANGED <<wakeQueue, loop, taskVars, permits, active, running, tokens,
                 cancelled, latch, stopVars, debate>>

Wake(e) ==
  /\ wakeQueue' = Sent(wakeQueue, e)
  /\ UNCHANGED <<newQueue, loop, taskVars, permits, active, running, tokens,
                 cancelled, latch, stopVars, debate>>

(* cancel_execution: only a registered token can be cancelled. *)
CancelExecution(e) ==
  /\ tokens[e] # NoTask
  /\ cancelled' = cancelled \cup {tokens[e]}
  /\ UNCHANGED <<requestVars, taskVars, permits, active, running, tokens,
                 latch, stopVars, debate>>

TriggerShutdown ==
  /\ ~shutdown
  /\ shutdown' = TRUE
  /\ UNCHANGED <<requestVars, taskVars, permits, active, running, tokens,
                 cancelled, latch, subscribed, debate>>

-----------------------------------------------------------------------------
(* The orchestrator loop.                                                  *)

(* A request for a registered execution is to be latched: the map insert   *)
(* is a later access.  Otherwise a task is spawned (on a free handle: the  *)
(* code has no bound on them).                                             *)
LoopNew ==
  /\ loop.at = "select"
  /\ newQueue # <<>>
  /\ newQueue' = Tail(newQueue)
  /\ LET e == Head(newQueue) IN
       \/ /\ e \in running
          /\ loop' = [at |-> "latch", for |-> e]
          /\ UNCHANGED taskVars
       \/ /\ e \notin running
          /\ \E t \in Task :
               /\ pc[t] = "free"
               /\ pc' = [pc EXCEPT ![t] = "start"]
               /\ exec' = [exec EXCEPT ![t] = e]
          /\ UNCHANGED loop
  /\ UNCHANGED <<wakeQueue, permits, active, running, tokens, cancelled, latch,
                 stopVars, debate>>

(* A wake of an execution that is not registered becomes a queue request,  *)
(* unless no open project database has the execution.                      *)
LoopWake ==
  /\ loop.at = "select"
  /\ wakeQueue # <<>>
  /\ wakeQueue' = Tail(wakeQueue)
  /\ LET e == Head(wakeQueue) IN
       \/ e \in running /\ loop' = [at |-> "latch", for |-> e]
       \/ e \notin running /\ loop' = [at |-> "requeue", for |-> e]
       \/ e \notin running /\ UNCHANGED loop
  /\ UNCHANGED <<newQueue, taskVars, permits, active, running, tokens,
                 cancelled, latch, stopVars, debate>>

LoopLatch ==
  /\ loop.at = "latch"
  /\ latch' = latch \cup {loop.for}
  /\ loop' = [at |-> "select", for |-> NoExec]
  /\ UNCHANGED <<newQueue, wakeQueue, taskVars, permits, active, running,
                 tokens, cancelled, stopVars, debate>>

LoopRequeue ==
  /\ loop.at = "requeue"
  /\ newQueue' = Sent(newQueue, loop.for)
  /\ loop' = [at |-> "select", for |-> NoExec]
  /\ UNCHANGED <<wakeQueue, taskVars, permits, active, running, tokens,
                 cancelled, latch, stopVars, debate>>

(* The loop cancels the tokens it finds and ends; its receivers go with it. *)
LoopShutdown ==
  /\ shutdown
  /\ loop.at = "select"
  /\ cancelled' = cancelled \cup {tokens[e] : e \in {x \in Exec : tokens[x] # NoTask}}
  /\ loop' = [at |-> "down", for |-> NoExec]
  /\ newQueue' = <<>>
  /\ wakeQueue' = <<>>
  /\ UNCHANGED <<taskVars, permits, active, running, tokens, latch, stopVars,
                 debate>>

-----------------------------------------------------------------------------
(* A spawned task.                                                         *)

Goto(t, from, to) ==
  /\ pc[t] = from
  /\ pc' = [pc EXCEPT ![t] = to]

(* The task ends: its handle is free again. *)
End(t) ==
  /\ pc' = [pc EXCEPT ![t] = "free"]
  /\ exec' = [exec EXCEPT ![t] = NoExec]
  /\ subscribed' = subscribed \ {t}
  /\ cancelled' = cancelled \ {t}

Subscribe(t) ==
  /\ Goto(t, "start", "claim")
  /\ subscribed' = IF shutdown THEN subscribed ELSE subscribed \cup {t}
  /\ UNCHANGED <<requestVars, exec, permits, active, running, tokens, cancelled,
                 latch, shutdown, debate>>

(* Faulty variant: the cap is compared with <=. *)
ClaimSlotOffByOne(t) ==
  LET p == ProjectOf[exec[t]] IN
    /\ Goto(t, "claim", "permit")
    /\ active[p] <= Cap
    /\ active' = [active EXCEPT ![p] = @ + 1]
    /\ UNCHANGED <<requestVars, exec, permits, running, tokens, cancelled, latch,
                   stopVars, debate>>

(* The cap is compared and the counter increased under the entry's lock. *)
ClaimSlot(t) ==
  LET p == ProjectOf[exec[t]] IN
    /\ \/ /\ Goto(t, "claim", "permit")
          /\ active[p] < Cap
          /\ active' = [active EXCEPT ![p] = @ + 1]
       \/ /\ Goto(t, "claim", "park")
          /\ active[p] >= Cap
          /\ UNCHANGED active
    /\ UNCHANGED <<requestVars, exec, permits, running, tokens, cancelled, latch,
                   stopVars, debate>>

(* notified() is created after the entry's lock is dropped; only a         *)
(* notification sent later reaches it.                                     *)
Park(t) ==
  /\ Goto(t, "park", "wait")
  /\ UNCHANGED <<requestVars, exec, permits, active, running, tokens, cancelled,
                 latch, stopVars, debate>>

GiveUpWaiting(t) ==
  /\ pc[t] = "wait"
  /\ shutdown /\ t \in subscribed
  /\ End(t)
  /\ UNCHANGED <<requestVars, permits, active, running, tokens, latch, shutdown,
                 debate>>

AcquirePermit(t) ==
  /\ Goto(t, "permit", "register")
  /\ permits > 0
  /\ permits' = permits - 1
  /\ UNCHANGED <<requestVars, exec, active, running, tokens, cancelled, latch,
                 stopVars, debate>>

Register(t) ==
  /\ Goto(t, "register", "boot")
  /\ running' = running \cup {exec[t]}
  /\ UNCHANGED <<requestVars, exec, permits, active, tokens, cancelled, latch,
                 stopVars, debate>>

(* Database, execution row, checkpoint, instance, definition and provider  *)
(* were found: the token is registered and the agent loop starts.          *)
Boot(t) ==
  /\ Goto(t, "boot", "run")
  /\ tokens' = [tokens EXCEPT ![exec[t]] = t]
  /\ UNCHANGED <<requestVars, exec, permits, active, running, cancelled, latch,
                 stopVars, debate>>

(* Faulty variant: an early return that forgets the project slot. *)
BootFailsKeepingSlot(t) ==
  /\ Goto(t, "boot", "bailPermit")
  /\ running' = running \ {exec[t]}
  /\ UNCHANGED <<requestVars, exec, permits, active, tokens, cancelled, latch,
                 stopVars, debate>>

(* One of them was not: the task unregisters, gives back its slot and ends *)
(* (the permit goes with it), without a look at the latch.                 *)
BootFails(t) ==
  /\ Goto(t, "boot", "bailSlot")
  /\ running' = running \ {exec[t]}
  /\ UNCHANGED <<requestVars, exec, permits, active, tokens, cancelled, latch,
                 stopVars, debate>>

(* release_project_slot: decrement, and notify every waiter of any project *)
(* that is already waiting.                                                *)
ReleaseProjectSlot(t, from, to) ==
  LET p == ProjectOf[exec[t]] IN
    /\ pc[t] = from
    /\ active' = [active EXCEPT ![p] = IF @ > 0 THEN @ - 1 ELSE 0]
    /\ pc' = [u \in Task |-> IF u = t THEN to
                             ELSE IF pc[u] = "wait" THEN "claim" ELSE pc[u]]

BailSlot(t) ==
  /\ ReleaseProjectSlot(t, "bailSlot", "bailPermit")
  /\ UNCHANGED <<requestVars, exec, permits, running, tokens, cancelled, latch,
                 stopVars, debate>>

BailPermit(t) ==
  /\ pc[t] = "bailPermit"
  /\ permits' = permits + 1
  /\ End(t)
  /\ UNCHANGED <<requestVars, active, running, tokens, latch, shutdown, debate>>

(* Faulty variant: the permit is kept while the approval is awaited. *)
AskKeepingPermit(t) ==
  /\ Goto(t, "run", "ask")
  /\ UNCHANGED <<requestVars, exec, permits, active, running, tokens, cancelled,
                 latch, stopVars, debate>>

(* The agent loop asks for an approval: it gives back its permit, and      *)
(* keeps its slot.                                                         *)
AskApproval(t) ==
  /\ Goto(t, "run", "ask")
  /\ permits' = permits + 1
  /\ UNCHANGED <<requestVars, exec, active, running, tokens, cancelled, latch,
                 stopVars, debate>>

ApprovalAnswered(t) ==
  /\ Goto(t, "ask", "reacquire")
  /\ UNCHANGED <<requestVars, exec, permits, active, running, tokens, cancelled,
                 latch, stopVars, debate>>

Reacquire(t) ==
  /\ Goto(t, "reacquire", "run")
  /\ permits > 0
  /\ permits' = permits - 1
  /\ UNCHANGED <<requestVars, exec, active, running, tokens, cancelled, latch,
                 stopVars, debate>>

(* The agent loop returns while it owns its permit, which is dropped. *)
FinishRun(t) ==
  /\ Goto(t, "run", "unregister")
  /\ permits' = permits + 1
  /\ UNCHANGED <<requestVars, exec, active, running, tokens, cancelled, latch,
                 stopVars, debate>>

(* Faulty variants: a cancelled wait gives back a permit it does not own,  *)
(* and a wait that does not listen to its token.                           *)
CancelledWhileAskingReleases(t) ==
  /\ t \in cancelled
  /\ Goto(t, "ask", "unregister")
  /\ permits' = permits + 1
  /\ UNCHANGED <<requestVars, exec, active, running, tokens, cancelled, latch,
                 stopVars, debate>>

DeafWhileAsking(t) == FALSE

(* The agent loop is cancelled while it waits for an approval. *)
CancelledWhileAsking(t) ==
  /\ t \in cancelled
  /\ Goto(t, "ask", "unregister")
  /\ UNCHANGED <<requestVars, exec, permits, active, running, tokens, cancelled,
                 latch, stopVars, debate>>

Unregister(t) ==
  /\ Goto(t, "unregister", "untoken")
  /\ running' = running \ {exec[t]}
  /\ UNCHANGED <<requestVars, exec, permits, active, tokens, cancelled, latch,
                 stopVars, debate>>

(* Removes whatever token is registered for the execution. *)
RemoveToken(t) ==
  /\ Goto(t, "untoken", "unslot")
  /\ tokens' = [tokens EXCEPT ![exec[t]] = NoTask]
  /\ UNCHANGED <<requestVars, exec, permits, active, running, cancelled, latch,
                 stopVars, debate>>

ReleaseSlot(t) ==
  /\ ReleaseProjectSlot(t, "unslot", "drain")
  /\ UNCHANGED <<requestVars, exec, permits, running, tokens, cancelled, latch,
                 stopVars, debate>>

DrainLatch(t) ==
  /\ pc[t] = "drain"
  /\ \/ /\ exec[t] \in latch
        /\ latch' = latch \ {exec[t]}
        /\ pc' = [pc EXCEPT ![t] = "requeue"]
        /\ UNCHANGED <<exec, subscribed, cancelled>>
     \/ /\ exec[t] \notin latch
        /\ End(t)
        /\ UNCHANGED latch
  /\ UNCHANGED <<requestVars, permits, active, running, tokens, shutdown, debate>>

Requeue(t) ==
  /\ pc[t] = "requeue"
  /\ newQueue' = Sent(newQueue, exec[t])
  /\ End(t)
  /\ UNCHANGED <<wakeQueue, loop, permits, active, running, tokens, latch,
                 shutdown, debate>>

-----------------------------------------------------------------------------
(* A debate (swarm_orchestrator.rs) owns one permit while it talks.        *)

DebateStarts(d) ==
  /\ debate[d] = "idle"
  /\ debate' = [debate EXCEPT ![d] = "wait"]
  /\ UNCHANGED <<requestVars, taskVars, permits, active, running, tokens,
                 cancelled, latch, stopVars>>

DebateAcquires(d) ==
  /\ debate[d] = "wait"
  /\ permits > 0
  /\ permits' = permits - 1
  /\ debate' = [debate EXCEPT ![d] = "hold"]
  /\ UNCHANGED <<requestVars, taskVars, active, running, tokens, cancelled,
                 latch, stopVars>>

DebateEnds(d) ==
  /\ debate[d] = "hold"
  /\ permits' = permits + 1
  /\ debate' = [debate EXCEPT ![d] = "idle"]
  /\ UNCHANGED <<requestVars, taskVars, active, running, tokens, cancelled,
                 latch, stopVars>>

-----------------------------------------------------------------------------
Environment ==
  \/ \E e \in Exec : Queue(e) \/ Wake(e) \/ CancelExecution(e)
  \/ TriggerShutdown

Loop == LoopNew \/ LoopWake \/ LoopLatch \/ LoopRequeue \/ LoopShutdown

(* The steps a task takes without waiting for anyone. *)
TaskStep(t) ==
  \/ Subscribe(t) \/ ClaimSlot(t) \/ Park(t) \/ GiveUpWaiting(t)
  \/ Register(t) \/ Boot(t) \/ BootFails(t) \/ BailSlot(t) \/ BailPermit(t)
  \/ AskApproval(t) \/ FinishRun(t) \/ CancelledWhileAsking(t)
  \/ Unregister(t) \/ RemoveToken(t) \/ ReleaseSlot(t) \/ DrainLatch(t)
  \/ Requeue(t)

System ==
  \/ Loop
  \/ \E t \in Task : TaskStep(t) \/ AcquirePermit(t) \/ ApprovalAnswered(t)
                     \/ Reacquire(t)
  \/ \E d \in Debate : DebateStarts(d) \/ DebateAcquires(d) \/ DebateEnds(d)

Next == Environment \/ System

Spec == Init /\ [][Next]_vars

(* The runtime keeps polling ready tasks, and tokio's semaphore hands out  *)
(* permits in the order they were asked for, so nobody waits forever while *)
(* permits keep coming back.  A run has at most 25 steps, so it cannot ask *)
(* for approvals forever.  No fairness for the people who queue, cancel or *)
(* answer approvals.                                                       *)
Fairness ==
  /\ WF_vars(Loop)
  /\ \A t \in Task : /\ WF_vars(TaskStep(t))
                     /\ SF_vars(FinishRun(t))
                     /\ SF_vars(AcquirePermit(t) \/ Reacquire(t))
  /\ \A d \in Debate : WF_vars(DebateEnds(d)) /\ SF_vars(DebateAcquires(d))

FairSpec == Spec /\ Fairness

-----------------------------------------------------------------------------
RequestTypeOK ==
  /\ newQueue \in Seq(Exec) /\ Len(newQueue) <= QueueCap
  /\ wakeQueue \in Seq(Exec) /\ Len(wakeQueue) <= QueueCap
  /\ loop \in [at : LoopPlace, for : Exec \cup {NoExec}]
  /\ loop.at \in {"latch", "requeue"} => loop.for \in Exec

TaskTypeOK ==
  /\ pc \in [Task -> Place]
  /\ exec \in [Task -> Exec \cup {NoExec}]
  /\ \A t \in Task : pc[t] # "free" => exec[t] \in Exec

ResourceTypeOK ==
  /\ permits \in Nat
  /\ active \in [Project -> Nat]
  /\ running \subseteq Exec
  /\ tokens \in [Exec -> Task \cup {NoTask}]
  /\ latch \subseteq Exec
  /\ debate \in [Debate -> {"idle", "wait", "hold"}]

StopTypeOK ==
  /\ cancelled \subseteq Task
  /\ subscribed \subseteq Task
  /\ shutdown \in BOOLEAN

(* Every variable has its type, a task that is not free has an execution,  *)
(* and the channels never hold more than their capacity.                   *)
TypeOK == RequestTypeOK /\ TaskTypeOK /\ ResourceTypeOK /\ StopTypeOK

(* No permit leaks and none is given back twice: the free permits and the  *)
(* owners (tasks on every path through boot failure, approval, cancellation*)
(* and the end of a run, and debates) always add up to the 8 of main.rs.   *)
PermitConservation == permits + Cardinality(PermitHolders) = MaxAgents

(* The counter of a project is exactly the number of its tasks between     *)
(* claim and release, so the saturating decrement never hides a double     *)
(* release, and the cap holds although it is checked by racing tasks.      *)
SlotAccounting ==
  \A p \in Project : /\ active[p] = Cardinality(SlotHolders(p))
                     /\ active[p] <= Cap

(* The scheduler implements the admission it documents: a slot first, then *)
(* a permit, never more than Cap and MaxAgents owners (scheduler.rs:159).  *)
Admits == INSTANCE Admission WITH slots <- [p \in Project |-> SlotHolders(p)],
                                  owners <- PermitHolders

ImplementsAdmission == Admits!Spec

(* A task that waits for a permit gets one, although other runs may wait   *)
(* for approvals nobody ever answers: they gave their permits back.        *)
PermitProgress ==
  \A t \in Task : pc[t] \in {"permit", "reacquire"} ~> pc[t] = "boot" \/ pc[t] = "run"

(* A cancelled run ends and gives back what it owns, even when it waits    *)
(* for an approval that never comes or for a permit.                       *)
CancelledEnds == \A t \in Task : t \in cancelled ~> pc[t] = "free"

(* "The scheduler does not spawn a duplicate concurrent task for the same  *)
(* execution" (AGENT_AND_SWARM_ARCHITECTURE.md): the loop compares against *)
(* running_executions, which a spawned task fills in much later.           *)
NoDuplicateRun ==
  \A t, u \in Task :
    /\ pc[t] \in RunPlace /\ pc[u] \in RunPlace
    /\ exec[t] = exec[u]
    => t = u

(* A latched wake has a task that will drain it: "never lost"              *)
(* (ARCHITECTURE_DECISIONS.md).  The loop inserts it after the comparison, *)
(* when the task may already have looked at the latch.                     *)
LatchIsDrained ==
  \A e \in latch : \E t \in Task :
    exec[t] = e /\ pc[t] \notin {"requeue", "bailSlot", "bailPermit"}

(* A task waits for a slot only while its project has none: releases       *)
(* notify the waiting tasks (scheduler.rs:60).  A release between the      *)
(* comparison and notified() is not heard.                                 *)
WaitsOnlyAtCap ==
  \A t \in Task : pc[t] = "wait" => active[ProjectOf[exec[t]]] = Cap
=============================================================================
