-------------------------- MODULE SchedulerProofs --------------------------
(***************************************************************************)
(* Proofs about Scheduler for every number of tasks, debates, executions,  *)
(* projects, permits and slots.                                            *)
(*                                                                         *)
(* PermitConservation and SlotAccounting relate counters to cardinalities  *)
(* of sets of tasks.  Each is inductive once TypeOK is known: every action *)
(* either leaves the set and the counter alone, or adds or removes one     *)
(* element and moves the counter by one.                                   *)
(***************************************************************************)
EXTENDS Scheduler, FiniteSetTheorems, TLAPS

-----------------------------------------------------------------------------
(* Type correctness, one part of TypeOK at a time. *)

LEMMA TypeInit == Init => TypeOK
<1> SUFFICES ASSUME Init PROVE TypeOK
  OBVIOUS
<1>0. MaxAgents \in Nat /\ QueueCap \in Nat
  BY SchedulerAssumption
<1>1. RequestTypeOK
  BY <1>0 DEF Init, RequestTypeOK, LoopPlace
<1>2. TaskTypeOK
  BY DEF Init, TaskTypeOK, Place
<1>3. ResourceTypeOK
  BY <1>0 DEF Init, ResourceTypeOK
<1>4. StopTypeOK
  BY DEF Init, StopTypeOK
<1>5. QED
  BY <1>1, <1>2, <1>3, <1>4 DEF TypeOK

(* A request channel stays within its capacity and its type. *)
LEMMA SentType ==
  ASSUME NEW queue \in Seq(Exec), Len(queue) <= QueueCap, NEW e \in Exec
  PROVE  Sent(queue, e) \in Seq(Exec) /\ Len(Sent(queue, e)) <= QueueCap
<1>1. QueueCap \in Nat
  BY SchedulerAssumption
<1>2. Append(queue, e) \in Seq(Exec) /\ Len(Append(queue, e)) = Len(queue) + 1
  OBVIOUS
<1>3. QED
  BY <1>1, <1>2 DEF Sent

LEMMA ReceivedType ==
  ASSUME NEW queue \in Seq(Exec), Len(queue) <= QueueCap, queue # <<>>
  PROVE  /\ Head(queue) \in Exec
         /\ Tail(queue) \in Seq(Exec)
         /\ Len(Tail(queue)) <= QueueCap
<1>1. QueueCap \in Nat
  BY SchedulerAssumption
<1>2. QED
  BY <1>1

(* What a task or a debate does to the requests: a task may send one. *)
LEMMA TaskRequests ==
  ASSUME TypeOK, NEW t \in Task,
         TaskStep(t) \/ AcquirePermit(t) \/ ApprovalAnswered(t) \/ Reacquire(t)
  PROVE  \/ UNCHANGED requestVars
         \/ /\ exec[t] \in Exec
            /\ newQueue' = Sent(newQueue, exec[t])
            /\ UNCHANGED <<wakeQueue, loop>>
<1>1. CASE Requeue(t)
  BY <1>1 DEF Requeue, TypeOK, TaskTypeOK
<1>2. CASE ~Requeue(t)
  BY <1>2 DEF TaskStep, Subscribe, ClaimSlot, Park, GiveUpWaiting, Register,
     Boot, BootFails, BailSlot, BailPermit, AskApproval, FinishRun,
     CancelledWhileAsking, Unregister, RemoveToken, ReleaseSlot, DrainLatch,
     AcquirePermit, ApprovalAnswered, Reacquire
<1>3. QED
  BY <1>1, <1>2

LEMMA RequestTypeStep == TypeOK /\ [Next]_vars => RequestTypeOK'
<1> SUFFICES ASSUME TypeOK, [Next]_vars PROVE RequestTypeOK'
  OBVIOUS
<1> USE DEF TypeOK, RequestTypeOK, requestVars
<1>1. CASE \E e \in Exec : Queue(e)
  <2>1. PICK e \in Exec : Queue(e)
    BY <1>1
  <2>2. newQueue' = Sent(newQueue, e) /\ UNCHANGED <<wakeQueue, loop>>
    BY <2>1 DEF Queue
  <2>3. QED
    BY <2>2, SentType
<1>2. CASE \E e \in Exec : Wake(e)
  <2>1. PICK e \in Exec : Wake(e)
    BY <1>2
  <2>2. wakeQueue' = Sent(wakeQueue, e) /\ UNCHANGED <<newQueue, loop>>
    BY <2>1 DEF Wake
  <2>3. QED
    BY <2>2, SentType
<1>3. CASE (\E e \in Exec : CancelExecution(e)) \/ TriggerShutdown
  <2>1. UNCHANGED requestVars
    BY <1>3 DEF CancelExecution, TriggerShutdown
  <2>2. QED
    BY <2>1
<1>4. CASE LoopNew
  <2>1. newQueue # <<>> /\ newQueue' = Tail(newQueue) /\ UNCHANGED wakeQueue
    BY <1>4 DEF LoopNew
  <2>2. loop' = loop \/ loop' = [at |-> "latch", for |-> Head(newQueue)]
    BY <1>4 DEF LoopNew
  <2>3. QED
    BY <2>1, <2>2, ReceivedType DEF LoopPlace
<1>5. CASE LoopWake
  <2>1. wakeQueue # <<>> /\ wakeQueue' = Tail(wakeQueue) /\ UNCHANGED newQueue
    BY <1>5 DEF LoopWake
  <2>2. \/ loop' = loop
        \/ loop' = [at |-> "latch", for |-> Head(wakeQueue)]
        \/ loop' = [at |-> "requeue", for |-> Head(wakeQueue)]
    BY <1>5 DEF LoopWake
  <2>3. QED
    BY <2>1, <2>2, ReceivedType DEF LoopPlace
<1>6. CASE LoopLatch
  BY <1>6 DEF LoopLatch, LoopPlace
<1>7. CASE LoopRequeue
  <2>1. loop.for \in Exec
    BY <1>7 DEF LoopRequeue
  <2>2. newQueue' = Sent(newQueue, loop.for) /\ UNCHANGED wakeQueue
        /\ loop' = [at |-> "select", for |-> NoExec]
    BY <1>7 DEF LoopRequeue
  <2>3. QED
    BY <2>1, <2>2, SentType DEF LoopPlace
<1>8. CASE LoopShutdown
  <2>1. newQueue' = <<>> /\ wakeQueue' = <<>> /\ loop' = [at |-> "down", for |-> NoExec]
    BY <1>8 DEF LoopShutdown
  <2>2. QED
    BY <2>1, SchedulerAssumption DEF LoopPlace
<1>9. CASE \E t \in Task : TaskStep(t) \/ AcquirePermit(t) \/ ApprovalAnswered(t)
                            \/ Reacquire(t)
  <2>1. PICK t \in Task : \/ UNCHANGED requestVars
                          \/ /\ exec[t] \in Exec
                             /\ newQueue' = Sent(newQueue, exec[t])
                             /\ UNCHANGED <<wakeQueue, loop>>
    BY <1>9, TaskRequests
  <2>2. QED
    BY <2>1, SentType
<1>10. CASE \E d \in Debate : DebateStarts(d) \/ DebateAcquires(d) \/ DebateEnds(d)
  <2>1. UNCHANGED requestVars
    BY <1>10 DEF DebateStarts, DebateAcquires, DebateEnds
  <2>2. QED
    BY <2>1
<1>11. CASE UNCHANGED vars
  BY <1>11 DEF vars
<1>12. QED
  BY <1>1, <1>2, <1>3, <1>4, <1>5, <1>6, <1>7, <1>8, <1>9, <1>10, <1>11
     DEF Next, Environment, System, Loop

(* Moves of one task keep the type of pc and exec. *)
LEMMA GotoType ==
  ASSUME TaskTypeOK, NEW t \in Task, NEW from \in Place \ {"free"}, NEW to \in Place,
         Goto(t, from, to), UNCHANGED exec
  PROVE  TaskTypeOK'
  BY DEF TaskTypeOK, Goto

LEMMA EndType ==
  ASSUME TaskTypeOK, NEW t \in Task, End(t)
  PROVE  TaskTypeOK'
  BY DEF TaskTypeOK, End, Place

LEMMA ReleaseType ==
  ASSUME TaskTypeOK, NEW t \in Task, NEW from \in Place \ {"free"}, NEW to \in Place,
         ReleaseProjectSlot(t, from, to), UNCHANGED exec
  PROVE  TaskTypeOK'
  BY DEF TaskTypeOK, ReleaseProjectSlot, Place

LEMMA TaskTypeStep == TypeOK /\ [Next]_vars => TaskTypeOK'
<1> SUFFICES ASSUME TypeOK, [Next]_vars PROVE TaskTypeOK'
  OBVIOUS
<1>0. TaskTypeOK
  BY DEF TypeOK
<1>1. CASE UNCHANGED taskVars
  BY <1>0, <1>1 DEF TaskTypeOK, taskVars
<1>2. CASE LoopNew
  <2>1. PICK e \in Exec : e = Head(newQueue)
    BY <1>2, ReceivedType DEF LoopNew, TypeOK, RequestTypeOK
  <2>2. \/ UNCHANGED taskVars
        \/ \E t \in Task : /\ pc' = [pc EXCEPT ![t] = "start"]
                           /\ exec' = [exec EXCEPT ![t] = e]
    BY <1>2, <2>1 DEF LoopNew
  <2>3. QED
    BY <1>0, <1>1, <2>2 DEF TaskTypeOK, Place
<1>3. ASSUME NEW t \in Task,
             TaskStep(t) \/ AcquirePermit(t) \/ ApprovalAnswered(t) \/ Reacquire(t)
      PROVE  TaskTypeOK'
  <2>1. CASE \E from \in Place \ {"free"}, to \in Place : Goto(t, from, to) /\ UNCHANGED exec
    BY <1>0, <2>1, GotoType
  <2>2. CASE End(t)
    BY <1>0, <2>2, EndType
  <2>3. CASE \E from \in Place \ {"free"}, to \in Place :
               ReleaseProjectSlot(t, from, to) /\ UNCHANGED exec
    BY <1>0, <2>3, ReleaseType
  <2>4. CASE Subscribe(t) \/ ClaimSlot(t) \/ Park(t)
    BY <2>1, <2>4 DEF Subscribe, ClaimSlot, Park, Place
  <2>5. CASE Register(t) \/ Boot(t) \/ BootFails(t)
    BY <2>1, <2>5 DEF Register, Boot, BootFails, Place
  <2>6. CASE AskApproval(t) \/ FinishRun(t) \/ CancelledWhileAsking(t)
    BY <2>1, <2>6 DEF AskApproval, FinishRun, CancelledWhileAsking, Place
  <2>7. CASE Unregister(t) \/ RemoveToken(t)
    BY <2>1, <2>7 DEF Unregister, RemoveToken, Place
  <2>8. CASE AcquirePermit(t) \/ ApprovalAnswered(t) \/ Reacquire(t)
    BY <2>1, <2>8 DEF AcquirePermit, ApprovalAnswered, Reacquire, Place
  <2>9. CASE GiveUpWaiting(t) \/ BailPermit(t) \/ Requeue(t)
    BY <2>2, <2>9 DEF GiveUpWaiting, BailPermit, Requeue
  <2>10. CASE BailSlot(t) \/ ReleaseSlot(t)
    BY <2>3, <2>10 DEF BailSlot, ReleaseSlot, Place
  <2>11. CASE DrainLatch(t)
    <3>1. CASE End(t)
      BY <2>2, <3>1
    <3>2. CASE Goto(t, "drain", "requeue") /\ UNCHANGED exec
      BY <2>1, <3>2 DEF Place
    <3>3. QED
      BY <2>11, <3>1, <3>2 DEF DrainLatch, Goto
  <2>12. QED
    BY <1>3, <2>4, <2>5, <2>6, <2>7, <2>8, <2>9, <2>10, <2>11 DEF TaskStep
<1>4. CASE Environment
  BY <1>1, <1>4 DEF Environment, Queue, Wake, CancelExecution, TriggerShutdown
<1>5. CASE LoopWake \/ LoopLatch \/ LoopRequeue \/ LoopShutdown
  BY <1>1, <1>5 DEF LoopWake, LoopLatch, LoopRequeue, LoopShutdown
<1>6. CASE \E d \in Debate : DebateStarts(d) \/ DebateAcquires(d) \/ DebateEnds(d)
  BY <1>1, <1>6 DEF DebateStarts, DebateAcquires, DebateEnds
<1>7. CASE UNCHANGED vars
  BY <1>1, <1>7 DEF vars, taskVars
<1>8. QED
  BY <1>2, <1>3, <1>4, <1>5, <1>6, <1>7 DEF Next, System, Loop

LEMMA ResourceTypeStep == TypeOK /\ [Next]_vars => ResourceTypeOK'
<1> SUFFICES ASSUME TypeOK, [Next]_vars PROVE ResourceTypeOK'
  OBVIOUS
<1> USE DEF TypeOK, ResourceTypeOK
<1>1. CASE UNCHANGED <<permits, active, running, tokens, latch, debate>>
  BY <1>1
<1>2. CASE Environment
  BY <1>1, <1>2 DEF Environment, Queue, Wake, CancelExecution, TriggerShutdown
<1>3. CASE LoopNew \/ LoopWake \/ LoopRequeue \/ LoopShutdown
  BY <1>1, <1>3 DEF LoopNew, LoopWake, LoopRequeue, LoopShutdown
<1>4. CASE LoopLatch
  BY <1>4 DEF LoopLatch, RequestTypeOK
<1>5. ASSUME NEW t \in Task,
             TaskStep(t) \/ AcquirePermit(t) \/ ApprovalAnswered(t) \/ Reacquire(t)
      PROVE  ResourceTypeOK'
  <2>1. pc[t] # "free" => exec[t] \in Exec /\ ProjectOf[exec[t]] \in Project
    BY SchedulerAssumption DEF TaskTypeOK
  <2>2. CASE Subscribe(t) \/ Park(t) \/ GiveUpWaiting(t) \/ CancelledWhileAsking(t)
             \/ Requeue(t) \/ ApprovalAnswered(t)
    BY <1>1, <2>2 DEF Subscribe, Park, GiveUpWaiting, CancelledWhileAsking,
       Requeue, ApprovalAnswered
  <2>3. CASE ClaimSlot(t)
    BY <2>1, <2>3 DEF ClaimSlot, Goto
  <2>4. CASE Register(t) \/ BootFails(t) \/ Unregister(t)
    BY <2>1, <2>4 DEF Register, BootFails, Unregister, Goto
  <2>5. CASE Boot(t) \/ RemoveToken(t)
    BY <2>1, <2>5 DEF Boot, RemoveToken, Goto
  <2>6. CASE BailSlot(t) \/ ReleaseSlot(t)
    BY <2>1, <2>6 DEF BailSlot, ReleaseSlot, ReleaseProjectSlot
  <2>7. CASE BailPermit(t) \/ AskApproval(t) \/ FinishRun(t)
    BY <2>7 DEF BailPermit, AskApproval, FinishRun
  <2>8. CASE AcquirePermit(t) \/ Reacquire(t)
    BY <2>8 DEF AcquirePermit, Reacquire
  <2>9. CASE DrainLatch(t)
    BY <2>9 DEF DrainLatch
  <2>10. QED
    BY <1>5, <2>2, <2>3, <2>4, <2>5, <2>6, <2>7, <2>8, <2>9 DEF TaskStep
<1>6. ASSUME NEW d \in Debate, DebateStarts(d) \/ DebateAcquires(d) \/ DebateEnds(d)
      PROVE  ResourceTypeOK'
  BY <1>6 DEF DebateStarts, DebateAcquires, DebateEnds
<1>7. CASE UNCHANGED vars
  BY <1>1, <1>7 DEF vars
<1>8. QED
  BY <1>2, <1>3, <1>4, <1>5, <1>6, <1>7 DEF Next, System, Loop

LEMMA StopTypeStep == TypeOK /\ [Next]_vars => StopTypeOK'
<1> SUFFICES ASSUME TypeOK, [Next]_vars PROVE StopTypeOK'
  OBVIOUS
<1> USE DEF TypeOK, StopTypeOK, stopVars
<1>1. CASE UNCHANGED <<cancelled, stopVars>>
  BY <1>1
<1>2. ASSUME NEW e \in Exec, Queue(e) \/ Wake(e) \/ CancelExecution(e)
      PROVE  StopTypeOK'
  BY <1>2 DEF Queue, Wake, CancelExecution, ResourceTypeOK
<1>3. CASE TriggerShutdown
  BY <1>3 DEF TriggerShutdown
<1>4. CASE LoopNew \/ LoopWake \/ LoopLatch \/ LoopRequeue
  BY <1>1, <1>4 DEF LoopNew, LoopWake, LoopLatch, LoopRequeue
<1>5. CASE LoopShutdown
  BY <1>5 DEF LoopShutdown, ResourceTypeOK
<1>6. ASSUME NEW t \in Task,
             TaskStep(t) \/ AcquirePermit(t) \/ ApprovalAnswered(t) \/ Reacquire(t)
      PROVE  StopTypeOK'
  <2>1. CASE Subscribe(t)
    BY <2>1 DEF Subscribe
  <2>2. CASE GiveUpWaiting(t) \/ BailPermit(t) \/ Requeue(t)
    BY <2>2 DEF GiveUpWaiting, BailPermit, Requeue, End
  <2>3. CASE DrainLatch(t)
    BY <2>3 DEF DrainLatch, End
  <2>4. CASE ~(Subscribe(t) \/ GiveUpWaiting(t) \/ BailPermit(t) \/ Requeue(t)
               \/ DrainLatch(t))
    BY <1>1, <1>6, <2>4 DEF TaskStep, ClaimSlot, Park, Register, Boot, BootFails,
       BailSlot, AskApproval, FinishRun, CancelledWhileAsking, Unregister,
       RemoveToken, ReleaseSlot, AcquirePermit, ApprovalAnswered, Reacquire
  <2>5. QED
    BY <2>1, <2>2, <2>3, <2>4
<1>7. CASE \E d \in Debate : DebateStarts(d) \/ DebateAcquires(d) \/ DebateEnds(d)
  BY <1>1, <1>7 DEF DebateStarts, DebateAcquires, DebateEnds
<1>8. CASE UNCHANGED vars
  BY <1>1, <1>8 DEF vars
<1>9. QED
  BY <1>2, <1>3, <1>4, <1>5, <1>6, <1>7, <1>8 DEF Next, Environment, System, Loop

LEMMA TypeStep == TypeOK /\ [Next]_vars => TypeOK'
  BY RequestTypeStep, TaskTypeStep, ResourceTypeStep, StopTypeStep DEF TypeOK

(* Every reachable state is well typed; in particular the request channels *)
(* never exceed their capacity and no counter goes below zero.             *)
THEOREM TypeCorrect == Spec => []TypeOK
<1>1. QED
  BY TypeInit, TypeStep, PTL DEF Spec

-----------------------------------------------------------------------------
(* The permits.  One lemma for each thing a step can do to them. *)

LEMMA PermitHoldersFinite == TypeOK => IsFiniteSet(PermitHolders)
<1>1. IsFiniteSet(Task \cup Debate)
  BY SchedulerAssumption, FS_Union
<1>2. PermitHolders \subseteq Task \cup Debate
  BY DEF PermitHolders
<1>3. QED
  BY <1>1, <1>2, FS_Subset

LEMMA PermitsKept ==
  ASSUME PermitConservation, PermitHolders' = PermitHolders, permits' = permits
  PROVE  PermitConservation'
  BY DEF PermitConservation

LEMMA PermitTaken ==
  ASSUME TypeOK, PermitConservation, NEW x, x \notin PermitHolders,
         PermitHolders' = PermitHolders \cup {x}, permits > 0, permits' = permits - 1
  PROVE  PermitConservation'
<1>1. Cardinality(PermitHolders') = Cardinality(PermitHolders) + 1
  BY PermitHoldersFinite, FS_AddElement
<1>2. Cardinality(PermitHolders) \in Nat /\ permits \in Nat
  BY PermitHoldersFinite, FS_CardinalityType DEF TypeOK, ResourceTypeOK
<1>3. QED
  BY <1>1, <1>2 DEF PermitConservation

LEMMA PermitGivenBack ==
  ASSUME TypeOK, PermitConservation, NEW x, x \in PermitHolders,
         PermitHolders' = PermitHolders \ {x}, permits' = permits + 1
  PROVE  PermitConservation'
<1>1. Cardinality(PermitHolders') = Cardinality(PermitHolders) - 1
  BY PermitHoldersFinite, FS_RemoveElement
<1>2. Cardinality(PermitHolders) \in Nat /\ permits \in Nat
  BY PermitHoldersFinite, FS_CardinalityType DEF TypeOK, ResourceTypeOK
<1>3. QED
  BY <1>1, <1>2 DEF PermitConservation

(* What a move of one task does to the set of owners. *)
LEMMA MoveKeepsPermits ==
  ASSUME TypeOK, NEW t \in Task, NEW to, pc' = [pc EXCEPT ![t] = to],
         UNCHANGED <<permits, debate>>, pc[t] \in PermitPlace <=> to \in PermitPlace,
         PermitConservation
  PROVE  PermitConservation'
<1>1. PermitHolders' = PermitHolders
  BY DEF PermitHolders, TypeOK, TaskTypeOK
<1>2. QED
  BY <1>1, PermitsKept

LEMMA MoveTakesPermit ==
  ASSUME TypeOK, NEW t \in Task, NEW to, pc' = [pc EXCEPT ![t] = to],
         permits > 0, permits' = permits - 1, UNCHANGED debate,
         pc[t] \notin PermitPlace, to \in PermitPlace, PermitConservation
  PROVE  PermitConservation'
<1>1. t \notin PermitHolders
  BY SchedulerAssumption DEF PermitHolders
<1>2. PermitHolders' = PermitHolders \cup {t}
  BY DEF PermitHolders, TypeOK, TaskTypeOK
<1>3. QED
  BY <1>1, <1>2, PermitTaken

LEMMA MoveGivesPermit ==
  ASSUME TypeOK, NEW t \in Task, NEW to, pc' = [pc EXCEPT ![t] = to],
         permits' = permits + 1, UNCHANGED debate,
         pc[t] \in PermitPlace, to \notin PermitPlace, PermitConservation
  PROVE  PermitConservation'
<1>1. t \in PermitHolders
  BY DEF PermitHolders
<1>2. PermitHolders' = PermitHolders \ {t}
  BY SchedulerAssumption DEF PermitHolders, TypeOK, TaskTypeOK
<1>3. QED
  BY <1>1, <1>2, PermitGivenBack

(* A release moves the waiting tasks too, which own no permit. *)
LEMMA ReleaseKeepsPermits ==
  ASSUME TypeOK, NEW t \in Task, NEW from, NEW to, ReleaseProjectSlot(t, from, to),
         UNCHANGED <<permits, debate>>, from \in PermitPlace <=> to \in PermitPlace,
         PermitConservation
  PROVE  PermitConservation'
<1>1. \A u \in Task : pc'[u] \in PermitPlace <=> pc[u] \in PermitPlace
  BY DEF ReleaseProjectSlot, PermitPlace, TypeOK, TaskTypeOK
<1>2. PermitHolders' = PermitHolders
  BY <1>1 DEF PermitHolders
<1>3. QED
  BY <1>2, PermitsKept

LEMMA PermitInit == Init => PermitConservation
<1> SUFFICES ASSUME Init PROVE PermitConservation
  OBVIOUS
<1>1. PermitHolders = {}
  BY DEF Init, PermitHolders, PermitPlace
<1>2. QED
  BY <1>1, FS_EmptySet, SchedulerAssumption DEF Init, PermitConservation

LEMMA PermitTaskStep ==
  ASSUME TypeOK, PermitConservation, NEW t \in Task,
         TaskStep(t) \/ AcquirePermit(t) \/ ApprovalAnswered(t) \/ Reacquire(t)
  PROVE  PermitConservation'
<1> USE DEF PermitPlace
<1>1. CASE Subscribe(t) \/ ClaimSlot(t) \/ Park(t)
  BY <1>1, MoveKeepsPermits DEF Subscribe, ClaimSlot, Park, Goto
<1>2. CASE GiveUpWaiting(t) \/ Requeue(t)
  BY <1>2, MoveKeepsPermits DEF GiveUpWaiting, Requeue, End
<1>3. CASE Register(t) \/ Boot(t) \/ BootFails(t)
  BY <1>3, MoveKeepsPermits DEF Register, Boot, BootFails, Goto
<1>4. CASE CancelledWhileAsking(t) \/ ApprovalAnswered(t) \/ Unregister(t)
           \/ RemoveToken(t)
  BY <1>4, MoveKeepsPermits DEF CancelledWhileAsking, ApprovalAnswered, Unregister,
     RemoveToken, Goto
<1>5. CASE DrainLatch(t)
  BY <1>5, MoveKeepsPermits DEF DrainLatch, End
<1>6. CASE BailSlot(t) \/ ReleaseSlot(t)
  BY <1>6, ReleaseKeepsPermits DEF BailSlot, ReleaseSlot
<1>7. CASE AcquirePermit(t) \/ Reacquire(t)
  BY <1>7, MoveTakesPermit DEF AcquirePermit, Reacquire, Goto
<1>8. CASE BailPermit(t)
  BY <1>8, MoveGivesPermit DEF BailPermit, End
<1>9. CASE AskApproval(t) \/ FinishRun(t)
  BY <1>9, MoveGivesPermit DEF AskApproval, FinishRun, Goto
<1>10. QED
  BY <1>1, <1>2, <1>3, <1>4, <1>5, <1>6, <1>7, <1>8, <1>9 DEF TaskStep

LEMMA PermitDebateStep ==
  ASSUME TypeOK, PermitConservation, NEW d \in Debate,
         DebateStarts(d) \/ DebateAcquires(d) \/ DebateEnds(d)
  PROVE  PermitConservation'
<1> USE DEF TypeOK, ResourceTypeOK, taskVars
<1>1. CASE DebateStarts(d)
  <2>1. PermitHolders' = PermitHolders
    BY <1>1 DEF DebateStarts, PermitHolders
  <2>2. QED
    BY <1>1, <2>1, PermitsKept DEF DebateStarts
<1>2. CASE DebateAcquires(d)
  <2>1. d \notin PermitHolders
    BY <1>2, SchedulerAssumption DEF DebateAcquires, PermitHolders
  <2>2. PermitHolders' = PermitHolders \cup {d}
    BY <1>2 DEF DebateAcquires, PermitHolders
  <2>3. QED
    BY <1>2, <2>1, <2>2, PermitTaken DEF DebateAcquires
<1>3. CASE DebateEnds(d)
  <2>1. d \in PermitHolders
    BY <1>3 DEF DebateEnds, PermitHolders
  <2>2. PermitHolders' = PermitHolders \ {d}
    BY <1>3, SchedulerAssumption DEF DebateEnds, PermitHolders
  <2>3. QED
    BY <1>3, <2>1, <2>2, PermitGivenBack DEF DebateEnds
<1>4. QED
  BY <1>1, <1>2, <1>3

LEMMA PermitStep == TypeOK /\ PermitConservation /\ [Next]_vars => PermitConservation'
<1> SUFFICES ASSUME TypeOK, PermitConservation, [Next]_vars PROVE PermitConservation'
  OBVIOUS
<1>1. CASE UNCHANGED <<pc, permits, debate>>
  <2>1. PermitHolders' = PermitHolders
    BY <1>1 DEF PermitHolders
  <2>2. QED
    BY <1>1, <2>1, PermitsKept
<1>2. CASE Environment
  BY <1>1, <1>2 DEF Environment, Queue, Wake, CancelExecution, TriggerShutdown, taskVars
<1>3. CASE LoopNew
  <2>1. CASE \E t \in Task : pc[t] = "free" /\ pc' = [pc EXCEPT ![t] = "start"]
    BY <1>3, <2>1, MoveKeepsPermits DEF LoopNew, PermitPlace
  <2>2. QED
    BY <1>1, <1>3, <2>1 DEF LoopNew, taskVars
<1>4. CASE LoopWake \/ LoopLatch \/ LoopRequeue \/ LoopShutdown
  BY <1>1, <1>4 DEF LoopWake, LoopLatch, LoopRequeue, LoopShutdown, taskVars
<1>5. CASE \E t \in Task : TaskStep(t) \/ AcquirePermit(t) \/ ApprovalAnswered(t)
                            \/ Reacquire(t)
  BY <1>5, PermitTaskStep
<1>6. CASE \E d \in Debate : DebateStarts(d) \/ DebateAcquires(d) \/ DebateEnds(d)
  BY <1>6, PermitDebateStep
<1>7. CASE UNCHANGED vars
  BY <1>1, <1>7 DEF vars
<1>8. QED
  BY <1>2, <1>3, <1>4, <1>5, <1>6, <1>7 DEF Next, System, Loop

(* For any number of tasks and debates, on every path through a run, no    *)
(* permit of the global semaphore leaks and none is given back twice.      *)
THEOREM PermitsConserved == Spec => []PermitConservation
<1>1. QED
  BY TypeInit, TypeStep, PermitInit, PermitStep, PTL DEF Spec

-----------------------------------------------------------------------------
(* The slots of the projects. *)

LEMMA SlotHoldersFinite == \A p : IsFiniteSet(SlotHolders(p))
<1> SUFFICES ASSUME NEW p PROVE IsFiniteSet(SlotHolders(p))
  OBVIOUS
<1>1. SlotHolders(p) \subseteq Task
  BY DEF SlotHolders
<1>2. QED
  BY <1>1, SchedulerAssumption, FS_Subset

LEMMA SlotsKept ==
  ASSUME SlotAccounting, \A p \in Project : SlotHolders(p)' = SlotHolders(p),
         active' = active
  PROVE  SlotAccounting'
  BY DEF SlotAccounting

(* A move that neither enters nor leaves the slots, by a task that keeps   *)
(* its execution as long as it owns a slot.                                *)
LEMMA MoveKeepsSlots ==
  ASSUME TypeOK, SlotAccounting, NEW t \in Task, NEW to, NEW e,
         pc' = [pc EXCEPT ![t] = to], exec' = [exec EXCEPT ![t] = e],
         pc[t] \in SlotPlace <=> to \in SlotPlace,
         pc[t] \in SlotPlace => e = exec[t], UNCHANGED active
  PROVE  SlotAccounting'
<1>1. \A p \in Project : SlotHolders(p)' = SlotHolders(p)
  BY DEF SlotHolders, TypeOK, TaskTypeOK
<1>2. QED
  BY <1>1, SlotsKept

LEMMA GotoKeepsSlots ==
  ASSUME TypeOK, SlotAccounting, NEW t \in Task, NEW to,
         pc' = [pc EXCEPT ![t] = to], UNCHANGED <<exec, active>>,
         pc[t] \in SlotPlace <=> to \in SlotPlace
  PROVE  SlotAccounting'
<1>1. \A p \in Project : SlotHolders(p)' = SlotHolders(p)
  BY DEF SlotHolders, TypeOK, TaskTypeOK
<1>2. QED
  BY <1>1, SlotsKept

LEMMA ClaimTakesSlot ==
  ASSUME TypeOK, SlotAccounting, NEW t \in Task, ClaimSlot(t)
  PROVE  SlotAccounting'
<1>1. UNCHANGED exec
  BY DEF ClaimSlot
<1>2. CASE Goto(t, "claim", "park") /\ UNCHANGED active
  BY <1>1, <1>2, GotoKeepsSlots DEF Goto, SlotPlace
<1>3. CASE /\ Goto(t, "claim", "permit")
           /\ active[ProjectOf[exec[t]]] < Cap
           /\ active' = [active EXCEPT ![ProjectOf[exec[t]]] = @ + 1]
  <2>1. PICK q \in Project : q = ProjectOf[exec[t]]
    BY <1>3, SchedulerAssumption DEF Goto, TypeOK, TaskTypeOK
  <2>2. t \notin SlotHolders(q) /\ SlotHolders(q)' = SlotHolders(q) \cup {t}
    BY <1>1, <1>3, <2>1 DEF Goto, SlotHolders, SlotPlace, TypeOK, TaskTypeOK
  <2>3. \A p \in Project \ {q} : SlotHolders(p)' = SlotHolders(p)
    BY <1>1, <1>3, <2>1 DEF Goto, SlotHolders, TypeOK, TaskTypeOK
  <2>4. Cardinality(SlotHolders(q)') = Cardinality(SlotHolders(q)) + 1
    BY <2>2, SlotHoldersFinite, FS_AddElement
  <2>5. active \in [Project -> Nat] /\ Cap \in Nat
    BY SchedulerAssumption DEF TypeOK, ResourceTypeOK
  <2>6. active'[q] = Cardinality(SlotHolders(q)') /\ active'[q] <= Cap
    BY <1>3, <2>1, <2>4, <2>5 DEF SlotAccounting
  <2>7. ASSUME NEW p \in Project \ {q}
        PROVE  active'[p] = Cardinality(SlotHolders(p)') /\ active'[p] <= Cap
    BY <1>3, <2>1, <2>3, <2>5 DEF SlotAccounting
  <2>8. QED
    BY <2>6, <2>7 DEF SlotAccounting
<1>4. QED
  BY <1>2, <1>3 DEF ClaimSlot

(* The decrement of a release is exact: the task that releases is one of   *)
(* the holders, so the counter is not zero.  The waiting tasks it moves    *)
(* own no slot.                                                            *)
LEMMA ReleaseGivesSlot ==
  ASSUME TypeOK, SlotAccounting, NEW t \in Task, NEW from \in SlotPlace, NEW to,
         ReleaseProjectSlot(t, from, to), UNCHANGED exec,
         from \in Place \ {"free"}, to \notin SlotPlace
  PROVE  SlotAccounting'
<1> DEFINE q == ProjectOf[exec[t]]
<1>1. q \in Project
  BY SchedulerAssumption DEF ReleaseProjectSlot, TypeOK, TaskTypeOK
<1>2. t \in SlotHolders(q)
  BY DEF SlotHolders, ReleaseProjectSlot
<1>3. /\ ~(to \in SlotPlace)
      /\ \A u \in Task \ {t} : pc'[u] \in SlotPlace <=> pc[u] \in SlotPlace
      /\ pc'[t] = to
  BY DEF ReleaseProjectSlot, SlotPlace, TypeOK, TaskTypeOK
<1>4. SlotHolders(q)' = SlotHolders(q) \ {t}
  BY <1>3 DEF SlotHolders
<1>5. \A p \in Project \ {q} : SlotHolders(p)' = SlotHolders(p)
  BY <1>3 DEF SlotHolders
<1>6. Cardinality(SlotHolders(q)') = Cardinality(SlotHolders(q)) - 1
  BY <1>2, <1>4, SlotHoldersFinite, FS_RemoveElement
<1>7. Cardinality(SlotHolders(q)') \in Nat
  BY <1>4, SlotHoldersFinite, FS_RemoveElement, FS_CardinalityType
<1>8. active \in [Project -> Nat] /\ Cap \in Nat /\ active[q] = Cardinality(SlotHolders(q))
  BY <1>1, SchedulerAssumption DEF TypeOK, ResourceTypeOK, SlotAccounting
<1>9. active[q] > 0
  BY <1>1, <1>6, <1>7, <1>8
<1>10. active' = [active EXCEPT ![q] = active[q] - 1]
  BY <1>1, <1>8, <1>9 DEF ReleaseProjectSlot
<1>11. active'[q] = Cardinality(SlotHolders(q)') /\ active'[q] <= Cap
  BY <1>1, <1>6, <1>8, <1>9, <1>10 DEF SlotAccounting
<1>12. ASSUME NEW p \in Project \ {q}
       PROVE  active'[p] = Cardinality(SlotHolders(p)') /\ active'[p] <= Cap
  BY <1>5, <1>8, <1>10 DEF SlotAccounting
<1>13. QED
  BY <1>11, <1>12 DEF SlotAccounting

LEMMA SlotInit == Init => SlotAccounting
<1> SUFFICES ASSUME Init PROVE SlotAccounting
  OBVIOUS
<1>1. \A p \in Project : SlotHolders(p) = {}
  BY DEF Init, SlotHolders, SlotPlace
<1>2. \A p \in Project : Cardinality(SlotHolders(p)) = 0
  BY <1>1, FS_EmptySet
<1>3. \A p \in Project : active[p] = 0
  BY DEF Init
<1>4. QED
  BY <1>2, <1>3, SchedulerAssumption DEF SlotAccounting

LEMMA SlotTaskStep ==
  ASSUME TypeOK, SlotAccounting, NEW t \in Task,
         TaskStep(t) \/ AcquirePermit(t) \/ ApprovalAnswered(t) \/ Reacquire(t)
  PROVE  SlotAccounting'
<1> USE DEF SlotPlace
<1>1. CASE Subscribe(t) \/ Park(t)
  BY <1>1, GotoKeepsSlots DEF Subscribe, Park, Goto
<1>2. CASE GiveUpWaiting(t) \/ Requeue(t) \/ BailPermit(t)
  BY <1>2, MoveKeepsSlots DEF GiveUpWaiting, Requeue, BailPermit, End
<1>3. CASE Register(t) \/ Boot(t) \/ BootFails(t)
  BY <1>3, GotoKeepsSlots DEF Register, Boot, BootFails, Goto
<1>4. CASE CancelledWhileAsking(t) \/ ApprovalAnswered(t) \/ Unregister(t)
           \/ RemoveToken(t)
  BY <1>4, GotoKeepsSlots DEF CancelledWhileAsking, ApprovalAnswered, Unregister,
     RemoveToken, Goto
<1>5. CASE AcquirePermit(t) \/ Reacquire(t) \/ AskApproval(t) \/ FinishRun(t)
  BY <1>5, GotoKeepsSlots DEF AcquirePermit, Reacquire, AskApproval, FinishRun, Goto
<1>6. CASE DrainLatch(t)
  <2>1. CASE End(t)
    BY <1>6, <2>1, MoveKeepsSlots DEF DrainLatch, End
  <2>2. CASE pc' = [pc EXCEPT ![t] = "requeue"] /\ exec' = exec
    BY <1>6, <2>2, GotoKeepsSlots DEF DrainLatch
  <2>3. QED
    BY <1>6, <2>1, <2>2 DEF DrainLatch
<1>7. CASE ClaimSlot(t)
  BY <1>7, ClaimTakesSlot
<1>8. CASE BailSlot(t) \/ ReleaseSlot(t)
  BY <1>8, ReleaseGivesSlot DEF BailSlot, ReleaseSlot, Place
<1>9. QED
  BY <1>1, <1>2, <1>3, <1>4, <1>5, <1>6, <1>7, <1>8 DEF TaskStep

LEMMA SlotStep == TypeOK /\ SlotAccounting /\ [Next]_vars => SlotAccounting'
<1> SUFFICES ASSUME TypeOK, SlotAccounting, [Next]_vars PROVE SlotAccounting'
  OBVIOUS
<1>1. CASE UNCHANGED <<pc, exec, active>>
  <2>1. \A p \in Project : SlotHolders(p)' = SlotHolders(p)
    BY <1>1 DEF SlotHolders
  <2>2. QED
    BY <1>1, <2>1, SlotsKept
<1>2. CASE Environment
  BY <1>1, <1>2 DEF Environment, Queue, Wake, CancelExecution, TriggerShutdown, taskVars
<1>3. CASE LoopNew
  <2>1. CASE \E t \in Task : /\ pc[t] = "free"
                             /\ pc' = [pc EXCEPT ![t] = "start"]
                             /\ exec' = [exec EXCEPT ![t] = Head(newQueue)]
    <3>1. PICK t \in Task : /\ pc[t] = "free"
                            /\ pc' = [pc EXCEPT ![t] = "start"]
                            /\ exec' = [exec EXCEPT ![t] = Head(newQueue)]
      BY <2>1
    <3>2. pc[t] \notin SlotPlace /\ "start" \notin SlotPlace
      BY <3>1 DEF SlotPlace
    <3>3. UNCHANGED active
      BY <1>3 DEF LoopNew
    <3>4. QED
      BY <3>1, <3>2, <3>3, MoveKeepsSlots
  <2>2. QED
    BY <1>1, <1>3, <2>1 DEF LoopNew, taskVars
<1>4. CASE LoopWake \/ LoopLatch \/ LoopRequeue \/ LoopShutdown
  BY <1>1, <1>4 DEF LoopWake, LoopLatch, LoopRequeue, LoopShutdown, taskVars
<1>5. CASE \E t \in Task : TaskStep(t) \/ AcquirePermit(t) \/ ApprovalAnswered(t)
                            \/ Reacquire(t)
  BY <1>5, SlotTaskStep
<1>6. CASE \E d \in Debate : DebateStarts(d) \/ DebateAcquires(d) \/ DebateEnds(d)
  BY <1>1, <1>6 DEF DebateStarts, DebateAcquires, DebateEnds, taskVars
<1>7. CASE UNCHANGED vars
  BY <1>1, <1>7 DEF vars
<1>8. QED
  BY <1>2, <1>3, <1>4, <1>5, <1>6, <1>7 DEF Next, System, Loop

(* For any number of tasks racing for the slots of any number of projects, *)
(* the counters are exact and no project exceeds its cap.                  *)
THEOREM SlotsAccounted == Spec => []SlotAccounting
<1>1. QED
  BY TypeInit, TypeStep, SlotInit, SlotStep, PTL DEF Spec

-----------------------------------------------------------------------------
(* The scheduler implements Admission: each step is one of its actions on  *)
(* the sets of holders, or leaves both sets alone.                         *)

(* The owners are kept by a move that does not cross PermitPlace, ...      *)
LEMMA OwnersKept ==
  ASSUME TypeOK, NEW t \in Task, NEW to, pc' = [pc EXCEPT ![t] = to],
         UNCHANGED debate, pc[t] \in PermitPlace <=> to \in PermitPlace
  PROVE  PermitHolders' = PermitHolders
  BY DEF PermitHolders, TypeOK, TaskTypeOK

(* ... and the slots by one that does not cross SlotPlace.                 *)
LEMMA SlotsHeld ==
  ASSUME TypeOK, NEW t \in Task, NEW to, NEW e, pc' = [pc EXCEPT ![t] = to],
         exec' = [exec EXCEPT ![t] = e], pc[t] \in SlotPlace <=> to \in SlotPlace,
         pc[t] \in SlotPlace => e = exec[t]
  PROVE  \A p \in Project : SlotHolders(p)' = SlotHolders(p)
  BY DEF SlotHolders, TypeOK, TaskTypeOK

LEMMA SlotsHeldByGoto ==
  ASSUME TypeOK, NEW t \in Task, NEW from, NEW to, Goto(t, from, to), UNCHANGED exec,
         from \in SlotPlace <=> to \in SlotPlace
  PROVE  \A p \in Project : SlotHolders(p)' = SlotHolders(p)
  BY DEF Goto, SlotHolders, TypeOK, TaskTypeOK

LEMMA AdmissionStutters ==
  ASSUME \A p \in Project : SlotHolders(p)' = SlotHolders(p),
         PermitHolders' = PermitHolders
  PROVE  UNCHANGED Admits!vars
  BY DEF Admits!vars

(* Admission has its own name for the Cardinality of FiniteSets. *)
LEMMA SameCardinality == \A S : Admits!Cardinality(S) = Cardinality(S)
  BY DEF Cardinality, Admits!Cardinality

LEMMA AdmissionInit == Init => Admits!Init
  BY DEF Init, Admits!Init, SlotHolders, PermitHolders, SlotPlace, PermitPlace

(* A claimed slot is an Enter: the counter that was compared is exact. *)
LEMMA ClaimEnters ==
  ASSUME TypeOK, SlotAccounting, NEW t \in Task, ClaimSlot(t)
  PROVE  [Admits!Next]_(Admits!vars)
<1>1. UNCHANGED <<exec, debate>>
  BY DEF ClaimSlot
<1>2. PermitHolders' = PermitHolders
  BY <1>1, OwnersKept DEF ClaimSlot, Goto, PermitPlace
<1>3. CASE Goto(t, "claim", "park")
  BY <1>1, <1>2, <1>3, SlotsHeldByGoto, AdmissionStutters DEF SlotPlace
<1>4. CASE Goto(t, "claim", "permit") /\ active[ProjectOf[exec[t]]] < Cap
  <2>1. PICK q \in Project : q = ProjectOf[exec[t]]
    BY <1>4, SchedulerAssumption DEF Goto, TypeOK, TaskTypeOK
  <2>2. \A p \in Project : t \notin SlotHolders(p)
    BY <1>4 DEF Goto, SlotHolders, SlotPlace
  <2>3. SlotHolders(q)' = SlotHolders(q) \cup {t}
    BY <1>1, <1>4, <2>1 DEF Goto, SlotHolders, SlotPlace, TypeOK, TaskTypeOK
  <2>4. \A p \in Project \ {q} : SlotHolders(p)' = SlotHolders(p)
    BY <1>1, <1>4, <2>1 DEF Goto, SlotHolders, TypeOK, TaskTypeOK
  <2>5. Cardinality(SlotHolders(q)) < Cap
    BY <1>4, <2>1 DEF SlotAccounting
  <2>6. \A p \in Project : SlotHolders(p)' =
          IF p = q THEN SlotHolders(q) \cup {t} ELSE SlotHolders(p)
    BY <2>3, <2>4
  <2> DEFINE s == [p \in Project |-> SlotHolders(p)]
  <2>7. s' = [s EXCEPT ![q] = @ \cup {t}]
    BY <2>1, <2>6
  <2>8. (\A p \in Project : t \notin s[p]) /\ s[q] = SlotHolders(q)
    BY <2>1, <2>2
  <2>9. Cardinality(s[q]) < Cap
    BY <2>5, <2>8
  <2>10. Admits!Enter(t, q)
    BY <1>2, <2>7, <2>8, <2>9, SameCardinality DEF Admits!Enter
  <2>11. QED
    BY <2>10 DEF Admits!Next
<1>5. QED
  BY <1>3, <1>4 DEF ClaimSlot

LEMMA ReleaseLeaves ==
  ASSUME TypeOK, NEW t \in Task, NEW from \in SlotPlace,
         NEW to \in Place \ SlotPlace, ReleaseProjectSlot(t, from, to),
         from \in PermitPlace <=> to \in PermitPlace, UNCHANGED <<exec, debate>>
  PROVE  [Admits!Next]_(Admits!vars)
<1>1. PICK q \in Project : q = ProjectOf[exec[t]]
  BY SchedulerAssumption DEF ReleaseProjectSlot, TypeOK, TaskTypeOK, SlotPlace
<1>2. /\ pc[t] = from /\ pc'[t] = to
      /\ \A u \in Task \ {t} : /\ pc'[u] \in SlotPlace <=> pc[u] \in SlotPlace
                               /\ pc'[u] \in PermitPlace <=> pc[u] \in PermitPlace
  BY DEF ReleaseProjectSlot, SlotPlace, PermitPlace, TypeOK, TaskTypeOK
<1>3. PermitHolders' = PermitHolders
  BY <1>2 DEF PermitHolders
<1>4. t \in SlotHolders(q) /\ SlotHolders(q)' = SlotHolders(q) \ {t}
  BY <1>1, <1>2 DEF SlotHolders
<1>5. \A p \in Project \ {q} : SlotHolders(p)' = SlotHolders(p)
  BY <1>1, <1>2 DEF SlotHolders
<1>6. Admits!Leave(t, q)
  BY <1>3, <1>4, <1>5 DEF Admits!Leave
<1>7. QED
  BY <1>6 DEF Admits!Next

(* A permit is there to take: the free permits count the missing owners. *)
LEMMA PermitFree ==
  ASSUME TypeOK, PermitConservation, permits > 0
  PROVE  Cardinality(PermitHolders) < MaxAgents
<1>1. permits \in Nat /\ Cardinality(PermitHolders) \in Nat
  BY PermitHoldersFinite, FS_CardinalityType DEF TypeOK, ResourceTypeOK
<1>2. QED
  BY <1>1 DEF PermitConservation

LEMMA AcquireTakes ==
  ASSUME TypeOK, PermitConservation, NEW t \in Task, AcquirePermit(t) \/ Reacquire(t)
  PROVE  [Admits!Next]_(Admits!vars)
<1>1. PICK from \in {"permit", "reacquire"}, to \in {"register", "run"} :
        Goto(t, from, to) /\ permits > 0 /\ UNCHANGED <<exec, debate>>
  BY DEF AcquirePermit, Reacquire
<1>2. \A p \in Project : SlotHolders(p)' = SlotHolders(p)
  BY <1>1, SlotsHeldByGoto DEF SlotPlace
<1>3. \E p \in Project : t \in SlotHolders(p)
  BY <1>1, SchedulerAssumption DEF Goto, SlotHolders, SlotPlace, TypeOK, TaskTypeOK
<1>4. t \notin PermitHolders
  BY <1>1, SchedulerAssumption DEF Goto, PermitHolders, PermitPlace
<1>5. PermitHolders' = PermitHolders \cup {t}
  BY <1>1 DEF Goto, PermitHolders, PermitPlace, TypeOK, TaskTypeOK
<1>6. Cardinality(PermitHolders) < MaxAgents
  BY <1>1, PermitFree
<1>7. Admits!Take(t)
  BY <1>2, <1>3, <1>4, <1>5, <1>6, SameCardinality DEF Admits!Take
<1>8. QED
  BY <1>7 DEF Admits!Next

LEMMA TaskDrops ==
  ASSUME TypeOK, NEW t \in Task, BailPermit(t) \/ AskApproval(t) \/ FinishRun(t)
  PROVE  [Admits!Next]_(Admits!vars)
<1>1. CASE BailPermit(t)
  <2>1. \A p \in Project : SlotHolders(p)' = SlotHolders(p)
    BY <1>1, SlotsHeld DEF BailPermit, End, SlotPlace
  <2>2. t \in PermitHolders /\ PermitHolders' = PermitHolders \ {t}
    BY <1>1, SchedulerAssumption DEF BailPermit, End, PermitHolders, PermitPlace, TypeOK,
       TaskTypeOK
  <2>3. Admits!Drop(t)
    BY <2>1, <2>2 DEF Admits!Drop
  <2>4. QED
    BY <2>3 DEF Admits!Next
<1>2. CASE AskApproval(t) \/ FinishRun(t)
  <2>1. PICK to \in {"ask", "unregister"} :
          Goto(t, "run", to) /\ UNCHANGED <<exec, debate>>
    BY <1>2 DEF AskApproval, FinishRun
  <2>2. \A p \in Project : SlotHolders(p)' = SlotHolders(p)
    BY <2>1, SlotsHeldByGoto DEF SlotPlace
  <2>3. t \in PermitHolders /\ PermitHolders' = PermitHolders \ {t}
    BY <2>1, SchedulerAssumption DEF Goto, PermitHolders, PermitPlace, TypeOK, TaskTypeOK
  <2>4. Admits!Drop(t)
    BY <2>2, <2>3 DEF Admits!Drop
  <2>5. QED
    BY <2>4 DEF Admits!Next
<1>3. QED
  BY <1>1, <1>2, SMT

LEMMA AdmissionTaskStep ==
  ASSUME TypeOK, PermitConservation, SlotAccounting, NEW t \in Task,
         TaskStep(t) \/ AcquirePermit(t) \/ ApprovalAnswered(t) \/ Reacquire(t)
  PROVE  [Admits!Next]_(Admits!vars)
<1>1. ASSUME NEW from, NEW to, Goto(t, from, to), UNCHANGED <<exec, debate>>,
             from \in SlotPlace <=> to \in SlotPlace,
             from \in PermitPlace <=> to \in PermitPlace
      PROVE  UNCHANGED Admits!vars
  BY <1>1, OwnersKept, SlotsHeldByGoto, AdmissionStutters DEF Goto
<1>2. CASE Subscribe(t) \/ Park(t)
  BY <1>1, <1>2 DEF Subscribe, Park, SlotPlace, PermitPlace
<1>3. CASE Register(t) \/ Boot(t) \/ BootFails(t)
  BY <1>1, <1>3 DEF Register, Boot, BootFails, SlotPlace, PermitPlace
<1>4. CASE CancelledWhileAsking(t) \/ ApprovalAnswered(t)
  BY <1>1, <1>4 DEF CancelledWhileAsking, ApprovalAnswered, SlotPlace, PermitPlace
<1>5. CASE Unregister(t) \/ RemoveToken(t)
  BY <1>1, <1>5 DEF Unregister, RemoveToken, SlotPlace, PermitPlace
<1>6. CASE (GiveUpWaiting(t) \/ Requeue(t) \/ DrainLatch(t)) /\ End(t)
  <2>1. pc[t] \in {"wait", "requeue", "drain"} /\ UNCHANGED debate
    BY <1>6 DEF GiveUpWaiting, Requeue, DrainLatch
  <2>2. PermitHolders' = PermitHolders
    BY <1>6, <2>1, OwnersKept DEF End, PermitPlace
  <2>3. \A p \in Project : SlotHolders(p)' = SlotHolders(p)
    BY <1>6, <2>1, SlotsHeld DEF End, SlotPlace
  <2>4. QED
    BY <2>2, <2>3, AdmissionStutters
<1>7. CASE DrainLatch(t) /\ Goto(t, "drain", "requeue") /\ UNCHANGED exec
  BY <1>1, <1>7 DEF DrainLatch, SlotPlace, PermitPlace
<1>8. CASE GiveUpWaiting(t) \/ Requeue(t) \/ DrainLatch(t)
  BY <1>6, <1>7, <1>8 DEF GiveUpWaiting, Requeue, DrainLatch, Goto
<1>9. CASE BailSlot(t) \/ ReleaseSlot(t)
  BY <1>9, ReleaseLeaves DEF BailSlot, ReleaseSlot, SlotPlace, PermitPlace, Place
<1>10. CASE ClaimSlot(t)
  BY <1>10, ClaimEnters
<1>11. CASE AcquirePermit(t) \/ Reacquire(t)
  BY <1>11, AcquireTakes
<1>12. CASE BailPermit(t) \/ AskApproval(t) \/ FinishRun(t)
  BY <1>12, TaskDrops
<1>13. QED
  BY <1>2, <1>3, <1>4, <1>5, <1>8, <1>9, <1>10, <1>11, <1>12 DEF TaskStep

LEMMA AdmissionDebateStep ==
  ASSUME TypeOK, PermitConservation, NEW d \in Debate,
         DebateStarts(d) \/ DebateAcquires(d) \/ DebateEnds(d)
  PROVE  [Admits!Next]_(Admits!vars)
<1> USE DEF TypeOK, ResourceTypeOK
<1>1. UNCHANGED taskVars /\ \A p \in Project : SlotHolders(p)' = SlotHolders(p)
  BY DEF DebateStarts, DebateAcquires, DebateEnds, taskVars, SlotHolders
<1>2. CASE DebateStarts(d)
  <2>1. PermitHolders' = PermitHolders
    BY <1>1, <1>2 DEF DebateStarts, PermitHolders, taskVars
  <2>2. QED
    BY <1>1, <2>1, AdmissionStutters
<1>3. CASE DebateAcquires(d)
  <2>1. d \notin PermitHolders
    BY <1>3, SchedulerAssumption DEF DebateAcquires, PermitHolders
  <2>2. PermitHolders' = PermitHolders \cup {d}
    BY <1>1, <1>3 DEF DebateAcquires, PermitHolders, taskVars
  <2>3. Cardinality(PermitHolders) < MaxAgents
    BY <1>3, PermitFree DEF DebateAcquires
  <2>4. Admits!Take(d)
    BY <1>1, <2>1, <2>2, <2>3, SameCardinality DEF Admits!Take
  <2>5. QED
    BY <2>4 DEF Admits!Next
<1>4. CASE DebateEnds(d)
  <2>1. d \in PermitHolders /\ PermitHolders' = PermitHolders \ {d}
    BY <1>1, <1>4, SchedulerAssumption DEF DebateEnds, PermitHolders, taskVars
  <2>2. Admits!Drop(d)
    BY <1>1, <2>1 DEF Admits!Drop
  <2>3. QED
    BY <2>2 DEF Admits!Next
<1>5. QED
  BY <1>2, <1>3, <1>4

LEMMA AdmissionStep ==
  TypeOK /\ PermitConservation /\ SlotAccounting /\ [Next]_vars => [Admits!Next]_(Admits!vars)
<1> SUFFICES ASSUME TypeOK, PermitConservation, SlotAccounting, [Next]_vars
             PROVE  [Admits!Next]_(Admits!vars)
  OBVIOUS
<1>1. CASE UNCHANGED <<pc, exec, debate>>
  <2>1. PermitHolders' = PermitHolders /\ \A p \in Project : SlotHolders(p)' = SlotHolders(p)
    BY <1>1 DEF PermitHolders, SlotHolders
  <2>2. QED
    BY <2>1, AdmissionStutters
<1>2. CASE Environment
  BY <1>1, <1>2 DEF Environment, Queue, Wake, CancelExecution, TriggerShutdown, taskVars
<1>3. CASE LoopNew
  <2>1. CASE \E t \in Task : /\ pc[t] = "free"
                             /\ pc' = [pc EXCEPT ![t] = "start"]
                             /\ exec' = [exec EXCEPT ![t] = Head(newQueue)]
    <3>1. PermitHolders' = PermitHolders
      BY <1>3, <2>1, OwnersKept DEF LoopNew, PermitPlace
    <3>2. \A p \in Project : SlotHolders(p)' = SlotHolders(p)
      BY <2>1, SlotsHeld DEF SlotPlace
    <3>3. QED
      BY <3>1, <3>2, AdmissionStutters
  <2>2. QED
    BY <1>1, <1>3, <2>1 DEF LoopNew, taskVars
<1>4. CASE LoopWake \/ LoopLatch \/ LoopRequeue \/ LoopShutdown
  BY <1>1, <1>4 DEF LoopWake, LoopLatch, LoopRequeue, LoopShutdown, taskVars
<1>5. CASE \E t \in Task : TaskStep(t) \/ AcquirePermit(t) \/ ApprovalAnswered(t)
                            \/ Reacquire(t)
  BY <1>5, AdmissionTaskStep
<1>6. CASE \E d \in Debate : DebateStarts(d) \/ DebateAcquires(d) \/ DebateEnds(d)
  BY <1>6, AdmissionDebateStep
<1>7. CASE UNCHANGED vars
  BY <1>1, <1>7 DEF vars
<1>8. QED
  BY <1>2, <1>3, <1>4, <1>5, <1>6, <1>7 DEF Next, System, Loop

(* The scheduler, with its counters, racing tasks and early returns, only  *)
(* does what the admission specification allows.                           *)
THEOREM SchedulerImplementsAdmission == Spec => ImplementsAdmission
<1>1. QED
  BY AdmissionInit, AdmissionStep, TypeInit, TypeStep, PermitInit, PermitStep,
     SlotInit, SlotStep, PTL DEF Spec, ImplementsAdmission, Admits!Spec
=============================================================================
