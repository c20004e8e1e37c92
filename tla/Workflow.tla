------------------------------ MODULE Workflow ------------------------------
(***************************************************************************)
(* The workflow engine (workflow_engine.rs, workflow_repo.rs, the          *)
(* projections of its events and the workflow part of resolve_approval),   *)
(* for runs of one workflow.  No command of the program adds nodes to a    *)
(* workflow (workflow_commands.rs:21-22), so the graph here is one that    *)
(* has been stored in the database by other means.                         *)
(***************************************************************************)
EXTENDS Integers, Sequences, SequencesExt, FiniteSets

CONSTANTS
  Graph,        \* the nodes: a function from node to its type (an AgentTask has an agent)
  Start,        \* the first node of type Start, or the first node if there is none
  Edges,        \* a sequence of [from, to, when], when \in {"true", "false", "none"}
  Flow          \* identifiers of runs

Node == DOMAIN Graph
Edge == Range(Edges)
When == {"true", "false", "none"}

ASSUME WorkflowAssumption ==
  /\ Graph \in [Node -> {"Start", "End", "AgentTask", "HumanReview", "Condition", "Parallel"}]
  /\ Start \in Node
  /\ Edges \in Seq([from: Node, to: Node, when: When])

VARIABLES
  flowRow,      \* workflow_runs.status, "none" without a row
  marker,       \* workflow_runs.current_node_id: the nodes it names
  active,       \* active_nodes, in the memory of the task of a run
  doing,        \* where the task of a run is, the current node first in active
  review,       \* approvals of the runs: the status of the only one, and its node
  asked,        \* agents spawned and queued for the nodes of a run
  started,      \* history: how often a node has been started in a run
  entered,      \* history: how often a node has been entered in active
  permitted,    \* history: the nodes whose review a person has approved
  flowStops     \* history: crashes so far

flowVars == <<flowRow, marker, active, doing, review, asked, started, entered, permitted,
              flowStops>>

Doing == {"none", "load", "loop", "checkpointed", "node", "pausing", "done", "failing"}
NoReview == [status |-> "none", node |-> Start]

WorkflowTypeOK ==
  /\ flowRow \in [Flow -> {"none", "Running", "Paused", "Completed", "Failed"}]
  /\ marker \in [Flow -> Seq(Node)] /\ active \in [Flow -> Seq(Node)]
  /\ doing \in [Flow -> Doing]
  /\ review \in [Flow -> [status: {"none", "Pending", "Approved", "Rejected"}, node: Node]]
  /\ asked \in [Flow -> [Node -> Nat]]
  /\ started \in [Flow -> [Node -> Nat]] /\ entered \in [Flow -> [Node -> Nat]]
  /\ permitted \in [Flow -> SUBSET Node] /\ flowStops \in Nat

None == [n \in Node |-> 0]

WorkflowInit ==
  /\ flowRow = [f \in Flow |-> "none"] /\ marker = [f \in Flow |-> <<>>]
  /\ active = [f \in Flow |-> <<>>] /\ doing = [f \in Flow |-> "none"]
  /\ review = [f \in Flow |-> NoReview] /\ asked = [f \in Flow |-> None]
  /\ started = [f \in Flow |-> None] /\ entered = [f \in Flow |-> None]
  /\ permitted = [f \in Flow |-> {}] /\ flowStops = 0

FlowAt(f, p) == doing' = [doing EXCEPT ![f] = p]
Marks(f, nodes) == marker' = [marker EXCEPT ![f] = nodes]
FlowRow(f, s) == flowRow' = [flowRow EXCEPT ![f] = s]

-----------------------------------------------------------------------------
(* start_workflow_run, and the second run that an approval asks for *)

StartFlow(f) ==
  /\ doing[f] = "none" /\ flowRow[f] = "none"
  /\ FlowAt(f, "load")
  /\ UNCHANGED <<flowRow, marker, active, review, asked, started, entered, permitted, flowStops>>

(* The event WorkflowRunStarted inserts the row of the run.  Where there   *)
(* is one already -- the run is resumed -- the insertion fails, and with   *)
(* it the whole run.                                                       *)
EmitRunStarted(f) ==
  /\ doing[f] = "load"
  /\ IF flowRow[f] # "none"
     THEN FlowAt(f, "failing") /\ UNCHANGED <<flowRow, marker, active, entered>>
     ELSE /\ FlowRow(f, "Running") /\ Marks(f, <<>>)
          /\ IF Graph[Start] = "Start"
             THEN /\ active' = [active EXCEPT ![f] = <<Start>>]
                  /\ entered' = [entered EXCEPT ![f][Start] = @ + 1]
                  /\ FlowAt(f, "loop")
             ELSE FlowAt(f, "failing") /\ UNCHANGED <<active, entered>>
  /\ UNCHANGED <<review, asked, started, permitted, flowStops>>

(* The checkpoint names all active nodes; the projection of                *)
(* WorkflowNodeStarted, which comes next, puts the node alone in its place.*)
Checkpointed(f) ==
  /\ doing[f] = "loop" /\ active[f] # <<>>
  /\ Marks(f, active[f]) /\ FlowRow(f, "Running")
  /\ FlowAt(f, "checkpointed")
  /\ UNCHANGED <<active, review, asked, started, entered, permitted, flowStops>>

EmitNodeStarted(f) ==
  /\ doing[f] = "checkpointed"
  /\ Marks(f, <<Head(active[f])>>)
  /\ started' = [started EXCEPT ![f][Head(active[f])] = @ + 1]
  /\ FlowAt(f, "node")
  /\ UNCHANGED <<flowRow, active, review, asked, entered, permitted, flowStops>>

(* Mutant: a node that is active already is not entered again.             *)
EnterOnce(f, targets) ==
  LET rest == Tail(active[f])
      new == SelectSeq(targets, LAMBDA n : ~Contains(rest, n))
  IN /\ active' = [active EXCEPT ![f] = rest \o new]
     /\ entered' = [entered EXCEPT ![f] = [n \in Node |-> @[n] +
                      Cardinality({k \in DOMAIN targets : targets[k] = n})]]

Enter(f, targets) ==
  /\ active' = [active EXCEPT ![f] = Tail(@) \o targets]
  /\ entered' = [entered EXCEPT ![f] = [n \in Node |-> @[n] +
                   Cardinality({k \in DOMAIN targets : targets[k] = n})]]

(* The ends of the edges out of a node, in the order of the edges: of      *)
(* those among the first k, and of all whose condition is one of conds.    *)
Targets(n, conds) ==
  LET among[k \in 0..Len(Edges)] ==
        IF k = 0 THEN <<>>
        ELSE IF Edges[k].from = n /\ Edges[k].when \in conds
             THEN Append(among[k-1], Edges[k].to)
             ELSE among[k-1]
  IN among[Len(Edges)]

(* WorkflowNodeCompleted, and the edges out of the node. *)
Complete(f, conds) ==
  /\ Marks(f, <<>>)
  /\ Enter(f, Targets(Head(active[f]), conds))
  /\ FlowAt(f, "loop")

PassNode(f) ==
  /\ doing[f] = "node" /\ Graph[Head(active[f])] \in {"Start", "Parallel"}
  /\ Complete(f, When)
  /\ UNCHANGED <<flowRow, review, asked, started, permitted, flowStops>>

EndNode(f) ==
  /\ doing[f] = "node" /\ Graph[Head(active[f])] = "End"
  /\ Complete(f, {})
  /\ UNCHANGED <<flowRow, review, asked, started, permitted, flowStops>>

(* The script of the node succeeds or fails.                               *)
DecideNode(f) ==
  /\ doing[f] = "node" /\ Graph[Head(active[f])] = "Condition"
  /\ \E answer \in {"true", "false"} : Complete(f, {answer})
  /\ UNCHANGED <<flowRow, review, asked, started, permitted, flowStops>>

(* The node is complete when the execution of a new agent is queued: its   *)
(* work has not begun then.                                                *)
TaskNode(f) ==
  /\ doing[f] = "node" /\ Graph[Head(active[f])] = "AgentTask"
  /\ asked' = [asked EXCEPT ![f][Head(active[f])] = @ + 1]
  /\ Complete(f, When)
  /\ UNCHANGED <<flowRow, review, started, permitted, flowStops>>

(* Mutant: the review is asked for and the run goes on.                    *)
ReviewGoesOn(f) ==
  /\ doing[f] = "node" /\ Graph[Head(active[f])] = "HumanReview"
  /\ review' = [review EXCEPT ![f] = [status |-> "Pending", node |-> Head(active[f])]]
  /\ Complete(f, When)
  /\ UNCHANGED <<flowRow, asked, started, permitted, flowStops>>

(* The query for an approval that is there orders by a column the table    *)
(* does not have, and its failure reads as 'Pending': the node is never    *)
(* passed.                                                                 *)
ReviewNode(f) ==
  /\ doing[f] = "node" /\ Graph[Head(active[f])] = "HumanReview"
  /\ review' = [review EXCEPT ![f] = [status |-> "Pending", node |-> Head(active[f])]]
  /\ FlowAt(f, "pausing")
  /\ UNCHANGED <<flowRow, marker, active, asked, started, entered, permitted, flowStops>>

(* The task ends, and the row keeps what was active.  A review that was    *)
(* answered before this leaves the run 'Paused' for good.                  *)
PauseRun(f) ==
  /\ doing[f] = "pausing"
  /\ Marks(f, active[f]) /\ FlowRow(f, "Paused")
  /\ active' = [active EXCEPT ![f] = <<>>]
  /\ FlowAt(f, "none")
  /\ UNCHANGED <<review, asked, started, entered, permitted, flowStops>>

(* An event that cannot be committed, or a script that cannot be started,  *)
(* fails the run.                                                          *)
EmitFails(f) ==
  /\ doing[f] \in {"load", "checkpointed", "node"} \/ (doing[f] = "loop" /\ active[f] = <<>>)
  /\ FlowAt(f, "failing")
  /\ UNCHANGED <<flowRow, marker, active, review, asked, started, entered, permitted, flowStops>>

EmitRunCompleted(f) ==
  /\ doing[f] = "loop" /\ active[f] = <<>>
  /\ FlowRow(f, "Completed")
  /\ FlowAt(f, "done")
  /\ UNCHANGED <<marker, active, review, asked, started, entered, permitted, flowStops>>

EmitRunFailed(f) ==
  /\ doing[f] = "failing"
  /\ FlowRow(f, "Failed") \/ UNCHANGED flowRow       \* its own event may fail too
  /\ active' = [active EXCEPT ![f] = <<>>]
  /\ FlowAt(f, "done")
  /\ UNCHANGED <<marker, review, asked, started, entered, permitted, flowStops>>

(* resolve_approval: a run that is 'Paused' is run again, or is failed.    *)
(* It does not ask whether the review was answered before.  A run that is  *)
(* approved twice gets two tasks; each fails at its start like the other,  *)
(* and they are one here.                                                  *)
ResolveReview(f) ==
  /\ review[f].status # "none"
  /\ \/ /\ review' = [review EXCEPT ![f].status = "Approved"]
        /\ permitted' = [permitted EXCEPT ![f] = @ \union {review[f].node}]
        /\ IF flowRow[f] = "Paused" THEN FlowAt(f, "load") ELSE UNCHANGED doing
        /\ UNCHANGED flowRow
     \/ /\ review' = [review EXCEPT ![f].status = "Rejected"]
        /\ IF flowRow[f] = "Paused" THEN FlowRow(f, "Failed") ELSE UNCHANGED flowRow
        /\ UNCHANGED <<doing, permitted>>
  /\ UNCHANGED <<marker, active, asked, started, entered, flowStops>>

(* A crash ends the tasks.  Nothing looks for their runs afterwards.       *)
FlowCrash ==
  /\ flowStops' = flowStops + 1
  /\ active' = [f \in Flow |-> <<>>]
  /\ doing' = [f \in Flow |-> IF doing[f] = "none" THEN "none" ELSE "done"]
  /\ UNCHANGED <<flowRow, marker, review, asked, started, entered, permitted>>

FlowStep(f) ==
  \/ StartFlow(f) \/ EmitRunStarted(f) \/ Checkpointed(f) \/ EmitNodeStarted(f)
  \/ PassNode(f) \/ EndNode(f) \/ DecideNode(f) \/ TaskNode(f) \/ ReviewNode(f)
  \/ PauseRun(f) \/ EmitFails(f)
  \/ EmitRunCompleted(f) \/ EmitRunFailed(f) \/ ResolveReview(f)

WorkflowNext == (\E f \in Flow : FlowStep(f)) \/ FlowCrash

WorkflowSpec == WorkflowInit /\ [][WorkflowNext]_flowVars

-----------------------------------------------------------------------------
(* A run is 'Completed' only when every node that its edges lead to has    *)
(* been started once for each way that led to it, none was dropped, and an *)
(* agent was asked for at each visit of a task.                            *)
CompletedIsWhole ==
  \A f \in Flow : flowRow[f] = "Completed" =>
    /\ started[f] = entered[f]
    /\ \A n \in Node : Graph[n] = "AgentTask" => asked[f][n] = started[f][n]

(* No node behind a review is entered before a person has approved it, and *)
(* a run whose review was answered with no never completes.                *)
ReviewComesFirst ==
  \A f \in Flow :
    /\ \A n \in Node : entered[f][n] > 0 =>
         \/ n = Start
         \/ \E e \in Edge : /\ e.to = n /\ started[f][e.from] > 0
                            /\ Graph[e.from] = "HumanReview" => e.from \in permitted[f]
    /\ review[f].status = "Rejected" => flowRow[f] # "Completed"
=============================================================================
