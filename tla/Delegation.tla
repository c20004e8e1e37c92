----------------------------- MODULE Delegation -----------------------------
(***************************************************************************)
(* Delegation of work to sub-agents (delegate_task.rs, complete_task.rs,   *)
(* the end of a run in agent_runtime.rs, git_workspace.rs).                *)
(*                                                                         *)
(* A commit is named after the agent that made it, and a branch is the set *)
(* of the commits it contains; main is what HEAD of the project contains.  *)
(* The library git2 is modelled by what it answers to this code: a commit  *)
(* on HEAD is refused when HEAD is no longer its first parent, and a       *)
(* reference is set to what it is given.  The scheduler runs a child in    *)
(* the directory of the project, so a child reaches its worktree only by   *)
(* path (EditWorktree); what it writes elsewhere is not modelled.          *)
(***************************************************************************)
EXTENDS FiniteSets, Naturals

CONSTANTS
  Agent,        \* sub-agents that may be spawned
  Root,         \* an agent the operator has hired
  Capability,
  AgentSpawn,   \* the capability that lifts the bound on inheritance
  Conflicting   \* pairs of agents whose commits touch the same lines

ASSUME DelegationAssumption ==
  /\ Root \notin Agent
  /\ AgentSpawn \in Capability
  /\ Conflicting \subseteq Agent \X Agent

Member == Agent \union {Root}
NoAgent == [status |-> "absent", parent |-> Root, caps |-> {}]

VARIABLES
  agents,       \* agent_instances: status, parent and capabilities of each agent
  childStatus,  \* agent_executions.status of each; "Ended" is Completed or Failed
  place,        \* where the delegation of an agent, then its run, is
  toSchedule,   \* agents whose execution is asked for at the scheduler
  reports,      \* sub-agents whose report is in the inbox of their parent
  worktree,     \* the directory of each agent
  branch,       \* the commits on agent/<id>
  main,         \* the commits of HEAD
  seen,         \* the HEAD an agent's merge has looked at
  merged,       \* history: agents whose merge has succeeded with a commit
  overtaken,    \* history: a fast-forward has overwritten a newer HEAD
  outages       \* history: crashes so far

delegationVars == <<agents, childStatus, place, toSchedule, reports, worktree,
                    branch, main, seen, merged, overtaken, outages>>

Delegating == {"tree", "spawned"}
Completing == {"merging", "forwarding", "joining", "cleaning", "marking",
               "reporting", "waking", "concluding"}
Ending == {"endMerging", "endForwarding", "endJoining", "endCleaning"}
AgentPlace == {"none", "queued", "running", "gone"}
                \union Delegating \union Completing \union Ending

DelegationTypeOK ==
  /\ agents \in [Member -> [status: {"absent", "Active", "Retired"}, parent: Member,
                            caps: SUBSET Capability]]
  /\ childStatus \in [Member -> {"none", "Pending", "Queued", "Running", "Ended"}]
  /\ place \in [Agent -> AgentPlace]
  /\ toSchedule \subseteq Member /\ reports \subseteq Agent
  /\ worktree \in [Agent -> {"none", "clean", "edited"}]
  /\ branch \in [Agent -> SUBSET Agent] /\ main \subseteq Agent
  /\ seen \in [Agent -> SUBSET Agent]
  /\ merged \subseteq Agent /\ overtaken \in BOOLEAN /\ outages \in Nat

DelegationInit ==
  /\ \E caps \in SUBSET Capability :
       agents = [a \in Member |-> IF a = Root THEN [NoAgent EXCEPT !.status = "Active",
                                                                   !.caps = caps]
                                              ELSE NoAgent]
  /\ childStatus = [a \in Member |-> IF a = Root THEN "Running" ELSE "none"]
  /\ place = [a \in Agent |-> "none"]
  /\ toSchedule = {} /\ reports = {}
  /\ worktree = [a \in Agent |-> "none"]
  /\ branch = [a \in Agent |-> {}] /\ main = {}
  /\ seen = [a \in Agent |-> {}]
  /\ merged = {} /\ overtaken = FALSE /\ outages = 0

GitVars == <<worktree, branch, main, seen, merged, overtaken>>
RowVars == <<agents, childStatus, toSchedule, reports>>

MovesTo(a, p) == place' = [place EXCEPT ![a] = p]

-----------------------------------------------------------------------------
(* delegate_task *)

Acting(p) == IF p = Root THEN childStatus[Root] = "Running" ELSE place[p] = "running"

CreateAgentWorktree(a) ==
  /\ branch' = [branch EXCEPT ![a] = main]
  /\ worktree' = [worktree EXCEPT ![a] = "clean"]

(* The worktree and its branch are made before anything is written to the  *)
(* database.                                                               *)
CreateWorktree(a) ==
  /\ place[a] = "none"
  /\ \E p \in Member \ {a} :
       /\ Acting(p)
       /\ agents' = [agents EXCEPT ![a].parent = p]      \* of the tool's request
  /\ CreateAgentWorktree(a)
  /\ MovesTo(a, "tree")
  /\ UNCHANGED <<childStatus, toSchedule, reports, main, seen, merged, overtaken, outages>>

Inherited(p, baseline) ==
  IF AgentSpawn \in agents[p].caps THEN baseline ELSE baseline \intersect agents[p].caps

(* Mutant: the projection replaces the row.                                *)
ReplaceAgentInstance(rows, a, row) == [rows EXCEPT ![a] = row]

(* insert_agent_instance leaves an existing row as it is, and so the       *)
(* projection of AgentSpawned, which carries capabilities of its own, does *)
(* not replace those that delegate_task has just inserted.                 *)
InsertAgentInstance(rows, a, row) ==
  IF rows[a].status = "absent" THEN [rows EXCEPT ![a] = row] ELSE rows

ProjectAgentSpawned(rows, a, p) ==
  InsertAgentInstance(rows, a, [status |-> "Active", parent |-> p, caps |-> Capability])

CommitDelegation(a) ==
  /\ place[a] = "tree"
  /\ \E baseline \in SUBSET Capability :
       LET p == agents[a].parent
           row == [status |-> "Active", parent |-> p, caps |-> Inherited(p, baseline)]
       IN agents' = ProjectAgentSpawned([agents EXCEPT ![a] = row], a, p)
  /\ childStatus' = [childStatus EXCEPT ![a] = "Pending"]
  /\ MovesTo(a, "spawned")
  /\ UNCHANGED <<toSchedule, reports, outages>> /\ UNCHANGED GitVars

QueueChild(a) ==
  /\ place[a] = "spawned"
  /\ toSchedule' = toSchedule \union {a}
  /\ MovesTo(a, "queued")
  /\ UNCHANGED <<agents, childStatus, reports, outages>> /\ UNCHANGED GitVars

-----------------------------------------------------------------------------
(* The run of a child, as far as its worktree is concerned *)

StartChild(a) ==
  /\ a \in toSchedule /\ place[a] \in {"queued", "gone"}
  /\ toSchedule' = toSchedule \ {a}
  /\ childStatus' = [childStatus EXCEPT ![a] = "Running"]
  /\ MovesTo(a, "running")
  /\ UNCHANGED <<agents, reports, outages>> /\ UNCHANGED GitVars

EditWorktree(a) ==
  /\ place[a] = "running" /\ worktree[a] = "clean"
  /\ worktree' = [worktree EXCEPT ![a] = "edited"]
  /\ UNCHANGED <<place, branch, main, seen, merged, overtaken, outages>> /\ UNCHANGED RowVars

(* Everything in the worktree is staged; without a difference there is no  *)
(* commit.                                                                 *)
CommitAll(a) ==
  /\ branch' = [branch EXCEPT ![a] = IF worktree[a] = "edited" THEN @ \union {a} ELSE @]
  /\ worktree' = [worktree EXCEPT ![a] = "clean"]

(* complete_task: with a worktree, commit what has changed in it and go on *)
(* to the merge; without one, straight to the rows.                        *)
CommitWorktreeChanges(a) ==
  /\ place[a] = "running"
  /\ IF worktree[a] = "none"
     THEN MovesTo(a, "marking") /\ UNCHANGED <<branch, worktree>>
     ELSE CommitAll(a) /\ MovesTo(a, "merging")
  /\ UNCHANGED <<main, seen, merged, overtaken, outages>> /\ UNCHANGED RowVars

(* A run that ends by itself writes its final status and then merges the   *)
(* branch as it is: what is not committed is not.                          *)
Conclude(a) ==
  /\ place[a] \in {"running", "concluding"}
  /\ childStatus' = [childStatus EXCEPT ![a] = "Ended"]
  /\ MovesTo(a, "endMerging")
  /\ UNCHANGED <<agents, toSchedule, reports, outages>> /\ UNCHANGED GitVars

(* Cancelled, or failed before its end: neither status nor merge. *)
Abandon(a) ==
  /\ place[a] = "running"
  /\ MovesTo(a, "gone")
  /\ UNCHANGED outages /\ UNCHANGED GitVars /\ UNCHANGED RowVars

RootEnds ==
  /\ childStatus[Root] = "Running"
  /\ childStatus' = [childStatus EXCEPT ![Root] = "Ended"]
  /\ UNCHANGED <<agents, place, toSchedule, reports, outages>> /\ UNCHANGED GitVars

-----------------------------------------------------------------------------
(* merge_agent_branch, called by complete_task and at the end of a run *)

(* What follows a merge: complete_task cleans up whatever it has answered, *)
(* the end of a run only when it has succeeded.                            *)
AfterMerge(a, ok) ==
  MovesTo(a, IF place[a] \in Completing THEN "cleaning"
             ELSE IF ok THEN "endCleaning" ELSE "gone")

MergeAnalysis(a) ==
  /\ place[a] \in {"merging", "endMerging"}
  /\ seen' = [seen EXCEPT ![a] = IF branch[a] \subseteq main THEN {} ELSE main]
  /\ LET end == place[a] = "endMerging"
     IN CASE branch[a] \subseteq main -> AfterMerge(a, TRUE)
          [] ~(branch[a] \subseteq main) /\ main \subseteq branch[a] ->
               MovesTo(a, IF end THEN "endForwarding" ELSE "forwarding")
          [] OTHER -> MovesTo(a, IF end THEN "endJoining" ELSE "joining")
  /\ UNCHANGED <<worktree, branch, main, merged, overtaken, outages>> /\ UNCHANGED RowVars

(* HEAD is read again here and set to the branch, whatever it is by now.   *)
FastForward(a) ==
  /\ place[a] \in {"forwarding", "endForwarding"}
  /\ main' = branch[a]
  /\ merged' = merged \union {a}
  /\ overtaken' = (overtaken \/ main # seen[a])
  /\ seen' = [seen EXCEPT ![a] = {}]
  /\ AfterMerge(a, TRUE)
  /\ UNCHANGED <<worktree, branch, outages>> /\ UNCHANGED RowVars

Conflicts(a) ==
  \E x \in branch[a] \ main, y \in main \ branch[a] : <<x, y>> \in Conflicting

(* Mutant: the merge commit is forced onto HEAD with the old parents.      *)
JoinStale(a) ==
  /\ place[a] \in {"joining", "endJoining"} /\ ~Conflicts(a)
  /\ main' = seen[a] \union branch[a]
  /\ merged' = merged \union {a}
  /\ seen' = [seen EXCEPT ![a] = {}]
  /\ AfterMerge(a, TRUE)
  /\ UNCHANGED <<worktree, branch, overtaken, outages>> /\ UNCHANGED RowVars

(* A merge commit: the index of HEAD and the branch is made in memory, and *)
(* the commit is refused when HEAD has moved in between.                   *)
JoinCommits(a) ==
  /\ place[a] \in {"joining", "endJoining"}
  /\ \/ /\ ~Conflicts(a)
        /\ main' = main \union branch[a]
        /\ merged' = merged \union {a}
        /\ AfterMerge(a, TRUE)
     \/ /\ Conflicts(a) \/ main # seen[a]
        /\ AfterMerge(a, FALSE)
        /\ UNCHANGED <<main, merged>>
  /\ seen' = [seen EXCEPT ![a] = {}]
  /\ UNCHANGED <<worktree, branch, overtaken, outages>> /\ UNCHANGED RowVars

CleanupAgentWorktree(a) ==
  /\ place[a] \in {"cleaning", "endCleaning"}
  /\ worktree' = [worktree EXCEPT ![a] = "none"]
  /\ MovesTo(a, IF place[a] = "cleaning" THEN "marking" ELSE "gone")
  /\ UNCHANGED <<branch, main, seen, merged, overtaken, outages>> /\ UNCHANGED RowVars

-----------------------------------------------------------------------------
(* The rest of complete_task *)

MarkRetired(a) ==
  /\ place[a] = "marking"
  /\ agents' = [agents EXCEPT ![a].status = "Retired"]
  /\ childStatus' = [childStatus EXCEPT ![a] = "Ended"]
  /\ MovesTo(a, "reporting")
  /\ UNCHANGED <<toSchedule, reports, outages>> /\ UNCHANGED GitVars

ReportToParent(a) ==
  /\ place[a] = "reporting"
  /\ reports' = reports \union {a}
  /\ MovesTo(a, "waking")
  /\ UNCHANGED <<agents, childStatus, toSchedule, outages>> /\ UNCHANGED GitVars

WakeParent(a) ==
  /\ place[a] = "waking"
  /\ LET p == agents[a].parent
     IN toSchedule' = IF childStatus[p] = "Ended" THEN toSchedule ELSE toSchedule \union {p}
  /\ MovesTo(a, "concluding")
  /\ UNCHANGED <<agents, childStatus, reports, outages>> /\ UNCHANGED GitVars

(* A wake of the root agent while it runs is latched and runs it once more *)
(* after its end; recovery asks for it as for any other.                   *)
StartRoot ==
  /\ Root \in toSchedule
  /\ toSchedule' = toSchedule \ {Root}
  /\ childStatus' = [childStatus EXCEPT ![Root] = "Running"]
  /\ UNCHANGED <<agents, place, reports, outages>> /\ UNCHANGED GitVars

(* A crash ends every run and every delegation.  Recovery asks for the     *)
(* executions that were 'Running', and for no other.                       *)
Outage ==
  /\ outages' = outages + 1
  /\ LET lost == {x \in Member : childStatus[x] = "Running"}
     IN /\ toSchedule' = lost
        /\ childStatus' = [x \in Member |-> IF x \in lost THEN "Queued" ELSE childStatus[x]]
        /\ place' = [a \in Agent |-> IF place[a] = "none" THEN "none"
                                     ELSE IF a \in lost THEN "queued" ELSE "gone"]
  /\ seen' = [a \in Agent |-> {}]
  /\ UNCHANGED <<agents, reports, worktree, branch, main, merged, overtaken>>

DelegationStep(a) ==
  \/ CreateWorktree(a) \/ CommitDelegation(a) \/ QueueChild(a)
  \/ StartChild(a) \/ EditWorktree(a) \/ CommitWorktreeChanges(a) \/ Conclude(a) \/ Abandon(a)
  \/ MergeAnalysis(a) \/ FastForward(a) \/ JoinCommits(a) \/ CleanupAgentWorktree(a)
  \/ MarkRetired(a) \/ ReportToParent(a) \/ WakeParent(a)

DelegationNext == (\E a \in Agent : DelegationStep(a)) \/ RootEnds \/ StartRoot \/ Outage

DelegationSpec == DelegationInit /\ [][DelegationNext]_delegationVars

-----------------------------------------------------------------------------
(* A sub-agent has no capability its parent lacks, unless the parent may   *)
(* spawn agents freely: neither the projection of AgentSpawned nor a       *)
(* delegation by a sub-agent widens what was inherited.                    *)
BoundedInheritance ==
  \A a \in Agent : LET p == agents[a].parent IN
    agents[a].status # "absent" /\ AgentSpawn \notin agents[p].caps
      => agents[a].caps \subseteq agents[p].caps

(* A commit whose merge was reported as a success stays in the history of  *)
(* the project, whatever other agents merge and whenever the program       *)
(* stops, except where one fast-forward has overwritten another's HEAD.    *)
MergedStaysMerged == merged \subseteq main \/ overtaken
=============================================================================
