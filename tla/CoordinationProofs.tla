------------------------ MODULE CoordinationProofs ------------------------
(*************************************************************************)
(* Proofs about what agents coordinate by: the branches and rows of sub- *)
(* agents (Delegation), the advisory locks (Locks), the verdict of a     *)
(* swarm (Swarm), the walk over a workflow's graph (Workflow) and the    *)
(* heartbeat that sends triggers (Automation). Each is proved for every  *)
(* value of its constants and by itself: the components share no         *)
(* variable, and no lemma of one part is used in another.                *)
(*************************************************************************)
EXTENDS Delegation, Locks, Swarm, Workflow, Automation, DataLemmas

---------------------------------------------------------------------------
(*************************************************************************)
(* Proofs about Delegation, for any set of agents and capabilities.        *)
(*                                                                         *)
(* Inheritance: an agent's parent is fixed before it has a row and the     *)
(* parent has one (ParentsExist), so the capabilities a sub-agent was      *)
(* bounded by are never written again.                                     *)
(*                                                                         *)
(* Merging: as long as no fast-forward has overwritten a newer HEAD, HEAD  *)
(* only grows, and what a branch has that HEAD has not is the commit of    *)
(* its own agent (OwnWorkOnly).                                            *)
(*************************************************************************)

Present(x) == agents[x].status # "absent"
Forwarding == {"forwarding", "endForwarding"}
Joining == {"joining", "endJoining"}

(* Who has not been delegated to has no row, and who runs has one.         *)
RowsFollowPlaces ==
  \A a \in Agent :
    /\ place[a] \in {"none", "tree"} => ~Present(a)
    /\ place[a] \notin {"none", "tree", "gone"} => Present(a)

(* Only agents with a row are scheduled or have an execution.              *)
ScheduledExist ==
  /\ Present(Root)
  /\ \A x \in Member : childStatus[x] # "none" \/ x \in toSchedule => Present(x)

(* An agent that has a row, or is about to get it, has a parent that has.  *)
ParentsExist ==
  \A a \in Agent : Present(a) \/ place[a] = "tree" => Present(agents[a].parent)

RowsInv == DelegationTypeOK /\ RowsFollowPlaces /\ ScheduledExist /\ ParentsExist
             /\ BoundedInheritance

(* What an agent is about to merge contains its own commit, and before a   *)
(* fast-forward also the HEAD that was looked at.                          *)
MergesOwnWork ==
  \A a \in Agent :
    /\ place[a] \in Forwarding => seen[a] \subseteq branch[a]
    /\ place[a] \in Forwarding \union Joining => a \in branch[a] \/ overtaken

OwnWorkOnly == overtaken \/ \A a \in Agent : branch[a] \ {a} \subseteq main

MergeInv == DelegationTypeOK /\ MergesOwnWork /\ OwnWorkOnly /\ MergedStaysMerged

-----------------------------------------------------------------------------
(* Type correctness. *)

LEMMA DelegationInitTypeOK == DelegationInit => DelegationTypeOK
<1> SUFFICES ASSUME DelegationInit PROVE DelegationTypeOK
  OBVIOUS
<1>1. PICK caps \in SUBSET Capability :
        agents = [a \in Member |-> IF a = Root THEN [NoAgent EXCEPT !.status = "Active",
                                                                    !.caps = caps]
                                               ELSE NoAgent]
  BY DEF DelegationInit
<1>2. agents \in [Member -> [status: {"absent", "Active", "Retired"}, parent: Member,
                             caps: SUBSET Capability]]
  BY <1>1 DEF NoAgent, Member
<1>3. place \in [Agent -> AgentPlace]
  BY DEF DelegationInit, AgentPlace
<1>4. childStatus \in [Member -> {"none", "Pending", "Queued", "Running", "Ended"}]
  BY DEF DelegationInit
<1>5. /\ worktree \in [Agent -> {"none", "clean", "edited"}]
      /\ branch \in [Agent -> SUBSET Agent] /\ seen \in [Agent -> SUBSET Agent]
  BY DEF DelegationInit
<1>6. toSchedule \subseteq Member /\ reports \subseteq Agent /\ main \subseteq Agent
      /\ merged \subseteq Agent /\ outages \in Nat
  BY DEF DelegationInit
<1>7. overtaken \in BOOLEAN
  BY Zenon DEF DelegationInit
<1> QED BY <1>2, <1>3, <1>4, <1>5, <1>6, <1>7 DEF DelegationTypeOK

(* A row that is there is not replaced by the projection.                  *)
LEMMA RowIsInserted ==
  ASSUME DelegationTypeOK, NEW a \in Agent, CommitDelegation(a)
  PROVE  \E baseline \in SUBSET Capability :
           agents' = [agents EXCEPT ![a] = [status |-> "Active", parent |-> agents[a].parent,
                                            caps |-> Inherited(agents[a].parent, baseline)]]
<1>1. PICK baseline \in SUBSET Capability :
        LET p == agents[a].parent
            row == [status |-> "Active", parent |-> p, caps |-> Inherited(p, baseline)]
        IN agents' = ProjectAgentSpawned([agents EXCEPT ![a] = row], a, p)
  BY DEF CommitDelegation
<1> DEFINE row == [status |-> "Active", parent |-> agents[a].parent,
                   caps |-> Inherited(agents[a].parent, baseline)]
           rows == [agents EXCEPT ![a] = row]
<1>2. rows[a].status = "Active"
  BY DEF DelegationTypeOK, Member
<1>3. ProjectAgentSpawned(rows, a, agents[a].parent) = rows
  BY <1>2 DEF ProjectAgentSpawned, InsertAgentInstance
<1> QED BY <1>1, <1>3

LEMMA InheritedType ==
  ASSUME DelegationTypeOK, NEW p \in Member, NEW baseline \in SUBSET Capability
  PROVE  /\ Inherited(p, baseline) \in SUBSET Capability
         /\ AgentSpawn \notin agents[p].caps => Inherited(p, baseline) \subseteq agents[p].caps
  BY DEF Inherited

LEMMA DelegationStepTypeOK ==
  ASSUME DelegationTypeOK, [DelegationNext]_delegationVars
  PROVE  DelegationTypeOK'
<1> USE DEF DelegationTypeOK
<1>1. ASSUME NEW a \in Agent, CreateWorktree(a) PROVE DelegationTypeOK'
  BY <1>1 DEF CreateWorktree, CreateAgentWorktree, MovesTo, AgentPlace, Delegating, Member
<1>2. ASSUME NEW a \in Agent, CommitDelegation(a) PROVE DelegationTypeOK'
  <2>1. PICK baseline \in SUBSET Capability :
          agents' = [agents EXCEPT ![a] = [status |-> "Active", parent |-> agents[a].parent,
                                           caps |-> Inherited(agents[a].parent, baseline)]]
    BY <1>2, RowIsInserted
  <2>2. agents[a].parent \in Member
    BY DEF Member
  <2>3. Inherited(agents[a].parent, baseline) \in SUBSET Capability
    BY <2>2, InheritedType
  <2>4. agents' \in [Member -> [status: {"absent", "Active", "Retired"}, parent: Member,
                                caps: SUBSET Capability]]
    BY <2>1, <2>2, <2>3
  <2> QED BY <1>2, <2>4 DEF CommitDelegation, GitVars, MovesTo, AgentPlace, Delegating
<1>3. ASSUME NEW a \in Agent, QueueChild(a) PROVE DelegationTypeOK'
  BY <1>3 DEF QueueChild, GitVars, MovesTo, AgentPlace, Member
<1>4. ASSUME NEW a \in Agent, StartChild(a) PROVE DelegationTypeOK'
  BY <1>4 DEF StartChild, GitVars, MovesTo, AgentPlace
<1>5. ASSUME NEW a \in Agent, EditWorktree(a) PROVE DelegationTypeOK'
  BY <1>5 DEF EditWorktree, RowVars
<1>6. ASSUME NEW a \in Agent, CommitWorktreeChanges(a) PROVE DelegationTypeOK'
  BY <1>6 DEF CommitWorktreeChanges, CommitAll, RowVars, MovesTo, AgentPlace, Completing
<1>7. ASSUME NEW a \in Agent, Conclude(a) PROVE DelegationTypeOK'
  BY <1>7 DEF Conclude, GitVars, MovesTo, AgentPlace, Ending
<1>8. ASSUME NEW a \in Agent, Abandon(a) PROVE DelegationTypeOK'
  BY <1>8 DEF Abandon, GitVars, RowVars, MovesTo, AgentPlace
<1>9. ASSUME NEW a \in Agent, MergeAnalysis(a) PROVE DelegationTypeOK'
  <2>1. \E p \in AgentPlace : MovesTo(a, p)
    BY <1>9 DEF MergeAnalysis, AfterMerge, AgentPlace, Completing, Ending
  <2>2. place' \in [Agent -> AgentPlace]
    BY <2>1 DEF MovesTo
  <2> QED BY <1>9, <2>2 DEF MergeAnalysis, RowVars
<1>10. ASSUME NEW a \in Agent, FastForward(a) PROVE DelegationTypeOK'
  <2>1. \E p \in AgentPlace : MovesTo(a, p)
    BY <1>10 DEF FastForward, AfterMerge, AgentPlace, Completing, Ending
  <2>2. place' \in [Agent -> AgentPlace]
    BY <2>1 DEF MovesTo
  <2>3. overtaken' \in BOOLEAN
    BY <1>10, Zenon DEF FastForward
  <2> QED BY <1>10, <2>2, <2>3 DEF FastForward, RowVars
<1>11. ASSUME NEW a \in Agent, JoinCommits(a) PROVE DelegationTypeOK'
  <2>1. \E p \in AgentPlace : MovesTo(a, p)
    BY <1>11 DEF JoinCommits, AfterMerge, AgentPlace, Completing, Ending
  <2>2. place' \in [Agent -> AgentPlace]
    BY <2>1 DEF MovesTo
  <2> QED BY <1>11, <2>2 DEF JoinCommits, RowVars
<1>12. ASSUME NEW a \in Agent, CleanupAgentWorktree(a) PROVE DelegationTypeOK'
  BY <1>12 DEF CleanupAgentWorktree, RowVars, MovesTo, AgentPlace, Completing
<1>13. ASSUME NEW a \in Agent, MarkRetired(a) PROVE DelegationTypeOK'
  BY <1>13 DEF MarkRetired, GitVars, MovesTo, AgentPlace, Completing, Member
<1>14. ASSUME NEW a \in Agent, ReportToParent(a) PROVE DelegationTypeOK'
  BY <1>14 DEF ReportToParent, GitVars, MovesTo, AgentPlace, Completing
<1>15. ASSUME NEW a \in Agent, WakeParent(a) PROVE DelegationTypeOK'
  BY <1>15 DEF WakeParent, GitVars, MovesTo, AgentPlace, Completing, Member
<1>16. ASSUME RootEnds \/ StartRoot PROVE DelegationTypeOK'
  BY <1>16 DEF RootEnds, StartRoot, GitVars
<1>17. ASSUME Outage PROVE DelegationTypeOK'
  BY <1>17 DEF Outage, AgentPlace
<1>18. ASSUME UNCHANGED delegationVars PROVE DelegationTypeOK'
  BY <1>18 DEF delegationVars
<1> QED
  BY <1>1, <1>2, <1>3, <1>4, <1>5, <1>6, <1>7, <1>8, <1>9, <1>10, <1>11, <1>12, <1>13, <1>14,
     <1>15, <1>16, <1>17, <1>18 DEF DelegationNext, DelegationStep

-----------------------------------------------------------------------------
(* Inheritance. *)

LEMMA RowsInit == DelegationInit => RowsInv
<1> SUFFICES ASSUME DelegationInit PROVE RowsInv
  OBVIOUS
<1>1. DelegationTypeOK
  BY DelegationInitTypeOK
<1>2. Present(Root) /\ \A a \in Agent : ~Present(a)
  <2>1. PICK caps \in SUBSET Capability :
          agents = [x \in Member |-> IF x = Root THEN [NoAgent EXCEPT !.status = "Active",
                                                                      !.caps = caps]
                                                 ELSE NoAgent]
    BY DEF DelegationInit
  <2>2. NoAgent.status = "absent" /\ [NoAgent EXCEPT !.status = "Active", !.caps = caps].status = "Active"
    BY DEF NoAgent
  <2>3. Root \in Member /\ \A a \in Agent : a \in Member /\ a # Root
    BY DelegationAssumption DEF Member
  <2> QED BY <2>1, <2>2, <2>3 DEF Present
<1>3. \A a \in Agent : place[a] = "none"
  BY DEF DelegationInit
<1>4. toSchedule = {} /\ \A a \in Agent : childStatus[a] = "none"
  BY DelegationAssumption DEF DelegationInit, Member
<1> QED
  BY <1>1, <1>2, <1>3, <1>4
     DEF RowsInv, RowsFollowPlaces, ScheduledExist, ParentsExist, BoundedInheritance, Present, Member

(* A step that leaves every agent's parent and capabilities alone, and     *)
(* makes no row, keeps what was inherited.                                 *)
LEMMA SameFamily ==
  ASSUME RowsInv,
         \A x \in Member : /\ agents'[x].parent = agents[x].parent
                           /\ agents'[x].caps = agents[x].caps
                           /\ (agents'[x].status = "absent") = (agents[x].status = "absent"),
         \A a \in Agent : place'[a] = "tree" => place[a] = "tree"
  PROVE  /\ ParentsExist' /\ BoundedInheritance'
         /\ \A x \in Member : Present(x)' = Present(x)
<1>1. \A a \in Agent : a \in Member /\ agents[a].parent \in Member
  BY DEF RowsInv, DelegationTypeOK, Member
<1>2. \A x \in Member : Present(x)' = Present(x)
  BY DEF Present
<1>3. ParentsExist'
  BY <1>1, <1>2 DEF RowsInv, ParentsExist
<1>4. BoundedInheritance'
  BY <1>1 DEF RowsInv, BoundedInheritance
<1> QED BY <1>2, <1>3, <1>4

LEMMA CreateWorktreeKeepsRows ==
  ASSUME RowsInv, NEW a \in Agent, CreateWorktree(a), DelegationTypeOK'
  PROVE  RowsInv'
<1> USE DEF Member
<1>1. PICK p \in Member \ {a} : Acting(p) /\ agents' = [agents EXCEPT ![a].parent = p]
  BY DEF CreateWorktree
<1>2. place[a] = "none" /\ place' = [place EXCEPT ![a] = "tree"]
      /\ UNCHANGED <<childStatus, toSchedule>>
  BY DEF CreateWorktree, MovesTo
<1>3. ~Present(a)
  BY <1>2 DEF RowsInv, RowsFollowPlaces
<1>4. Present(p)
  BY <1>1 DEF RowsInv, RowsFollowPlaces, ScheduledExist, Acting
<1>5. \A x \in Member : Present(x)' = Present(x) /\ agents'[x].caps = agents[x].caps
  BY <1>1 DEF RowsInv, DelegationTypeOK, Present
<1>6. RowsFollowPlaces'
  BY <1>2, <1>3, <1>5 DEF RowsInv, DelegationTypeOK, RowsFollowPlaces
<1>7. ScheduledExist'
  BY <1>2, <1>5 DEF RowsInv, ScheduledExist
<1>8. \A b \in Agent \ {a} : agents'[b] = agents[b] /\ place'[b] = place[b]
  BY <1>1, <1>2 DEF RowsInv, DelegationTypeOK
<1>9. agents'[a].parent = p
  BY <1>1 DEF RowsInv, DelegationTypeOK
<1>10. \A b \in Agent : agents[b].parent \in Member
  BY DEF RowsInv, DelegationTypeOK
<1>11. ParentsExist'
  BY <1>4, <1>5, <1>8, <1>9, <1>10 DEF RowsInv, ParentsExist, Present
<1>12. BoundedInheritance'
  BY <1>3, <1>5, <1>8, <1>10 DEF RowsInv, BoundedInheritance, Present
<1> QED BY <1>6, <1>7, <1>11, <1>12 DEF RowsInv

LEMMA CommitDelegationKeepsRows ==
  ASSUME RowsInv, NEW a \in Agent, CommitDelegation(a), DelegationTypeOK'
  PROVE  RowsInv'
<1> USE DEF Member
<1> DEFINE p == agents[a].parent
<1>1. PICK baseline \in SUBSET Capability :
        agents' = [agents EXCEPT ![a] = [status |-> "Active", parent |-> p,
                                         caps |-> Inherited(p, baseline)]]
  BY RowIsInserted DEF RowsInv
<1>2. place[a] = "tree" /\ place' = [place EXCEPT ![a] = "spawned"]
      /\ childStatus' = [childStatus EXCEPT ![a] = "Pending"] /\ UNCHANGED toSchedule
  BY DEF CommitDelegation, MovesTo
<1>3. p \in Member /\ ~Present(a) /\ Present(p) /\ p # a
  BY <1>2 DEF RowsInv, RowsFollowPlaces, ParentsExist, DelegationTypeOK
<1>4. agents'[a] = [status |-> "Active", parent |-> p, caps |-> Inherited(p, baseline)]
  BY <1>1 DEF RowsInv, DelegationTypeOK
<1>5. \A x \in Member \ {a} : agents'[x] = agents[x]
  BY <1>1 DEF RowsInv, DelegationTypeOK
<1>6. \A x \in Member : Present(x)' <=> (Present(x) \/ x = a)
  BY <1>4, <1>5 DEF Present
<1>7. RowsFollowPlaces'
  BY <1>2, <1>6 DEF RowsInv, DelegationTypeOK, RowsFollowPlaces
<1>8. ScheduledExist'
  BY <1>2, <1>6 DEF RowsInv, DelegationTypeOK, ScheduledExist
<1>9. \A b \in Agent : agents'[b].parent = agents[b].parent /\ agents[b].parent \in Member
  <2>1. agents'[a].parent = agents[a].parent
    BY <1>4
  <2>2. \A b \in Agent \ {a} : agents'[b].parent = agents[b].parent
    BY <1>5
  <2>3. \A b \in Agent : agents[b].parent \in Member
    BY DEF RowsInv, DelegationTypeOK
  <2> QED BY <2>1, <2>2, <2>3
<1>10. ParentsExist'
  BY <1>2, <1>3, <1>6, <1>9 DEF RowsInv, DelegationTypeOK, ParentsExist
(* Nobody is bounded by the agent itself yet: a parent has its row first.  *)
<1>11. ASSUME NEW b \in Agent, Present(b)', AgentSpawn \notin agents'[agents'[b].parent].caps
       PROVE  agents'[b].caps \subseteq agents'[agents'[b].parent].caps
  <2>1. CASE b = a
    <3>1. agents'[p] = agents[p] /\ agents'[a].parent = p
      BY <1>3, <1>4, <1>5
    <3> QED BY <1>3, <1>4, <1>11, <2>1, <3>1, InheritedType DEF RowsInv
  <2>2. CASE b # a
    <3>1. Present(b) /\ agents[b].parent # a
      BY <1>3, <1>6, <1>11, <2>2 DEF RowsInv, ParentsExist
    <3>2. agents'[agents'[b].parent] = agents[agents[b].parent] /\ agents'[b] = agents[b]
      BY <1>5, <1>9, <2>2, <3>1
    <3> QED BY <1>11, <3>1, <3>2 DEF RowsInv, BoundedInheritance, Present
  <2> QED BY <2>1, <2>2
<1>12. BoundedInheritance'
  BY <1>11 DEF BoundedInheritance, Present
<1> QED BY <1>7, <1>8, <1>10, <1>12 DEF RowsInv

LEMMA RestKeepsRows ==
  ASSUME RowsInv, DelegationTypeOK', NEW a \in Agent,
         \/ QueueChild(a) \/ StartChild(a) \/ EditWorktree(a) \/ CommitWorktreeChanges(a)
         \/ Conclude(a) \/ Abandon(a) \/ MergeAnalysis(a) \/ FastForward(a) \/ JoinCommits(a)
         \/ CleanupAgentWorktree(a) \/ ReportToParent(a) \/ WakeParent(a) \/ MarkRetired(a)
  PROVE  RowsInv'
<1> USE DEF Member
<1>1. /\ \A x \in Member : /\ agents'[x].parent = agents[x].parent
                            /\ agents'[x].caps = agents[x].caps
                            /\ (agents'[x].status = "absent") = (agents[x].status = "absent")
  <2>1. CASE MarkRetired(a)
    <3>1. Present(a)
      BY <2>1 DEF MarkRetired, RowsInv, RowsFollowPlaces
    <3> QED BY <2>1, <3>1 DEF MarkRetired, RowsInv, DelegationTypeOK, Present
  <2>2. CASE ~MarkRetired(a)
    BY <2>2 DEF QueueChild, StartChild, EditWorktree, CommitWorktreeChanges, Conclude, Abandon,
       MergeAnalysis, FastForward, JoinCommits, CleanupAgentWorktree, ReportToParent, WakeParent,
       RowVars
  <2> QED BY <2>1, <2>2
(* The agent has a row when it moves, and moves on to where it needs one   *)
(* or to "gone".                                                           *)
<1>2. Present(a)
  BY DEF QueueChild, StartChild, EditWorktree, CommitWorktreeChanges, Conclude, Abandon,
     MergeAnalysis, FastForward, JoinCommits, CleanupAgentWorktree, ReportToParent, WakeParent,
     MarkRetired, RowsInv, RowsFollowPlaces, ScheduledExist
<1>3. /\ place'[a] \notin {"none", "tree"}
      /\ \A b \in Agent \ {a} : place'[b] = place[b]
  <2>1. CASE EditWorktree(a)
    BY <2>1 DEF EditWorktree
  <2>2. CASE ~EditWorktree(a)
    <3>1. \E q \in AgentPlace \ {"none", "tree"} : MovesTo(a, q)
      BY <2>2 DEF QueueChild, StartChild, CommitWorktreeChanges, Conclude, Abandon,
         MergeAnalysis, FastForward, JoinCommits, AfterMerge, CleanupAgentWorktree, ReportToParent,
         WakeParent, MarkRetired, AgentPlace, Completing, Ending, Delegating
    <3> QED BY <3>1 DEF MovesTo, RowsInv, DelegationTypeOK
  <2> QED BY <2>1, <2>2
<1>4. /\ ParentsExist' /\ BoundedInheritance'
      /\ \A x \in Member : Present(x)' = Present(x)
  BY <1>1, <1>3, SameFamily
<1>5. RowsFollowPlaces'
  BY <1>2, <1>3, <1>4 DEF RowsInv, RowsFollowPlaces
<1>6. \A x \in Member : childStatus'[x] # "none" \/ x \in toSchedule' =>
                           childStatus[x] # "none" \/ x \in toSchedule \/ x = a
                             \/ x = agents[a].parent
  <2>1. toSchedule' \subseteq toSchedule \union {a, agents[a].parent}
    BY DEF QueueChild, StartChild, EditWorktree, CommitWorktreeChanges, Conclude, Abandon,
       MergeAnalysis, FastForward, JoinCommits, CleanupAgentWorktree, ReportToParent, WakeParent,
       MarkRetired, RowVars
  <2>2. \A x \in Member : x # a => childStatus'[x] = childStatus[x]
    <3>1. childStatus' = childStatus \/ \E v \in {"Running", "Ended"} :
                                          childStatus' = [childStatus EXCEPT ![a] = v]
      BY DEF QueueChild, StartChild, EditWorktree, CommitWorktreeChanges, Conclude, Abandon,
         MergeAnalysis, FastForward, JoinCommits, CleanupAgentWorktree, ReportToParent, WakeParent,
         MarkRetired, RowVars
    <3> QED BY <3>1 DEF RowsInv, DelegationTypeOK
  <2> QED BY <2>1, <2>2
<1>7. Present(agents[a].parent)
  BY <1>2 DEF RowsInv, ParentsExist
<1>8. ScheduledExist'
  BY <1>2, <1>4, <1>6, <1>7 DEF RowsInv, ScheduledExist
<1> QED BY <1>4, <1>5, <1>8 DEF RowsInv

LEMMA OthersKeepRows ==
  ASSUME RowsInv, DelegationTypeOK', RootEnds \/ StartRoot \/ Outage \/ UNCHANGED delegationVars
  PROVE  RowsInv'
<1> USE DEF Member
<1>1. agents' = agents
  BY DEF RootEnds, StartRoot, Outage, delegationVars
<1>2. \A a \in Agent : /\ place'[a] \in {"none", "tree"} => place[a] \in {"none", "tree"}
                       /\ place'[a] = "tree" => place[a] = "tree"
                       /\ place'[a] \notin {"none", "tree", "gone"} =>
                            place[a] \notin {"none", "tree", "gone"} \/ childStatus[a] # "none"
  BY DEF RootEnds, StartRoot, Outage, delegationVars
<1>3. \A x \in Member : childStatus'[x] # "none" \/ x \in toSchedule' =>
                           childStatus[x] # "none" \/ x \in toSchedule
  BY DEF RootEnds, StartRoot, Outage, delegationVars, RowsInv, DelegationTypeOK
<1>4. ParentsExist' /\ BoundedInheritance' /\ \A x \in Member : Present(x)' = Present(x)
  BY <1>1, <1>2, SameFamily
<1>5. RowsFollowPlaces' /\ ScheduledExist'
  BY <1>2, <1>3, <1>4 DEF RowsInv, RowsFollowPlaces, ScheduledExist
<1> QED BY <1>4, <1>5 DEF RowsInv

(* Rows, schedule and parents belong together, and with them the bound on  *)
(* what is inherited.                                                      *)
THEOREM RowsStayInv == DelegationSpec => []RowsInv
<1>1. RowsInv /\ [DelegationNext]_delegationVars => RowsInv'
  <2> SUFFICES ASSUME RowsInv, [DelegationNext]_delegationVars PROVE RowsInv'
    OBVIOUS
  <2>1. DelegationTypeOK'
    BY DelegationStepTypeOK DEF RowsInv
  <2> QED
    BY <2>1, CreateWorktreeKeepsRows, CommitDelegationKeepsRows, RestKeepsRows, OthersKeepRows
       DEF DelegationNext, DelegationStep
<1> QED BY <1>1, RowsInit, PTL DEF DelegationSpec

(* No sub-agent ever has a capability that its parent lacks, unless the    *)
(* parent may spawn agents: delegate_task.rs and the projection of         *)
(* AgentSpawned write the same row, and only the first write counts.       *)
THEOREM InheritanceIsBounded == DelegationSpec => []BoundedInheritance
<1>1. RowsInv => BoundedInheritance
  BY DEF RowsInv
<1> QED BY <1>1, RowsStayInv, PTL

-----------------------------------------------------------------------------
(* Merging. *)

LEMMA MergeInit == DelegationInit => MergeInv
<1> SUFFICES ASSUME DelegationInit PROVE MergeInv
  OBVIOUS
<1>1. /\ \A a \in Agent : place[a] = "none" /\ branch[a] = {}
      /\ merged = {}
  BY DEF DelegationInit
<1> QED
  BY <1>1, DelegationInitTypeOK
     DEF MergeInv, MergesOwnWork, OwnWorkOnly, MergedStaysMerged, Forwarding, Joining

(* Steps that neither move HEAD nor bring an agent to the point where it   *)
(* moves HEAD; a branch may gain the commit of its own agent meanwhile,    *)
(* and a new one begins as HEAD.                                           *)
LEMMA NoMerge ==
  ASSUME MergeInv, DelegationTypeOK', UNCHANGED <<main, merged, overtaken>>,
         \A a \in Agent :
           /\ place'[a] \in Forwarding \union Joining =>
                place'[a] = place[a] /\ branch'[a] = branch[a] /\ seen'[a] = seen[a]
           /\ branch'[a] \subseteq branch[a] \union main \union {a}
  PROVE  MergeInv'
<1>1. MergesOwnWork'
  BY DEF MergeInv, MergesOwnWork, Forwarding, Joining
<1>2. OwnWorkOnly'
  BY DEF MergeInv, OwnWorkOnly
<1>3. MergedStaysMerged'
  BY DEF MergeInv, MergedStaysMerged
<1> QED BY <1>1, <1>2, <1>3 DEF MergeInv

LEMMA QuietStepsKeepMerge ==
  ASSUME MergeInv, DelegationTypeOK', NEW a \in Agent,
         \/ CreateWorktree(a) \/ CommitDelegation(a) \/ QueueChild(a)
         \/ StartChild(a) \/ EditWorktree(a) \/ CommitWorktreeChanges(a) \/ Conclude(a)
         \/ Abandon(a) \/ CleanupAgentWorktree(a) \/ MarkRetired(a) \/ ReportToParent(a)
         \/ WakeParent(a)
  PROVE  MergeInv'
<1>1. UNCHANGED <<main, merged, overtaken, seen>>
  BY DEF CreateWorktree, CommitDelegation, QueueChild, StartChild, EditWorktree,
     CommitWorktreeChanges, Conclude, Abandon, CleanupAgentWorktree, MarkRetired, ReportToParent,
     WakeParent, GitVars
<1>2. branch' = branch \/ (\E B \in SUBSET Agent : /\ branch' = [branch EXCEPT ![a] = B]
                                                   /\ B \subseteq branch[a] \union main \union {a}
                                                   /\ place[a] \in {"none", "running"})
  <2>1. CASE CreateWorktree(a)
    BY <2>1 DEF CreateWorktree, CreateAgentWorktree, MergeInv, DelegationTypeOK
  <2>2. CASE CommitWorktreeChanges(a)
    <3>1. branch[a] \in SUBSET Agent
      BY DEF MergeInv, DelegationTypeOK
    <3> QED BY <2>2, <3>1 DEF CommitWorktreeChanges, CommitAll
  <2>3. CASE ~CreateWorktree(a) /\ ~CommitWorktreeChanges(a)
    BY <2>3 DEF CommitDelegation, QueueChild, StartChild, EditWorktree, Conclude, Abandon,
       CleanupAgentWorktree, MarkRetired, ReportToParent, WakeParent, GitVars
  <2> QED BY <2>1, <2>2, <2>3
<1>3. place' = place \/ \E q \in AgentPlace \ (Forwarding \union Joining) : MovesTo(a, q)
  BY DEF CreateWorktree, CommitDelegation, QueueChild, StartChild, EditWorktree,
     CommitWorktreeChanges, Conclude, Abandon, CleanupAgentWorktree, MarkRetired, ReportToParent,
     WakeParent, AgentPlace, Delegating, Completing, Ending, Forwarding, Joining
<1>4. \A b \in Agent : place'[b] \in Forwarding \union Joining => place'[b] = place[b]
  BY <1>3 DEF MovesTo, MergeInv, DelegationTypeOK
<1>5. \A b \in Agent : /\ branch'[b] \subseteq branch[b] \union main \union {b}
                       /\ place[b] \in Forwarding \union Joining => branch'[b] = branch[b]
  BY <1>2 DEF MergeInv, DelegationTypeOK, Forwarding, Joining
<1> QED BY <1>1, <1>4, <1>5, NoMerge

(* The analysis finds work on the branch, which is the agent's own unless  *)
(* HEAD has lost some, and remembers the HEAD it compared with.            *)
LEMMA AnalysisKeepsMerge ==
  ASSUME MergeInv, DelegationTypeOK', NEW a \in Agent, MergeAnalysis(a)
  PROVE  MergeInv'
<1>1. UNCHANGED <<worktree, branch, main, merged, overtaken>>
  BY DEF MergeAnalysis
<1>2. /\ \A b \in Agent \ {a} : place'[b] = place[b] /\ seen'[b] = seen[b]
      /\ place'[a] \in Forwarding \union Joining => ~(branch[a] \subseteq main)
      /\ place'[a] \in Forwarding => main \subseteq branch[a] /\ seen'[a] = main
  <2>1. CASE branch[a] \subseteq main
    <3>1. \E q \in {"cleaning", "endCleaning"} : MovesTo(a, q)
      BY <2>1 DEF MergeAnalysis, AfterMerge
    <3>2. /\ \A b \in Agent \ {a} : place'[b] = place[b] /\ seen'[b] = seen[b]
          /\ place'[a] \in {"cleaning", "endCleaning"}
      BY <3>1 DEF MergeAnalysis, MovesTo, MergeInv, DelegationTypeOK
    <3> QED BY <3>2 DEF Forwarding, Joining
  <2>2. CASE ~(branch[a] \subseteq main) /\ main \subseteq branch[a]
    <3>1. \E q \in Forwarding : MovesTo(a, q)
      BY <2>2 DEF MergeAnalysis, Forwarding
    <3>2. /\ \A b \in Agent \ {a} : place'[b] = place[b] /\ seen'[b] = seen[b]
          /\ seen'[a] = main
      BY <2>2, <3>1 DEF MergeAnalysis, MovesTo, MergeInv, DelegationTypeOK
    <3> QED BY <2>2, <3>2
  <2>3. CASE ~(branch[a] \subseteq main) /\ ~(main \subseteq branch[a])
    <3>1. \E q \in Joining : MovesTo(a, q)
      BY <2>3 DEF MergeAnalysis, Joining
    <3>2. /\ \A b \in Agent \ {a} : place'[b] = place[b] /\ seen'[b] = seen[b]
          /\ place'[a] \in Joining
      BY <3>1 DEF MergeAnalysis, MovesTo, MergeInv, DelegationTypeOK
    <3> QED BY <2>3, <3>2 DEF Joining, Forwarding
  <2> QED BY <2>1, <2>2, <2>3
<1>3. ~(branch[a] \subseteq main) => a \in branch[a] \/ overtaken
  BY DEF MergeInv, OwnWorkOnly
<1>4. MergesOwnWork'
  BY <1>1, <1>2, <1>3 DEF MergeInv, MergesOwnWork
<1>5. OwnWorkOnly' /\ MergedStaysMerged'
  BY <1>1 DEF MergeInv, OwnWorkOnly, MergedStaysMerged
<1> QED BY <1>4, <1>5 DEF MergeInv

(* HEAD becomes the branch: it loses nothing if it is still the HEAD that  *)
(* was looked at, and otherwise the step says so itself (overtaken).       *)
LEMMA FastForwardKeepsMerge ==
  ASSUME MergeInv, DelegationTypeOK', NEW a \in Agent, FastForward(a)
  PROVE  MergeInv'
<1>1. /\ main' = branch[a] /\ merged' = merged \union {a} /\ UNCHANGED branch
      /\ overtaken' = (overtaken \/ main # seen[a])
      /\ place[a] \in Forwarding
  BY DEF FastForward, Forwarding
<1>2. \A b \in Agent : place'[b] \in Forwarding \union Joining =>
                        place'[b] = place[b] /\ seen'[b] = seen[b]
  <2>1. \E q \in {"cleaning", "endCleaning"} : MovesTo(a, q)
    BY DEF FastForward, AfterMerge
  <2> QED BY <2>1 DEF FastForward, MovesTo, MergeInv, DelegationTypeOK, Forwarding, Joining
<1>3. MergesOwnWork'
  BY <1>1, <1>2 DEF MergeInv, MergesOwnWork, Forwarding, Joining
<1>4. ASSUME ~overtaken' PROVE main \subseteq main' /\ a \in main'
  BY <1>1, <1>4 DEF MergeInv, MergesOwnWork
<1>5. OwnWorkOnly' /\ MergedStaysMerged'
  BY <1>1, <1>4 DEF MergeInv, OwnWorkOnly, MergedStaysMerged
<1> QED BY <1>3, <1>5 DEF MergeInv

LEMMA JoinKeepsMerge ==
  ASSUME MergeInv, DelegationTypeOK', NEW a \in Agent, JoinCommits(a)
  PROVE  MergeInv'
<1>1. UNCHANGED <<branch, overtaken>> /\ place[a] \in Joining
  BY DEF JoinCommits, Joining
<1>2. \A b \in Agent : place'[b] \in Forwarding \union Joining =>
                        place'[b] = place[b] /\ seen'[b] = seen[b]
  <2>1. \E q \in {"cleaning", "endCleaning", "gone"} : MovesTo(a, q)
    BY DEF JoinCommits, AfterMerge
  <2> QED BY <2>1 DEF JoinCommits, MovesTo, MergeInv, DelegationTypeOK, Forwarding, Joining
<1>3. MergesOwnWork'
  BY <1>1, <1>2 DEF MergeInv, MergesOwnWork, Forwarding, Joining
<1>4. \/ main' = main \union branch[a] /\ merged' = merged \union {a}
      \/ UNCHANGED <<main, merged>>
  BY DEF JoinCommits
<1>5. a \in branch[a] \/ overtaken
  BY <1>1 DEF MergeInv, MergesOwnWork
<1>6. OwnWorkOnly' /\ MergedStaysMerged'
  BY <1>1, <1>4, <1>5 DEF MergeInv, OwnWorkOnly, MergedStaysMerged
<1> QED BY <1>3, <1>6 DEF MergeInv

LEMMA OthersKeepMerge ==
  ASSUME MergeInv, DelegationTypeOK', RootEnds \/ StartRoot \/ Outage \/ UNCHANGED delegationVars
  PROVE  MergeInv'
<1>1. UNCHANGED <<branch, main, merged, overtaken>>
  BY DEF RootEnds, StartRoot, Outage, delegationVars, GitVars
<1>2. \A b \in Agent : place'[b] \in Forwarding \union Joining =>
                        place'[b] = place[b] /\ seen'[b] = seen[b]
  BY DEF RootEnds, StartRoot, Outage, delegationVars, GitVars, Forwarding, Joining
<1> QED BY <1>1, <1>2, NoMerge

(* As long as no fast-forward has overwritten a newer HEAD, HEAD only      *)
(* grows, and branches hold nothing but HEAD and their agent's own work.   *)
THEOREM MergesStayInv == DelegationSpec => []MergeInv
<1>1. MergeInv /\ [DelegationNext]_delegationVars => MergeInv'
  <2> SUFFICES ASSUME MergeInv, [DelegationNext]_delegationVars PROVE MergeInv'
    OBVIOUS
  <2>1. DelegationTypeOK'
    BY DelegationStepTypeOK DEF MergeInv
  <2> QED
    BY <2>1, QuietStepsKeepMerge, AnalysisKeepsMerge, FastForwardKeepsMerge, JoinKeepsMerge,
       OthersKeepMerge DEF DelegationNext, DelegationStep
<1> QED BY <1>1, MergeInit, PTL DEF DelegationSpec

(* What merge_agent_branch reported as merged stays in the history of the  *)
(* project, however the merges of other agents, crashes and restarts fall, *)
(* except after the one overwriting fast-forward that the model names.     *)
THEOREM MergesAreKept == DelegationSpec => []MergedStaysMerged
<1>1. MergeInv => MergedStaysMerged
  BY DEF MergeInv
<1> QED BY <1>1, MergesStayInv, PTL

---------------------------------------------------------------------------
(*************************************************************************)
(* Proofs about Locks, for any holders, keys and times to live.  That two  *)
(* holders never believe in one lock is not inductive: what is, is that    *)
(* the row of a lock stands behind every belief (LeaseIsBacked), because a *)
(* row has one holder.                                                     *)
(*************************************************************************)

LocksInv == LocksTypeOK /\ LeaseIsBacked

(* A row that has not expired survives the deletion of the expired ones,   *)
(* which is the first statement of an acquisition and all of a purge.      *)
LEMMA UnexpiredRow ==
  ASSUME LocksTypeOK, NEW k \in Key
  PROVE  /\ Unexpired(locks) \in [Key -> [holder: SUBSET Holder, expires: Nat]]
         /\ Unexpired(locks)[k] = IF locks[k].expires < clock THEN NoRow ELSE locks[k]
  BY DEF LocksTypeOK, Unexpired, NoRow

LEMMA AcquireKeepsInv ==
  ASSUME LocksInv, NEW k \in Key, NEW h \in Holder, TryAcquire(k, h)
  PROVE  LocksInv'
<1>1. PICK ttl \in Ttl :
        LET rows == Unexpired(locks)
            mine == rows[k].holder \subseteq {h}
        IN /\ locks' = IF mine THEN [rows EXCEPT ![k] = [holder |-> {h}, expires |-> clock + ttl]]
                               ELSE rows
           /\ Answered(k, h, IF mine THEN clock + ttl ELSE 0)
           /\ UNCHANGED <<clock, setBack>>
  BY DEF TryAcquire
<1> DEFINE rows == Unexpired(locks)
           mine == rows[k].holder \subseteq {h}
<1>2. ttl \in Nat /\ clock \in Nat /\ clock > 0
  BY LocksAssumption DEF LocksInv, LocksTypeOK
<1>3. rows \in [Key -> [holder: SUBSET Holder, expires: Nat]]
  BY UnexpiredRow DEF LocksInv
<1>a. lease \in [Key -> [Holder -> Nat]] /\ lease' \in [Key -> [Holder -> Nat]]
  BY <1>1, <1>2 DEF LocksInv, LocksTypeOK, Answered
<1>b. locks' \in [Key -> [holder: SUBSET Holder, expires: Nat]]
  <2> HIDE DEF rows
  <2>1. CASE mine
    <3>1. [holder |-> {h}, expires |-> clock + ttl] \in [holder: SUBSET Holder, expires: Nat]
      BY <1>2
    <3> QED BY <1>1, <1>3, <2>1, <3>1 DEF rows
  <2>2. CASE ~mine
    BY <1>1, <1>3, <2>2 DEF rows
  <2> QED BY <2>1, <2>2
<1>4. LocksTypeOK'
  BY <1>1, <1>a, <1>b DEF LocksInv, LocksTypeOK
<1>5. ASSUME ~setBack', NEW l \in Key, NEW g \in Holder, Believes(l, g)'
      PROVE  locks'[l].holder = {g} /\ locks'[l].expires >= lease'[l][g]
  <2> HIDE DEF rows
  <2>1. CASE l = k /\ g = h
    <3>1. lease'[k][h] = IF mine THEN clock + ttl ELSE 0
      BY <1>1, <1>a DEF Answered, rows
    <3>2. mine /\ lease'[k][h] = clock + ttl
      BY <1>1, <1>2, <1>5, <2>1, <3>1 DEF Believes
    <3>3. locks' = [rows EXCEPT ![k] = [holder |-> {h}, expires |-> clock + ttl]]
      BY <1>1, <3>2 DEF rows
    <3>4. locks'[k] = [holder |-> {h}, expires |-> clock + ttl]
      BY <1>3, <3>3
    <3> QED BY <1>2, <2>1, <3>2, <3>4
  <2>2. CASE ~(l = k /\ g = h)
    <3>1. lease'[l][g] = lease[l][g]
      BY <1>1, <2>2 DEF Answered, LocksInv, LocksTypeOK
    <3>2. Believes(l, g) /\ ~setBack
      BY <1>1, <1>5, <3>1 DEF Believes
    <3>3. locks[l].holder = {g} /\ locks[l].expires >= lease[l][g]
      BY <3>2 DEF LocksInv, LeaseIsBacked
    <3>4. ~(locks[l].expires < clock)
      BY <1>2, <3>2, <3>3 DEF Believes, LocksInv, LocksTypeOK
    <3>5. rows[l] = locks[l]
      BY <3>4, UnexpiredRow DEF LocksInv, rows
    <3>6. locks'[l] = locks[l]
      BY <1>1, <1>3, <2>2, <3>3, <3>5 DEF rows
    <3> QED BY <3>1, <3>3, <3>6
  <2> QED BY <2>1, <2>2
<1> QED BY <1>4, <1>5 DEF LocksInv, LeaseIsBacked

LEMMA RenewKeepsInv ==
  ASSUME LocksInv, NEW k \in Key, NEW h \in Holder, Renew(k, h)
  PROVE  LocksInv'
<1>1. PICK ttl \in Ttl :
        LET mine == locks[k].holder = {h}
        IN /\ locks' = IF mine THEN [locks EXCEPT ![k].expires = clock + ttl] ELSE locks
           /\ Answered(k, h, IF mine THEN clock + ttl ELSE 0)
           /\ UNCHANGED <<clock, setBack>>
  BY DEF Renew
<1>2. ttl \in Nat /\ clock \in Nat /\ clock > 0
  BY LocksAssumption DEF LocksInv, LocksTypeOK
<1>3. LocksTypeOK'
  BY <1>1, <1>2 DEF LocksInv, LocksTypeOK, Answered
<1>4. ASSUME ~setBack', NEW l \in Key, NEW g \in Holder, Believes(l, g)'
      PROVE  locks'[l].holder = {g} /\ locks'[l].expires >= lease'[l][g]
  <2>1. CASE l = k /\ g = h
    BY <1>1, <1>2, <1>4, <2>1 DEF Answered, Believes, LocksInv, LocksTypeOK
  <2>2. CASE ~(l = k /\ g = h)
    <3>1. lease'[l][g] = lease[l][g] /\ Believes(l, g) /\ ~setBack
      BY <1>1, <1>4, <2>2 DEF Answered, Believes, LocksInv, LocksTypeOK
    <3>2. locks[l].holder = {g} /\ locks[l].expires >= lease[l][g]
      BY <3>1 DEF LocksInv, LeaseIsBacked
    <3> QED BY <1>1, <2>2, <3>1, <3>2 DEF LocksInv, LocksTypeOK
  <2> QED BY <2>1, <2>2
<1> QED BY <1>3, <1>4 DEF LocksInv, LeaseIsBacked

LEMMA ReleaseKeepsInv ==
  ASSUME LocksInv, NEW k \in Key, NEW h \in Holder, Release(k, h)
  PROVE  LocksInv'
<1>1. LocksTypeOK'
  BY DEF LocksInv, LocksTypeOK, Release, Answered, NoRow
<1>2. ASSUME ~setBack', NEW l \in Key, NEW g \in Holder, Believes(l, g)'
      PROVE  locks'[l].holder = {g} /\ locks'[l].expires >= lease'[l][g]
  <2>1. ~(l = k /\ g = h)
    BY <1>2 DEF Release, Answered, Believes, LocksInv, LocksTypeOK
  <2>2. lease'[l][g] = lease[l][g] /\ Believes(l, g) /\ ~setBack
    BY <1>2, <2>1 DEF Release, Answered, Believes, LocksInv, LocksTypeOK
  <2>3. locks[l].holder = {g} /\ locks[l].expires >= lease[l][g]
    BY <2>2 DEF LocksInv, LeaseIsBacked
  <2> QED BY <2>1, <2>2, <2>3 DEF Release, LocksInv, LocksTypeOK
<1> QED BY <1>1, <1>2 DEF LocksInv, LeaseIsBacked

LEMMA PurgeKeepsInv ==
  ASSUME LocksInv, PurgeExpired
  PROVE  LocksInv'
<1>1. LocksTypeOK'
  BY DEF LocksInv, LocksTypeOK, PurgeExpired, Unexpired, NoRow
<1>2. ASSUME ~setBack', NEW l \in Key, NEW g \in Holder, Believes(l, g)'
      PROVE  locks'[l].holder = {g} /\ locks'[l].expires >= lease'[l][g]
  <2>1. lease' = lease /\ Believes(l, g) /\ ~setBack
    BY <1>2 DEF PurgeExpired, Believes
  <2>2. locks[l].holder = {g} /\ locks[l].expires >= lease[l][g]
    BY <2>1 DEF LocksInv, LeaseIsBacked
  <2>3. ~(locks[l].expires < clock)
    BY <2>1, <2>2 DEF Believes, LocksInv, LocksTypeOK
  <2>4. locks'[l] = locks[l]
    BY <2>3, UnexpiredRow DEF LocksInv, PurgeExpired
  <2> QED BY <2>1, <2>2, <2>4
<1> QED BY <1>1, <1>2 DEF LocksInv, LeaseIsBacked

(* Time that passes takes beliefs away, and a clock set back is exempted.  *)
LEMMA ClockKeepsInv ==
  ASSUME LocksInv, Tick \/ SetBack \/ UNCHANGED lockVars
  PROVE  LocksInv'
<1>1. CASE Tick
  BY <1>1 DEF Tick, LocksInv, LocksTypeOK, LeaseIsBacked, Believes
<1>2. CASE SetBack
  BY <1>2 DEF SetBack, LocksInv, LocksTypeOK, LeaseIsBacked
<1>3. CASE UNCHANGED lockVars
  BY <1>3 DEF lockVars, LocksInv, LocksTypeOK, LeaseIsBacked, Believes
<1> QED BY <1>1, <1>2, <1>3

(* Whoever was told that it has a lock has its row until the time it was   *)
(* told: the types and LeaseIsBacked are one inductive invariant.          *)
THEOREM LeasesAreBacked == LocksSpec => []LocksInv
<1>1. LocksInit => LocksInv
  <2> SUFFICES ASSUME LocksInit PROVE LocksInv
    OBVIOUS
  <2>0. NoRow \in [holder: SUBSET Holder, expires: Nat] /\ 0 \in Nat
    BY DEF NoRow
  <2>1. LocksTypeOK
    <3>1. locks \in [Key -> [holder: SUBSET Holder, expires: Nat]]
      BY <2>0 DEF LocksInit
    <3>2. lease \in [Key -> [Holder -> Nat]]
      BY <2>0 DEF LocksInit
    <3>3. clock \in Nat \ {0}
      BY DEF LocksInit
    <3>4. setBack \in BOOLEAN
      BY Zenon DEF LocksInit
    <3> QED BY <3>1, <3>2, <3>3, <3>4 DEF LocksTypeOK
  <2>2. \A k \in Key, h \in Holder : ~Believes(k, h)
    BY DEF LocksInit, Believes
  <2> QED BY <2>1, <2>2 DEF LocksInv, LeaseIsBacked
<1>2. LocksInv /\ [LocksNext]_lockVars => LocksInv'
  BY AcquireKeepsInv, RenewKeepsInv, ReleaseKeepsInv, PurgeKeepsInv, ClockKeepsInv DEF LocksNext
<1> QED BY <1>1, <1>2, PTL DEF LocksSpec

(* Two holders never believe at a time that they have one lock, while      *)
(* nobody sets the clock back: lock_repo.rs keeps its mutual exclusion     *)
(* although expired rows are taken over, renewed late and purged.          *)
THEOREM LocksAreExclusive == LocksSpec => []LeaseIsExclusive
<1>1. LocksInv => LeaseIsExclusive
  BY DEF LocksInv, LeaseIsBacked, LeaseIsExclusive
<1> QED BY <1>1, LeasesAreBacked, PTL

---------------------------------------------------------------------------
(*************************************************************************)
(* The verdict of a swarm, for any number of tasks and workers: the poll   *)
(* that ends the wait before its time has read a final status of every     *)
(* execution, since it has counted as many as there are tasks.             *)
(*************************************************************************)

AllEnded == \A i \in Task : lastRead[i] \in Final

VerdictInv ==
  /\ swarm = "judged" => late \/ AllEnded
  /\ swarm # "over" => verdict = "none"
  /\ VerdictIsFounded

(* A poll that counts as many ended executions as there are tasks has seen *)
(* all of them end.                                                        *)
LEMMA PollKeepsVerdict ==
  ASSUME VerdictInv, Poll
  PROVE  VerdictInv'
<1>1. swarm = "waiting" /\ verdict = "none" /\ UNCHANGED <<next, late, verdict>>
  BY DEF Poll, VerdictInv
<1>2. counted' = Tasks => AllEnded'
  <2>1. CASE /\ lastRead' = status
             /\ counted' = Cardinality({i \in Task : status[i] \in Final})
    <3>1. counted' = Tasks => {i \in Task : status[i] \in Final} = Task
      <4>1. IsFiniteSet(Task) /\ Cardinality(Task) = Tasks
        BY FS_Interval, SwarmAssumption DEF Task
      <4> QED BY <2>1, <4>1, FS_Subset
    <3> QED BY <2>1, <3>1 DEF AllEnded
  <2>2. CASE UNCHANGED lastRead /\ counted' = 0
    BY <2>2, SwarmAssumption DEF AllEnded, Task
  <2> QED BY <2>1, <2>2 DEF Poll
<1>3. swarm' = IF counted' = Tasks \/ late THEN "judged" ELSE "waiting"
  BY DEF Poll
<1> QED BY <1>1, <1>2, <1>3 DEF VerdictInv, VerdictIsFounded

LEMMA ReportKeepsVerdict ==
  ASSUME VerdictInv, Report
  PROVE  VerdictInv'
<1> DEFINE all == Tasks > 0 /\ \A i \in Task : lastRead[i] = "Completed"
<1>1. /\ swarm = "judged" /\ swarm' = "over" /\ UNCHANGED <<lastRead, late>>
      /\ verdict' = IF all THEN "all completed" ELSE IF late THEN "timeout" ELSE "some failed"
  BY DEF Report, Waited
<1>2. late \/ AllEnded
  BY <1>1 DEF VerdictInv
<1>3. VerdictIsFounded'
  BY <1>1, <1>2 DEF VerdictIsFounded, AllEnded
<1> QED BY <1>1, <1>3 DEF VerdictInv

(* The command outside of its wait.                                        *)
LEMMA CommandKeepsVerdict ==
  ASSUME VerdictInv,
         \/ StartDebate \/ GetPermit \/ Speak \/ EndDebate
         \/ Announce \/ GiveUp \/ SpawnWorkerExecution \/ BeginWait
  PROVE  VerdictInv'
<1>1. /\ swarm \notin {"over", "judged"} /\ swarm' # "judged" /\ UNCHANGED <<lastRead, late>>
      /\ swarm' # "over" => UNCHANGED verdict
      /\ verdict' \in {verdict, "error", "consensus"}
  BY DEF StartDebate, GetPermit, Speak, EndDebate, Announce, GiveUp, SpawnWorkerExecution,
         BeginWait, Waited
<1>2. verdict = "none"
  BY <1>1 DEF VerdictInv
<1> QED BY <1>1, <1>2 DEF VerdictInv, VerdictIsFounded

LEMMA TimeoutKeepsVerdict ==
  ASSUME VerdictInv, Timeout
  PROVE  VerdictInv'
BY DEF VerdictInv, VerdictIsFounded, Timeout

(* What the executions do is not looked at again.                          *)
LEMMA RunsKeepVerdict ==
  ASSUME VerdictInv, NEW i \in Task, RunStarts(i) \/ RunClaims(i) \/ RunEnds(i) \/ Kill(i)
  PROVE  VerdictInv'
<1>1. UNCHANGED <<swarm, verdict, lastRead, late>>
  BY DEF RunStarts, RunClaims, RunEnds, Kill, Waited
<1> QED BY <1>1 DEF VerdictInv, VerdictIsFounded, AllEnded

(* run_supervisor and run_fanout give a verdict other than a timeout only  *)
(* of executions that had all ended, for any number of tasks.              *)
THEOREM VerdictsAreFounded == SwarmSpec => []VerdictIsFounded
<1>1. SwarmInit => VerdictInv
  BY DEF SwarmInit, VerdictInv, VerdictIsFounded
<1>2. VerdictInv /\ [SwarmNext]_swarmVars => VerdictInv'
  <2>1. VerdictInv /\ UNCHANGED swarmVars => VerdictInv'
    <3> SUFFICES ASSUME VerdictInv, UNCHANGED swarmVars PROVE VerdictInv'
      OBVIOUS
    <3>1. UNCHANGED <<swarm, verdict, lastRead, late>>
      BY DEF swarmVars
    <3> QED BY <3>1 DEF VerdictInv, VerdictIsFounded, AllEnded
  <2> QED
    BY <2>1, PollKeepsVerdict, ReportKeepsVerdict, CommandKeepsVerdict, TimeoutKeepsVerdict,
       RunsKeepVerdict DEF SwarmNext
<1>3. VerdictInv => VerdictIsFounded
  BY DEF VerdictInv
<1> QED BY <1>1, <1>2, <1>3, PTL DEF SwarmSpec

-----------------------------------------------------------------------------
(* Where the command is bounds the task it dispatches, and the round it is *)
(* in.                                                                     *)
CommandCounts ==
  /\ swarm = "queue" => next \in Task
  /\ swarm = "dispatch" => next \in 1..(Tasks + 1)
  /\ swarm \in {"permit", "proponent", "critic"} => next \in 1..Rounds

SwarmInv == SwarmTypeOK /\ CommandCounts

LEMMA CommandKeepsTypes ==
  ASSUME SwarmInv,
         \/ StartDebate \/ GetPermit \/ Speak \/ EndDebate \/ Announce \/ GiveUp \/ BeginWait
         \/ Timeout \/ Report
  PROVE  SwarmInv'
<1>1. UNCHANGED Dispatched /\ UNCHANGED <<lastRead, counted>>
  BY DEF StartDebate, GetPermit, Speak, EndDebate, Announce, GiveUp, BeginWait, Timeout, Report,
         Waited
<1>2. /\ swarm' \in {"idle", "plan", "dispatch", "queue", "waiting", "judged", "permit",
                     "proponent", "critic", "judge", "over"}
      /\ next' \in 0..(Tasks + Rounds + 1) /\ CommandCounts'
  <2>0. /\ Tasks \in Nat /\ Rounds \in 1..10 /\ next \in 0..(Tasks + Rounds + 1)
        /\ 1 \in 1..(Tasks + 1) /\ 1 \in 1..Rounds /\ 1 \in 0..(Tasks + Rounds + 1)
    <3>1. Tasks \in Nat /\ Rounds \in 1..10
      BY SwarmAssumption
    <3>2. next \in 0..(Tasks + Rounds + 1)
      BY DEF SwarmInv, SwarmTypeOK
    <3> QED BY <3>1, <3>2
  <2>1. CASE StartDebate \/ GetPermit \/ Announce
    BY <2>0, <2>1 DEF StartDebate, GetPermit, Announce, SwarmInv, CommandCounts
  <2>2. CASE Speak
    BY <2>0, <2>2 DEF Speak, SwarmInv, CommandCounts
  <2>3. CASE EndDebate \/ GiveUp \/ BeginWait \/ Report
    BY <2>0, <2>3 DEF EndDebate, GiveUp, BeginWait, Report, CommandCounts
  <2>4. CASE Timeout
    BY <2>0, <2>4 DEF Timeout, SwarmInv, SwarmTypeOK, CommandCounts
  <2> QED BY <2>1, <2>2, <2>3, <2>4
<1>3. /\ late' \in BOOLEAN /\ holdsPermit' \in BOOLEAN
      /\ verdict' \in {"none", "all completed", "timeout", "some failed", "consensus", "error"}
  BY DEF StartDebate, GetPermit, Speak, EndDebate, Announce, GiveUp, BeginWait, Timeout, Report,
         Waited, SwarmInv, SwarmTypeOK
<1> QED BY <1>1, <1>2, <1>3 DEF SwarmInv, SwarmTypeOK, Dispatched

LEMMA SpawnKeepsTypes == ASSUME SwarmInv, SpawnWorkerExecution PROVE SwarmInv'
<1>1. CASE /\ swarm = "dispatch" /\ next <= Tasks /\ swarm' = "queue"
           /\ status' = [status EXCEPT ![next] = "Pending"]
           /\ inbox' = inbox \union {next}
           /\ UNCHANGED <<next, asking>>
  <2>1. next \in Task
    BY <1>1, SwarmAssumption DEF SwarmInv, CommandCounts, Task
  <2> QED
    BY <1>1, <2>1 DEF SpawnWorkerExecution, SwarmInv, SwarmTypeOK, CommandCounts, Status, Waited
<1>2. CASE /\ swarm = "queue" /\ swarm' = "dispatch" /\ next' = next + 1
           /\ asking' = asking \union {next}
           /\ UNCHANGED <<status, inbox>>
  <2>1. next \in Task /\ next' \in 1..(Tasks + 1) /\ next' \in 0..(Tasks + Rounds + 1)
    BY <1>2, SwarmAssumption DEF SwarmInv, CommandCounts, Task
  <2> QED
    BY <1>2, <2>1 DEF SpawnWorkerExecution, SwarmInv, SwarmTypeOK, CommandCounts, Waited
<1> QED BY <1>1, <1>2 DEF SpawnWorkerExecution

LEMMA PollKeepsTypes == ASSUME SwarmInv, Poll PROVE SwarmInv'
<1>1. IsFiniteSet(Task) /\ Cardinality(Task) = Tasks
  BY FS_Interval, SwarmAssumption DEF Task
<1>2. ASSUME NEW S \in SUBSET Task PROVE Cardinality(S) \in 0..Tasks
  <2>1. Cardinality(S) \in Nat /\ Cardinality(S) <= Tasks
    BY <1>1, FS_Subset, FS_CardinalityType
  <2> QED BY <2>1, SwarmAssumption
<1>3. counted' \in 0..Tasks
  BY <1>2, SwarmAssumption DEF Poll
<1> QED BY <1>3 DEF Poll, SwarmInv, SwarmTypeOK, CommandCounts, Dispatched

LEMMA RunsKeepTypes ==
  ASSUME SwarmInv, NEW i \in Task, RunStarts(i) \/ RunClaims(i) \/ RunEnds(i) \/ Kill(i)
  PROVE  SwarmInv'
<1>1. UNCHANGED <<swarm, next, verdict, holdsPermit, lastRead, counted, late>>
  BY DEF RunStarts, RunClaims, RunEnds, Kill, Waited
<1>2. status' \in [Task -> Status] /\ asking' \subseteq Task
  BY DEF RunStarts, RunClaims, RunEnds, Kill, SwarmInv, SwarmTypeOK, Status, Final
<1>3. ClaimNext(i) => inbox' \subseteq Task /\ taken' \in [Task -> 0..Tasks]
  <2>1. i \in 0..Tasks
    BY SwarmAssumption DEF Task
  <2> QED BY <2>1 DEF ClaimNext, SwarmInv, SwarmTypeOK
<1>4. inbox' \subseteq Task /\ taken' \in [Task -> 0..Tasks]
  BY <1>3 DEF RunStarts, RunClaims, RunEnds, Kill, SwarmInv, SwarmTypeOK
<1> QED BY <1>1, <1>2, <1>4 DEF SwarmInv, SwarmTypeOK, CommandCounts

(* A command's counters stay within its tasks and its rounds, and no       *)
(* execution it follows is in a state of its own, whatever ends when.      *)
THEOREM SwarmTypes == SwarmSpec => []SwarmTypeOK
<1>1. SwarmInit => SwarmInv
  <2> SUFFICES ASSUME SwarmInit PROVE SwarmInv
    OBVIOUS
  <2>1. 0 \in 0..(Tasks + Rounds + 1) /\ 0 \in 0..Tasks
    BY SwarmAssumption
  <2>2. /\ status \in [Task -> Status] /\ lastRead \in [Task -> Status]
        /\ taken \in [Task -> 0..Tasks]
    <3>1. "none" \in Status
      BY DEF Status
    <3> QED BY <2>1, <3>1 DEF SwarmInit
  <2>3. CommandCounts
    BY DEF SwarmInit, CommandCounts
  <2> QED BY <2>1, <2>2, <2>3 DEF SwarmInit, SwarmInv, SwarmTypeOK
<1>2. SwarmInv /\ [SwarmNext]_swarmVars => SwarmInv'
  <2>1. SwarmInv /\ UNCHANGED swarmVars => SwarmInv'
    BY DEF swarmVars, SwarmInv, SwarmTypeOK, CommandCounts
  <2> QED
    BY <2>1, CommandKeepsTypes, SpawnKeepsTypes, PollKeepsTypes, RunsKeepTypes DEF SwarmNext
<1>3. SwarmInv => SwarmTypeOK
  BY DEF SwarmInv
<1> QED BY <1>1, <1>2, <1>3, PTL DEF SwarmSpec

---------------------------------------------------------------------------
(* Workflow. What holds at every step of process_dag is a count: a node  *)
(* was started as often as it was entered, but for the times it waits in *)
(* the list of active nodes, and a task asked for an agent whenever it   *)
(* was started, but for the node the engine is at (FlowCounts). A        *)
(* completed run has nothing waiting.                                    *)

LEMMA EdgesAreEdges ==
  ASSUME NEW k \in 1..Len(Edges)
  PROVE  Edges[k] \in Edge /\ Edges[k] \in [from: Node, to: Node, when: When]
<1> DEFINE R == [from: Node, to: Node, when: When]
<1>1. Edges \in Seq(R)
  BY WorkflowAssumption
<1>2. k \in DOMAIN Edges /\ Edges[k] \in R
  <2> HIDE DEF R
  <2> QED BY <1>1, SeqElement
<1> QED BY <1>2 DEF Edge, Range

LEMMA EdgesAreTyped ==
  ASSUME NEW e \in Edge
  PROVE  e.from \in Node /\ e.to \in Node
<1>1. Edges \in Seq([from: Node, to: Node, when: When])
  BY WorkflowAssumption
<1>2. PICK k \in DOMAIN Edges : e = Edges[k]
  BY DEF Edge, Range
<1>3. k \in 1..Len(Edges)
  BY <1>1, <1>2
<1> QED BY <1>2, <1>3, EdgesAreEdges

(* What Targets returns is a sequence of nodes that an edge leads to.      *)
LEMMA TargetsFollowEdges ==
  ASSUME NEW n \in Node, NEW conds
  PROVE  /\ Targets(n, conds) \in Seq(Node)
         /\ \A k \in DOMAIN Targets(n, conds) :
              \E e \in Edge : e.from = n /\ e.to = Targets(n, conds)[k]
<1> DEFINE N == Len(Edges)
           T == {s \in Seq(Node) : \A k \in DOMAIN s : \E e \in Edge : e.from = n /\ e.to = s[k]}
           Takes(k) == Edges[k].from = n /\ Edges[k].when \in conds
           step == [p \in (1..N) \X T |-> IF Takes(p[1]) THEN Append(p[2], Edges[p[1]].to) ELSE p[2]]
           Rec(f) == [k \in 0..N |-> IF k = 0 THEN <<>>
                        ELSE IF Takes(k) THEN Append(f[k-1], Edges[k].to) ELSE f[k-1]]
<1>1. N \in Nat /\ <<>> \in T
  BY WorkflowAssumption
<1>2. ASSUME NEW k \in 1..N, NEW s \in T, Takes(k)
      PROVE  Append(s, Edges[k].to) \in T
  <2>1. Edges[k] \in Edge /\ Edges[k].from = n /\ Edges[k].to \in Node
    <3>1. Edges[k] \in Edge /\ Edges[k] \in [from: Node, to: Node, when: When]
      BY <1>1, EdgesAreEdges
    <3> QED BY <1>2, <3>1
  <2>2. ASSUME NEW i \in DOMAIN Append(s, Edges[k].to)
        PROVE  \E e \in Edge : e.from = n /\ e.to = Append(s, Edges[k].to)[i]
    <3>1. CASE i = Len(s) + 1
      BY <2>1, <3>1
    <3>2. CASE i # Len(s) + 1
      <4>1. i \in DOMAIN s /\ Append(s, Edges[k].to)[i] = s[i]
        BY <2>1, <2>2, <3>2
      <4> QED BY <4>1
    <3> QED BY <3>1
  <2>3. Append(s, Edges[k].to) \in Seq(Node)
    BY <2>1
  <2> QED BY <2>2, <2>3
<1>3. step \in [(1..N) \X T -> T]
  <2>1. ASSUME NEW p \in (1..N) \X T
        PROVE  (IF Takes(p[1]) THEN Append(p[2], Edges[p[1]].to) ELSE p[2]) \in T
    <3> HIDE DEF T
    <3> QED BY <1>2
  <2> HIDE DEF T, Takes
  <2> QED BY <2>1
<1>4. PICK f \in [0..N -> T] : f[0] = <<>> /\ \A k \in 1..N : f[k] = step[<<k, f[k-1]>>]
  <2> HIDE DEF N, T, step
  <2>1. PICK f : Recursive(f, N, T, <<>>, step)
    BY <1>1, <1>3, RecursionExists
  <2> QED BY <2>1 DEF Recursive
<1>5. f = Rec(f)
  <2>1. ASSUME NEW k \in 1..N PROVE f[k] = IF Takes(k) THEN Append(f[k-1], Edges[k].to) ELSE f[k-1]
    <3>1. <<k, f[k-1]>> \in (1..N) \X T
      <4>1. k - 1 \in 0..N
        BY <1>1
      <4> HIDE DEF T, N
      <4> QED BY <1>4, <4>1
    <3> HIDE DEF T, Takes
    <3> QED BY <1>4, <3>1
  <2> HIDE DEF T, Takes, N
  <2>2. \A k \in 0..N : f[k] = Rec(f)[k]
    <3>1. ASSUME NEW k \in 0..N PROVE f[k] = Rec(f)[k]
      <4>1. k = 0 \/ k \in 1..N
        BY <1>1
      <4>2. Rec(f)[k] = IF k = 0 THEN <<>>
                        ELSE IF Takes(k) THEN Append(f[k-1], Edges[k].to) ELSE f[k-1]
        OBVIOUS
      <4>3. CASE k = 0
        BY <1>4, <4>2, <4>3
      <4>4. CASE k # 0
        BY <4>1, <4>2, <4>4, <2>1
      <4> QED BY <4>3, <4>4
    <3> QED BY <3>1
  <2>3. f = [k \in 0..N |-> f[k]] /\ Rec(f) = [k \in 0..N |-> Rec(f)[k]]
    BY <1>4
  <2> QED BY <2>2, <2>3
<1> DEFINE g == CHOOSE h : h = Rec(h)
<1>6. g = Rec(g)
  <2> HIDE DEF Rec
  <2> QED BY <1>5
<1>7. \A k \in 0..N : g[k] \in T
  <2> DEFINE S == {k \in Nat : k <= N => g[k] \in T}
  <2>1. g[0] = <<>> /\ \A k \in 1..N : g[k] = IF Takes(k) THEN Append(g[k-1], Edges[k].to) ELSE g[k-1]
    <3> HIDE DEF g, Takes, N
    <3>1. \A k \in 0..N : g[k] = IF k = 0 THEN <<>>
                        ELSE IF Takes(k) THEN Append(g[k-1], Edges[k].to) ELSE g[k-1]
      BY <1>6
    <3>2. 0 \in 0..N /\ \A k \in 1..N : k \in 0..N /\ k # 0
      BY <1>1
    <3> QED BY <3>1, <3>2
  <2> HIDE DEF g, T, N, Takes
  <2>2. 0 \in S
    BY <1>1, <2>1
  <2>3. ASSUME NEW k \in Nat, k \in S PROVE k + 1 \in S
    <3> SUFFICES ASSUME k + 1 <= N PROVE g[k+1] \in T
      OBVIOUS
    <3>1. g[k] \in T /\ k + 1 \in 1..N /\ (k + 1) - 1 = k
      BY <1>1, <2>3
    <3> QED BY <1>2, <2>1, <3>1
  <2>4. Nat \subseteq S
    <3> HIDE DEF S
    <3> QED BY <2>2, <2>3, SetInduction
  <2> QED BY <1>1, <2>4
<1>8. Targets(n, conds) = g[N]
  BY DEF Targets
<1> HIDE DEF g, N
<1> QED BY <1>1, <1>7, <1>8

-----------------------------------------------------------------------------
(* Workflow.  While a run is in its loop, what it has entered is what it   *)
(* has started and what still waits in active (FlowCounts): a run that is  *)
(* 'Completed' had nothing left there.  A run that has asked for a review  *)
(* never goes on (ReviewHolds).                                            *)
Waiting(f) == IF doing[f] \in {"node", "pausing"} THEN Tail(active[f]) ELSE active[f]
Here(f, n) == IF doing[f] = "node" /\ Head(active[f]) = n THEN 1 ELSE 0
Moving == {"loop", "checkpointed", "node", "pausing"}

FlowCounts(f) ==
  /\ doing[f] \in {"checkpointed", "node", "pausing"} => active[f] # <<>>
  /\ doing[f] = "node" => started[f][Head(active[f])] > 0
  /\ doing[f] \in Moving => flowRow[f] = "Running"
  /\ doing[f] \in Moving \/ flowRow[f] = "none" => \A n \in Node :
       /\ entered[f][n] = started[f][n] + Occurs(Waiting(f), n)
       /\ doing[f] # "pausing" /\ Graph[n] = "AgentTask" =>
            started[f][n] = asked[f][n] + Here(f, n)
  /\ flowRow[f] = "none" => active[f] = <<>> /\ doing[f] \notin Moving
  /\ flowRow[f] = "Completed" => doing[f] = "done"

Entered(f) ==
  \A n \in Node : entered[f][n] > 0 =>
    \/ n = Start
    \/ \E e \in Edge : /\ e.to = n /\ started[f][e.from] > 0
                       /\ Graph[e.from] = "HumanReview" => e.from \in permitted[f]

ReviewHolds(f) ==
  review[f].status # "none" =>
    doing[f] \notin {"loop", "checkpointed", "node"} /\ flowRow[f] \notin {"none", "Completed"}

WholeWhenDone(f) ==
  flowRow[f] = "Completed" =>
    /\ started[f] = entered[f]
    /\ \A n \in Node : Graph[n] = "AgentTask" => asked[f][n] = started[f][n]

FlowOK(f) == FlowCounts(f) /\ Entered(f) /\ ReviewHolds(f) /\ WholeWhenDone(f)

WorkflowInv == WorkflowTypeOK /\ \A f \in Flow : FlowOK(f)

(* A step of one run leaves the others as they are. *)
Unmoved(f) ==
  /\ flowRow'[f] = flowRow[f] /\ active'[f] = active[f] /\ doing'[f] = doing[f]
  /\ review'[f] = review[f] /\ asked'[f] = asked[f] /\ started'[f] = started[f]
  /\ entered'[f] = entered[f] /\ permitted'[f] = permitted[f]

LEMMA OthersKeepFlow ==
  ASSUME NEW f \in Flow, FlowOK(f), Unmoved(f)
  PROVE  FlowOK(f)'
BY DEF FlowOK, FlowCounts, Entered, ReviewHolds, WholeWhenDone, Waiting, Here, Unmoved

LEMMA FlowStepIsLocal ==
  ASSUME WorkflowTypeOK, NEW f \in Flow, FlowStep(f), NEW g \in Flow, g # f
  PROVE  Unmoved(g)
<1> USE DEF WorkflowTypeOK, Unmoved, FlowAt, Marks, FlowRow
<1>a. \A s, row, act : /\ flowRow' \in {flowRow, [flowRow EXCEPT ![f] = row]}
                      /\ active' \in {active, [active EXCEPT ![f] = act]}
                      /\ doing' \in {doing, [doing EXCEPT ![f] = s]}
        => flowRow'[g] = flowRow[g] /\ active'[g] = active[g] /\ doing'[g] = doing[g]
  OBVIOUS
<1>1. CASE StartFlow(f)
  BY <1>1 DEF StartFlow
<1>2. CASE EmitRunStarted(f)
  <2>1. /\ flowRow' \in {flowRow, [flowRow EXCEPT ![f] = "Running"]}
        /\ active' \in {active, [active EXCEPT ![f] = <<Start>>]}
        /\ \E s : doing' \in {doing, [doing EXCEPT ![f] = s]}
    <3> HIDE DEF WorkflowTypeOK
    <3> QED BY <1>2 DEF EmitRunStarted
  <2>2. entered'[g] = entered[g]
    BY <1>2 DEF EmitRunStarted
  <2> QED BY <1>2, <1>a, <2>1, <2>2 DEF EmitRunStarted
<1>3. CASE Checkpointed(f)
  BY <1>3 DEF Checkpointed
<1>4. CASE EmitNodeStarted(f)
  BY <1>4 DEF EmitNodeStarted
<1>5. CASE PassNode(f)
  BY <1>5 DEF PassNode, Complete, Enter
<1>6. CASE EndNode(f)
  BY <1>6 DEF EndNode, Complete, Enter
<1>7. CASE DecideNode(f)
  BY <1>7 DEF DecideNode, Complete, Enter
<1>8. CASE TaskNode(f)
  BY <1>8 DEF TaskNode, Complete, Enter
<1>9. CASE ReviewNode(f)
  BY <1>9 DEF ReviewNode
<1>10. CASE PauseRun(f)
  BY <1>10 DEF PauseRun
<1>11. CASE EmitFails(f)
  BY <1>11 DEF EmitFails
<1>12. CASE EmitRunCompleted(f)
  BY <1>12 DEF EmitRunCompleted
<1>13. CASE EmitRunFailed(f)
  BY <1>13 DEF EmitRunFailed
<1>14. CASE ResolveReview(f)
  <2>1. /\ flowRow' \in {flowRow, [flowRow EXCEPT ![f] = "Failed"]}
        /\ doing' \in {doing, [doing EXCEPT ![f] = "load"]} /\ active' = active
    <3> HIDE DEF WorkflowTypeOK
    <3> QED BY <1>14 DEF ResolveReview
  <2>2. review'[g] = review[g] /\ permitted'[g] = permitted[g]
    BY <1>14 DEF ResolveReview
  <2> QED BY <1>14, <2>1, <2>2 DEF ResolveReview
<1> QED BY <1>1, <1>2, <1>3, <1>4, <1>5, <1>6, <1>7, <1>8, <1>9, <1>10, <1>11, <1>12, <1>13,
           <1>14 DEF FlowStep

-----------------------------------------------------------------------------
(* The steps of one run. *)

LEMMA CompleteKeepsFlow ==
  ASSUME WorkflowInv, NEW f \in Flow, NEW conds, doing[f] = "node",
         Graph[Head(active[f])] # "HumanReview", Complete(f, conds),
         UNCHANGED <<flowRow, review, started, permitted, flowStops>>,
         asked' \in [Flow -> [Node -> Nat]],
         \A n \in Node : Graph[n] = "AgentTask" => started[f][n] = asked'[f][n]
  PROVE  WorkflowTypeOK' /\ FlowOK(f)'
<1> DEFINE h == Head(active[f])
           t == Targets(h, conds)
<1>0. WorkflowTypeOK /\ FlowOK(f)
  BY DEF WorkflowInv
<1>1. active[f] \in Seq(Node) /\ active[f] # <<>> /\ h \in Node /\ Tail(active[f]) \in Seq(Node)
  BY <1>0 DEF WorkflowTypeOK, FlowOK, FlowCounts
<1>2. t \in Seq(Node) /\ \A k \in DOMAIN t : \E e \in Edge : e.from = h /\ e.to = t[k]
  <2> HIDE DEF h
  <2> QED BY <1>1, TargetsFollowEdges
<1> HIDE DEF h, t
<1>3. \A n \in Node : Occurs(t, n) \in Nat
  BY <1>2, OccursIsFinite
<1>4. /\ marker' = [marker EXCEPT ![f] = <<>>] /\ doing' = [doing EXCEPT ![f] = "loop"]
      /\ active' = [active EXCEPT ![f] = Tail(active[f]) \o t]
      /\ entered' = [entered EXCEPT ![f] = [n \in Node |-> entered[f][n] + Occurs(t, n)]]
  BY DEF Complete, Enter, Marks, FlowAt, Occurs, h, t
<1>5. [n \in Node |-> entered[f][n] + Occurs(t, n)] \in [Node -> Nat]
  <2>1. entered[f] \in [Node -> Nat]
    BY <1>0 DEF WorkflowTypeOK
  <2> QED BY <1>3, <2>1
<1>6. Tail(active[f]) \o t \in Seq(Node)
  BY <1>1, <1>2
<1>7. WorkflowTypeOK'
  <2>1. entered' \in [Flow -> [Node -> Nat]]
    BY <1>0, <1>4, <1>5 DEF WorkflowTypeOK
  <2>2. active' \in [Flow -> Seq(Node)] /\ marker' \in [Flow -> Seq(Node)]
    <3>1. /\ active \in [Flow -> Seq(Node)] /\ marker \in [Flow -> Seq(Node)]
          /\ <<>> \in Seq(Node)
      BY <1>0 DEF WorkflowTypeOK
    <3> QED BY <1>4, <1>6, <3>1
  <2>3. doing' \in [Flow -> Doing]
    BY <1>0, <1>4 DEF WorkflowTypeOK, Doing
  <2> QED BY <1>0, <2>1, <2>2, <2>3 DEF WorkflowTypeOK
<1>8. /\ doing'[f] = "loop" /\ active'[f] = Tail(active[f]) \o t
      /\ \A n \in Node : entered'[f][n] = entered[f][n] + Occurs(t, n)
  BY <1>0, <1>4 DEF WorkflowTypeOK
<1>9. FlowCounts(f)'
  <2>1. flowRow[f] = "Running" /\ Waiting(f) = Tail(active[f]) /\ Waiting(f)' = active'[f]
    BY <1>0, <1>8 DEF FlowOK, FlowCounts, Waiting, Moving
  <2>2. ASSUME NEW n \in Node
        PROVE  /\ entered'[f][n] = started[f][n] + Occurs(active'[f], n)
               /\ Graph[n] = "AgentTask" => started[f][n] = asked'[f][n] + Here(f, n)'
    <3>1. Occurs(active'[f], n) = Occurs(Tail(active[f]), n) + Occurs(t, n)
      <4>1. Occurs(Tail(active[f]) \o t, n) = Occurs(Tail(active[f]), n) + Occurs(t, n)
        <5> DEFINE s == Tail(active[f])
        <5>1. s \in Seq(Node) /\ t \in Seq(Node)
          BY <1>1, <1>2
        <5> HIDE DEF s
        <5>2. Occurs(s \o t, n) = Occurs(s, n) + Occurs(t, n)
          BY <5>1, OccursInConcat
        <5> QED BY <5>2 DEF s
      <4> QED BY <1>8, <4>1
    <3>2. entered[f][n] = started[f][n] + Occurs(Tail(active[f]), n)
      BY <1>0, <2>1 DEF FlowOK, FlowCounts, Moving
    <3>3. Occurs(Tail(active[f]), n) \in Nat /\ started[f][n] \in Nat /\ asked'[f][n] \in Nat
      BY <1>0, <1>1, OccursIsFinite DEF WorkflowTypeOK
    <3>4. Here(f, n)' = 0
      BY <1>8 DEF Here
    <3> QED BY <1>3, <1>8, <3>1, <3>2, <3>3, <3>4
  <2> QED BY <1>8, <2>1, <2>2 DEF FlowCounts, Moving
<1>10. Entered(f)'
  <2> SUFFICES ASSUME NEW n \in Node, entered'[f][n] > 0, n # Start
               PROVE  \E e \in Edge :
                        /\ e.to = n /\ started'[f][e.from] > 0
                        /\ Graph[e.from] = "HumanReview" => e.from \in permitted'[f]
    BY DEF Entered
  <2>1. CASE entered[f][n] > 0
    BY <1>0, <2>1 DEF FlowOK, Entered
  <2>2. CASE ~(entered[f][n] > 0)
    <3>1. Occurs(t, n) # 0
      <4>1. entered[f][n] \in Nat
        BY <1>0 DEF WorkflowTypeOK
      <4> QED BY <1>3, <1>8, <2>2, <4>1
    <3>2. {k \in DOMAIN t : t[k] = n} # {}
      BY <3>1, FS_EmptySet DEF Occurs
    <3>3. PICK e \in Edge : e.from = h /\ e.to = n
      BY <1>2, <3>2
    <3>4. started[f][h] > 0 /\ Graph[h] # "HumanReview"
      BY <1>0 DEF FlowOK, FlowCounts, h
    <3> QED BY <3>3, <3>4
  <2> QED BY <2>1, <2>2
<1>11. ReviewHolds(f)' /\ WholeWhenDone(f)'
  BY <1>0, <1>8 DEF FlowOK, FlowCounts, ReviewHolds, WholeWhenDone, Moving
<1> QED BY <1>7, <1>9, <1>10, <1>11 DEF FlowOK

LEMMA NodeKeepsFlow ==
  ASSUME WorkflowInv, NEW f \in Flow, PassNode(f) \/ EndNode(f) \/ DecideNode(f) \/ TaskNode(f)
  PROVE  WorkflowTypeOK' /\ FlowOK(f)'
<1> DEFINE h == Head(active[f])
<1>0. WorkflowTypeOK /\ FlowOK(f)
  BY DEF WorkflowInv
<1>1. doing[f] = "node" /\ UNCHANGED <<flowRow, review, started, permitted, flowStops>>
      /\ Graph[h] # "HumanReview"
  BY DEF PassNode, EndNode, DecideNode, TaskNode
<1>2. \E conds : Complete(f, conds)
  BY Zenon DEF PassNode, EndNode, DecideNode, TaskNode
<1>3. h \in Node /\ active[f] # <<>>
  BY <1>0, <1>1 DEF WorkflowTypeOK, FlowOK, FlowCounts
<1>4. \A n \in Node : Graph[n] = "AgentTask" => started[f][n] = asked[f][n] + Here(f, n)
  BY <1>0, <1>1 DEF FlowOK, FlowCounts, Moving
<1>5. \/ /\ asked' = [asked EXCEPT ![f] = [asked[f] EXCEPT ![h] = asked[f][h] + 1]]
         /\ Graph[h] = "AgentTask"
      \/ asked' = asked /\ Graph[h] # "AgentTask"
  BY DEF PassNode, EndNode, DecideNode, TaskNode
<1>6. asked' \in [Flow -> [Node -> Nat]]
  <2>1. [asked[f] EXCEPT ![h] = asked[f][h] + 1] \in [Node -> Nat]
    <3>1. asked[f] \in [Node -> Nat]
      BY <1>0 DEF WorkflowTypeOK
    <3> HIDE DEF h
    <3>2. PICK a \in [Node -> Nat] : a = asked[f]
      BY <3>1
    <3>3. PICK k \in Nat : k = a[h] + 1
      BY <1>3
    <3>4. [a EXCEPT ![h] = k] \in [Node -> Nat]
      OBVIOUS
    <3> QED BY <3>2, <3>3, <3>4
  <2> QED BY <1>0, <1>5, <2>1 DEF WorkflowTypeOK
<1>7. \A n \in Node : Graph[n] = "AgentTask" => started[f][n] = asked'[f][n]
  <2>1. asked[f] \in [Node -> Nat] /\ started[f] \in [Node -> Nat]
    BY <1>0 DEF WorkflowTypeOK
  <2>2. \A n \in Node : Here(f, n) = IF h = n THEN 1 ELSE 0
    BY <1>1 DEF Here
  <2>3. CASE asked' = asked /\ Graph[h] # "AgentTask"
    BY <1>4, <2>1, <2>2, <2>3
  <2>4. CASE /\ asked' = [asked EXCEPT ![f] = [asked[f] EXCEPT ![h] = asked[f][h] + 1]]
             /\ Graph[h] = "AgentTask"
    <3>1. asked'[f] = [asked[f] EXCEPT ![h] = asked[f][h] + 1]
      BY <1>0, <2>4 DEF WorkflowTypeOK
    <3> QED BY <1>3, <1>4, <2>1, <2>2, <3>1
  <2> QED BY <1>5, <2>3, <2>4
<1> QED BY <1>1, <1>2, <1>6, <1>7, CompleteKeepsFlow

LEMMA EmitRunStartedKeepsFlow ==
  ASSUME WorkflowInv, NEW f \in Flow, EmitRunStarted(f)
  PROVE  WorkflowTypeOK' /\ FlowOK(f)'
<1>0. /\ WorkflowTypeOK /\ FlowOK(f) /\ Start \in Node /\ doing[f] = "load"
      /\ UNCHANGED <<review, asked, started, permitted, flowStops>>
  BY WorkflowAssumption DEF WorkflowInv, EmitRunStarted
<1>1. CASE UNCHANGED <<marker, active, entered>> /\ flowRow' = flowRow /\ FlowAt(f, "failing")
  <2>1. WorkflowTypeOK' /\ doing'[f] = "failing"
    BY <1>0, <1>1 DEF WorkflowTypeOK, FlowAt, Doing
  <2>2. Waiting(f)' = Waiting(f) /\ \A n \in Node : Here(f, n)' = Here(f, n)
    BY <1>0, <1>1, <2>1 DEF Waiting, Here
  <2> QED BY <1>0, <1>1, <2>1, <2>2
          DEF FlowOK, FlowCounts, Entered, ReviewHolds, WholeWhenDone, Moving
<1>2. CASE /\ flowRow[f] = "none" /\ FlowRow(f, "Running") /\ Marks(f, <<>>)
           /\ UNCHANGED <<active, entered>> /\ FlowAt(f, "failing")
  <2>1. WorkflowTypeOK' /\ doing'[f] = "failing" /\ flowRow'[f] = "Running"
    BY <1>0, <1>2 DEF WorkflowTypeOK, FlowAt, FlowRow, Marks, Doing
  <2> QED BY <1>0, <1>2, <2>1
          DEF FlowOK, FlowCounts, Entered, ReviewHolds, WholeWhenDone, Moving
<1>3. CASE /\ flowRow[f] = "none" /\ FlowRow(f, "Running") /\ Marks(f, <<>>)
           /\ active' = [active EXCEPT ![f] = <<Start>>]
           /\ entered' = [entered EXCEPT ![f][Start] = @ + 1]
           /\ FlowAt(f, "loop")
  <2>1. /\ doing'[f] = "loop" /\ flowRow'[f] = "Running" /\ active'[f] = <<Start>>
        /\ entered' \in [Flow -> [Node -> Nat]]
        /\ \A n \in Node : entered'[f][n] = entered[f][n] + IF n = Start THEN 1 ELSE 0
    <3>1. entered[f] \in [Node -> Nat]
      BY <1>0 DEF WorkflowTypeOK
    <3>2. entered'[f] = [entered[f] EXCEPT ![Start] = entered[f][Start] + 1]
      BY <1>0, <1>3 DEF WorkflowTypeOK
    <3>3. \A n \in Node : entered'[f][n] = entered[f][n] + IF n = Start THEN 1 ELSE 0
      BY <1>0, <3>1, <3>2
    <3>4. entered' \in [Flow -> [Node -> Nat]]
      BY <1>0, <1>3 DEF WorkflowTypeOK
    <3> QED BY <1>0, <1>3, <3>3, <3>4 DEF WorkflowTypeOK, FlowAt, FlowRow
  <2>2. WorkflowTypeOK'
    <3>1. <<Start>> \in Seq(Node) /\ <<>> \in Seq(Node)
      BY <1>0
    <3>2. active' \in [Flow -> Seq(Node)] /\ marker' \in [Flow -> Seq(Node)]
      BY <1>0, <1>3, <3>1 DEF WorkflowTypeOK, Marks
    <3>3. doing' \in [Flow -> Doing]
          /\ flowRow' \in [Flow -> {"none", "Running", "Paused", "Completed", "Failed"}]
      BY <1>0, <1>3 DEF WorkflowTypeOK, FlowAt, FlowRow, Doing
    <3> QED BY <1>0, <2>1, <3>2, <3>3 DEF WorkflowTypeOK
  <2>3. FlowCounts(f)'
    <3>1. Waiting(f) = <<>> /\ Waiting(f)' = <<Start>>
      BY <1>0, <1>3, <2>1 DEF FlowOK, FlowCounts, Waiting
    <3>2. ASSUME NEW n \in Node
          PROVE  entered'[f][n] = started[f][n] + Occurs(<<Start>>, n)
      <4>1. Occurs(<<>>, n) = 0 /\ Occurs(<<Start>>, n) = IF n = Start THEN 1 ELSE 0
        BY OccursInEmpty, OccursInOne
      <4>2. entered[f][n] = started[f][n] + Occurs(<<>>, n) /\ started[f][n] \in Nat
        BY <1>0, <1>3, <3>1 DEF WorkflowTypeOK, FlowOK, FlowCounts
      <4> QED BY <2>1, <4>1, <4>2
    <3>3. \A n \in Node : Here(f, n)' = Here(f, n)
      BY <1>0, <2>1 DEF Here
    <3> QED BY <1>0, <1>3, <2>1, <3>1, <3>2, <3>3 DEF FlowOK, FlowCounts, Moving
  <2>4. Entered(f)' /\ ReviewHolds(f)' /\ WholeWhenDone(f)'
    <3>1. \A n \in Node : entered'[f][n] > 0 => n = Start \/ entered[f][n] > 0
      BY <1>0, <2>1 DEF WorkflowTypeOK
    <3>2. Entered(f)'
      BY <1>0, <3>1 DEF FlowOK, Entered
    <3> QED BY <1>0, <1>3, <2>1, <3>2 DEF FlowOK, ReviewHolds, WholeWhenDone
  <2> QED BY <2>2, <2>3, <2>4 DEF FlowOK
<1> QED BY <1>1, <1>2, <1>3 DEF EmitRunStarted

LEMMA EmitNodeStartedKeepsFlow ==
  ASSUME WorkflowInv, NEW f \in Flow, EmitNodeStarted(f)
  PROVE  WorkflowTypeOK' /\ FlowOK(f)'
<1> DEFINE h == Head(active[f])
<1>0. /\ WorkflowTypeOK /\ FlowOK(f) /\ doing[f] = "checkpointed"
      /\ UNCHANGED <<flowRow, active, review, asked, entered, permitted, flowStops>>
  BY DEF WorkflowInv, EmitNodeStarted
<1>1. active[f] \in Seq(Node) /\ active[f] # <<>> /\ h \in Node
  BY <1>0 DEF WorkflowTypeOK, FlowOK, FlowCounts
<1> HIDE DEF h
<1>2. /\ marker' = [marker EXCEPT ![f] = <<h>>] /\ doing' = [doing EXCEPT ![f] = "node"]
      /\ started' = [started EXCEPT ![f] = [started[f] EXCEPT ![h] = started[f][h] + 1]]
  BY DEF EmitNodeStarted, Marks, FlowAt, h
<1>3. started[f] \in [Node -> Nat] /\ [started[f] EXCEPT ![h] = started[f][h] + 1] \in [Node -> Nat]
  <2>1. started[f] \in [Node -> Nat]
    BY <1>0 DEF WorkflowTypeOK
  <2> QED BY <1>1, <2>1
<1>4. WorkflowTypeOK'
  <2>1. started' \in [Flow -> [Node -> Nat]]
    BY <1>0, <1>2, <1>3 DEF WorkflowTypeOK
  <2>2. <<h>> \in Seq(Node)
    BY <1>1
  <2>3. marker' \in [Flow -> Seq(Node)] /\ doing' \in [Flow -> Doing]
    BY <1>0, <1>2, <2>2 DEF WorkflowTypeOK, Doing
  <2> QED BY <1>0, <2>1, <2>3 DEF WorkflowTypeOK
<1>5. /\ doing'[f] = "node" /\ started'[f][h] = started[f][h] + 1
      /\ \A n \in Node : started'[f][n] = started[f][n] + IF n = h THEN 1 ELSE 0
  <2>1. started'[f] = [started[f] EXCEPT ![h] = started[f][h] + 1]
    BY <1>0, <1>2 DEF WorkflowTypeOK
  <2>2. \A n \in Node : started'[f][n] = started[f][n] + IF n = h THEN 1 ELSE 0
    BY <1>1, <1>3, <2>1
  <2>3. doing'[f] = "node"
    BY <1>0, <1>2 DEF WorkflowTypeOK
  <2> QED BY <1>1, <2>2, <2>3
<1>6. FlowCounts(f)'
  <2>1. Waiting(f) = active[f] /\ Waiting(f)' = Tail(active[f]) /\ flowRow[f] = "Running"
    BY <1>0, <1>5 DEF Waiting, FlowOK, FlowCounts, Moving
  <2>2. ASSUME NEW n \in Node
        PROVE  /\ entered[f][n] = started'[f][n] + Occurs(Tail(active[f]), n)
               /\ Graph[n] = "AgentTask" => started'[f][n] = asked[f][n] + Here(f, n)'
    <3>1. Occurs(active[f], n) = (IF h = n THEN 1 ELSE 0) + Occurs(Tail(active[f]), n)
      BY <1>1, OccursInTail DEF h
    <3>2. /\ entered[f][n] = started[f][n] + Occurs(active[f], n)
          /\ Graph[n] = "AgentTask" => started[f][n] = asked[f][n] + Here(f, n)
      BY <1>0, <2>1 DEF FlowOK, FlowCounts, Moving
    <3>3. Occurs(Tail(active[f]), n) \in Nat /\ started[f][n] \in Nat /\ asked[f][n] \in Nat
      <4>1. Tail(active[f]) \in Seq(Node)
        BY <1>1
      <4> QED BY <1>0, <4>1, OccursIsFinite DEF WorkflowTypeOK
    <3>4. Here(f, n) = 0 /\ Here(f, n)' = IF h = n THEN 1 ELSE 0
      BY <1>0, <1>5 DEF Here, h
    <3> QED BY <1>5, <3>1, <3>2, <3>3, <3>4
  <2>3. started'[f][Head(active'[f])] > 0
    BY <1>0, <1>1, <1>3, <1>5 DEF h
  <2> QED BY <1>0, <1>1, <1>5, <2>1, <2>2, <2>3 DEF FlowCounts, Moving
<1>7. Entered(f)' /\ ReviewHolds(f)' /\ WholeWhenDone(f)'
  <2>1. \A n \in Node : started[f][n] > 0 => started'[f][n] > 0
    BY <1>3, <1>5
  <2>2. \A e \in Edge : e.from \in Node
    BY EdgesAreTyped
  <2>3. Entered(f)'
    BY <1>0, <2>1, <2>2 DEF FlowOK, Entered
  <2> QED BY <1>0, <1>5, <2>3 DEF FlowOK, FlowCounts, ReviewHolds, WholeWhenDone, Moving
<1> QED BY <1>4, <1>6, <1>7 DEF FlowOK

LEMMA PlainStepKeepsFlow ==
  ASSUME WorkflowInv, NEW f \in Flow,
         \/ StartFlow(f) \/ Checkpointed(f) \/ ReviewNode(f) \/ PauseRun(f) \/ EmitFails(f)
         \/ EmitRunCompleted(f) \/ EmitRunFailed(f) \/ ResolveReview(f)
  PROVE  WorkflowTypeOK' /\ FlowOK(f)'
<1>0. WorkflowTypeOK /\ FlowOK(f)
  BY DEF WorkflowInv
<1>a. <<>> \in Seq(Node) /\ active[f] \in Seq(Node)
  BY <1>0 DEF WorkflowTypeOK
<1> USE DEF FlowAt, Marks, FlowRow
<1>1. CASE StartFlow(f)
  <2>1. WorkflowTypeOK' /\ doing'[f] = "load"
    BY <1>0, <1>1 DEF StartFlow, WorkflowTypeOK, Doing
  <2> QED BY <1>0, <1>1, <2>1
          DEF StartFlow, FlowOK, FlowCounts, Entered, ReviewHolds, WholeWhenDone, Moving,
              Waiting, Here
<1>2. CASE Checkpointed(f)
  <2>1. WorkflowTypeOK' /\ doing'[f] = "checkpointed" /\ flowRow'[f] = "Running"
    BY <1>0, <1>a, <1>2 DEF Checkpointed, WorkflowTypeOK, Doing
  <2> QED BY <1>0, <1>2, <2>1
          DEF Checkpointed, FlowOK, FlowCounts, Entered, ReviewHolds, WholeWhenDone, Moving,
              Waiting, Here
<1>3. CASE ReviewNode(f)
  <2>1. WorkflowTypeOK' /\ doing'[f] = "pausing"
    <3>1. Head(active[f]) \in Node
      <4>1. active[f] # <<>>
        BY <1>0, <1>3 DEF ReviewNode, FlowOK, FlowCounts
      <4> QED BY <1>a, <4>1
    <3>2. [status |-> "Pending", node |-> Head(active[f])]
            \in [status: {"none", "Pending", "Approved", "Rejected"}, node: Node]
      BY <3>1
    <3> QED BY <1>0, <1>3, <3>2 DEF ReviewNode, WorkflowTypeOK, Doing
  <2> QED BY <1>0, <1>3, <2>1
          DEF ReviewNode, FlowOK, FlowCounts, Entered, ReviewHolds, WholeWhenDone, Moving,
              Waiting, Here
<1>4. CASE PauseRun(f)
  <2>1. WorkflowTypeOK' /\ doing'[f] = "none" /\ flowRow'[f] = "Paused"
    BY <1>0, <1>a, <1>4 DEF PauseRun, WorkflowTypeOK, Doing
  <2> QED BY <1>0, <1>4, <2>1
          DEF PauseRun, FlowOK, FlowCounts, Entered, ReviewHolds, WholeWhenDone, Moving,
              Waiting, Here
<1>5. CASE EmitFails(f)
  <2>1. WorkflowTypeOK' /\ doing'[f] = "failing"
    BY <1>0, <1>5 DEF EmitFails, WorkflowTypeOK, Doing
  <2> QED BY <1>0, <1>5, <2>1
          DEF EmitFails, FlowOK, FlowCounts, Entered, ReviewHolds, WholeWhenDone, Moving,
              Waiting, Here
<1>6. CASE EmitRunCompleted(f)
  <2>1. WorkflowTypeOK' /\ doing'[f] = "done" /\ flowRow'[f] = "Completed" /\ active[f] = <<>>
    BY <1>0, <1>6 DEF EmitRunCompleted, WorkflowTypeOK, Doing
  <2> QED BY <1>0, <1>6, <2>1, OccursInEmpty
          DEF EmitRunCompleted, WorkflowTypeOK, FlowOK, FlowCounts, Entered, ReviewHolds, WholeWhenDone, Moving,
              Waiting, Here
<1>7. CASE EmitRunFailed(f)
  <2>1. WorkflowTypeOK' /\ doing'[f] = "done" /\ active'[f] = <<>>
        /\ flowRow'[f] \in {flowRow[f], "Failed"}
    <3>1. \/ flowRow' = [flowRow EXCEPT ![f] = "Failed"]
          \/ flowRow' = flowRow
      BY <1>7 DEF EmitRunFailed
    <3>2. <<>> \in Seq(Node)
      OBVIOUS
    <3>3. flowRow' \in [Flow -> {"none", "Running", "Paused", "Completed", "Failed"}]
          /\ flowRow'[f] \in {flowRow[f], "Failed"}
      BY <1>0, <3>1 DEF WorkflowTypeOK
    <3> QED BY <1>0, <1>7, <3>2, <3>3 DEF EmitRunFailed, WorkflowTypeOK, Doing
  <2> QED BY <1>0, <1>7, <2>1
          DEF EmitRunFailed, FlowOK, FlowCounts, Entered, ReviewHolds, WholeWhenDone, Moving,
              Waiting, Here
<1>8. CASE ResolveReview(f)
  <2>0. /\ review[f].status # "none"
        /\ UNCHANGED <<marker, active, asked, started, entered, flowStops>>
    BY <1>8 DEF ResolveReview
  <2> DEFINE R == [status: {"none", "Pending", "Approved", "Rejected"}, node: Node]
  <2>a. \A s \in {"Approved", "Rejected"} : [review EXCEPT ![f].status = s] \in [Flow -> R]
    <3>1. review \in [Flow -> R] /\ review[f] \in R
      BY <1>0 DEF WorkflowTypeOK
    <3>2. \A s \in {"Approved", "Rejected"} : [review[f] EXCEPT !.status = s] \in R
      BY <3>1
    <3> HIDE DEF R
    <3> QED BY <3>1, <3>2
  <2>1. CASE /\ review' = [review EXCEPT ![f].status = "Approved"]
             /\ permitted' = [permitted EXCEPT ![f] = @ \union {review[f].node}]
             /\ IF flowRow[f] = "Paused" THEN FlowAt(f, "load") ELSE UNCHANGED doing
             /\ UNCHANGED flowRow
    <3>0. review' \in [Flow -> R]
      BY <2>1, <2>a
    <3>1. permitted' \in [Flow -> SUBSET Node] /\ doing' \in [Flow -> Doing]
      <4>1. doing' = doing \/ doing' = [doing EXCEPT ![f] = "load"]
        BY <2>1
      <4>2. review[f].node \in Node
        BY <1>0 DEF WorkflowTypeOK
      <4>3. permitted' = [permitted EXCEPT ![f] = permitted[f] \union {review[f].node}]
        BY <2>1
      <4>4. permitted' \in [Flow -> SUBSET Node]
        BY <1>0, <4>2, <4>3 DEF WorkflowTypeOK
      <4> QED BY <1>0, <4>1, <4>4 DEF WorkflowTypeOK, Doing
    <3>2. WorkflowTypeOK'
      BY <1>0, <2>0, <2>1, <3>0, <3>1 DEF WorkflowTypeOK
    <3>3. /\ permitted[f] \subseteq permitted'[f]
          /\ doing'[f] = IF flowRow[f] = "Paused" THEN "load" ELSE doing[f]
      BY <1>0, <2>1 DEF WorkflowTypeOK
    <3> QED BY <1>0, <2>0, <2>1, <3>2, <3>3
            DEF FlowOK, FlowCounts, Entered, ReviewHolds, WholeWhenDone, Moving,
              Waiting, Here
  <2>2. CASE /\ review' = [review EXCEPT ![f].status = "Rejected"]
             /\ IF flowRow[f] = "Paused" THEN FlowRow(f, "Failed") ELSE UNCHANGED flowRow
             /\ UNCHANGED <<doing, permitted>>
    <3>0. review' \in [Flow -> R]
      BY <2>2, <2>a
    <3>1. flowRow' \in [Flow -> {"none", "Running", "Paused", "Completed", "Failed"}]
      <4>1. flowRow' = flowRow \/ flowRow' = [flowRow EXCEPT ![f] = "Failed"]
        BY <2>2
      <4>2. flowRow \in [Flow -> {"none", "Running", "Paused", "Completed", "Failed"}]
        BY DEF WorkflowInv, WorkflowTypeOK
      <4> QED BY <4>1, <4>2
    <3>2. WorkflowTypeOK'
      BY <1>0, <2>0, <2>2, <3>0, <3>1 DEF WorkflowTypeOK
    <3>3. flowRow'[f] = IF flowRow[f] = "Paused" THEN "Failed" ELSE flowRow[f]
      BY <1>0, <2>2 DEF WorkflowTypeOK
    <3> QED BY <1>0, <2>0, <2>2, <3>2, <3>3
            DEF FlowOK, FlowCounts, Entered, ReviewHolds, WholeWhenDone, Moving,
              Waiting, Here
  <2> QED BY <1>8, <2>1, <2>2 DEF ResolveReview
<1> QED BY <1>1, <1>2, <1>3, <1>4, <1>5, <1>6, <1>7, <1>8

-----------------------------------------------------------------------------
LEMMA WorkflowInvariant == WorkflowSpec => []WorkflowInv
<1>1. WorkflowInit => WorkflowInv
  <2> SUFFICES ASSUME WorkflowInit PROVE WorkflowInv
    OBVIOUS
  <2>1. NoReview \in [status: {"none", "Pending", "Approved", "Rejected"}, node: Node]
        /\ None \in [Node -> Nat] /\ <<>> \in Seq(Node)
    BY WorkflowAssumption DEF NoReview, None
  <2>2. WorkflowTypeOK
    BY <2>1 DEF WorkflowInit, WorkflowTypeOK, Doing
  <2>3. ASSUME NEW f \in Flow PROVE FlowOK(f)
    <3>1. /\ doing[f] = "none" /\ flowRow[f] = "none" /\ active[f] = <<>>
          /\ review[f].status = "none" /\ Waiting(f) = <<>>
          /\ \A n \in Node : started[f][n] = 0 /\ entered[f][n] = 0 /\ asked[f][n] = 0 /\ Here(f, n) = 0
      BY DEF WorkflowInit, NoReview, None, Waiting, Here
    <3> QED BY <3>1, OccursInEmpty
            DEF FlowOK, FlowCounts, Entered, ReviewHolds, WholeWhenDone, Moving
  <2> QED BY <2>2, <2>3 DEF WorkflowInv
<1>2. WorkflowInv /\ [WorkflowNext]_flowVars => WorkflowInv'
  <2> SUFFICES ASSUME WorkflowInv, [WorkflowNext]_flowVars PROVE WorkflowInv'
    OBVIOUS
  <2>1. ASSUME NEW f \in Flow, FlowStep(f) PROVE WorkflowInv'
    <3>1. WorkflowTypeOK' /\ FlowOK(f)'
      BY <2>1, PlainStepKeepsFlow, EmitRunStartedKeepsFlow, EmitNodeStartedKeepsFlow, NodeKeepsFlow
         DEF FlowStep
    <3>2. ASSUME NEW g \in Flow, g # f PROVE FlowOK(g)'
      BY <2>1, <3>2, FlowStepIsLocal, OthersKeepFlow DEF WorkflowInv
    <3> QED BY <3>1, <3>2 DEF WorkflowInv
  <2>2. CASE FlowCrash
    <3>1. /\ UNCHANGED <<flowRow, marker, review, asked, started, entered, permitted>>
          /\ flowStops' \in Nat /\ active' \in [Flow -> Seq(Node)] /\ doing' \in [Flow -> Doing]
          /\ \A f \in Flow : /\ active'[f] = <<>>
                             /\ doing'[f] = IF doing[f] = "none" THEN "none" ELSE "done"
      BY <2>2 DEF FlowCrash, WorkflowInv, WorkflowTypeOK, Doing
    <3>2. WorkflowTypeOK'
      BY <3>1 DEF WorkflowInv, WorkflowTypeOK
    <3>3. ASSUME NEW f \in Flow PROVE FlowOK(f)'
      <4>1. FlowOK(f)
        BY DEF WorkflowInv
      <4> QED BY <3>1, <4>1 DEF FlowOK, FlowCounts, Entered, ReviewHolds, WholeWhenDone, Moving,
                               Waiting, Here
    <3> QED BY <3>2, <3>3 DEF WorkflowInv
  <2>3. CASE UNCHANGED flowVars
    <3>1. WorkflowTypeOK'
      BY <2>3 DEF flowVars, WorkflowInv, WorkflowTypeOK
    <3>2. \A f \in Flow : Unmoved(f)
      BY <2>3 DEF flowVars, Unmoved
    <3> QED BY <3>1, <3>2, OthersKeepFlow DEF WorkflowInv
  <2> QED BY <2>1, <2>2, <2>3 DEF WorkflowNext
<1> QED BY <1>1, <1>2, PTL DEF WorkflowSpec

(* A run that is 'Completed' has started every node as often as an edge    *)
(* led to it and has asked for an agent at each task: process_dag drops no *)
(* branch, whatever the graph.                                             *)
THEOREM CompletedRunsAreWhole == WorkflowSpec => [](WorkflowTypeOK /\ CompletedIsWhole)
<1>1. WorkflowInv => WorkflowTypeOK /\ CompletedIsWhole
  BY DEF WorkflowInv, FlowOK, WholeWhenDone, CompletedIsWhole
<1> QED BY <1>1, WorkflowInvariant, PTL

(* No node behind a review is entered before a person has approved it, and *)
(* a run whose review was refused never completes.                         *)
THEOREM ReviewsComeFirst == WorkflowSpec => []ReviewComesFirst
<1>1. WorkflowInv => ReviewComesFirst
  BY DEF WorkflowInv, FlowOK, Entered, ReviewHolds, ReviewComesFirst
<1> QED BY <1>1, WorkflowInvariant, PTL

---------------------------------------------------------------------------
(* Automation.  The heartbeat works on a list it read once: what makes a   *)
(* task wait for its interval is that the row of a task in that list is    *)
(* due at the now of the tick (ListIsDue), while the row of a task that    *)
(* has fired is not, until it is advanced (FiredWaits).                    *)

Firing(j) == beat.at \in {"execution", "message", "advance"} /\ beat.job = j

ListIsDue ==
  /\ beat.at = "rest" => beat.list = {}
  /\ \A j \in Job : job[j].row # "none" => job[j].next > 0
  /\ \A j \in Job : Firing(j) => j \notin beat.list
  /\ \A j \in Job : j \in beat.list \/ Firing(j) => job[j].next > 0 /\ job[j].next <= beat.now

FiredWaits ==
  /\ beat.now <= time
  /\ \A j \in Job : fired[j] <= time /\ (beat.at # "rest" => fired[j] <= beat.now)
  /\ \A j \in Job : fired[j] # 0 /\ j \notin repeated =>
       \/ job[j].next >= fired[j] + Interval[j]
       \/ beat.at = "advance" /\ beat.job = j

AutomationInv == AutomationTypeOK /\ ListIsDue /\ FiredWaits /\ TriggerIsServed

LEMMA RestIsQuiet ==
  /\ AtRest.at = "rest" /\ AtRest.list = {} /\ AtRest.now = 0
  /\ AtRest \in [at: {"rest", "tick", "execution", "message", "advance"},
                 list: SUBSET Job, now: Nat, job: Job]
BY AutomationAssumption DEF AtRest

LEMMA AutomationInitInv == AutomationInit => AutomationInv
BY RestIsQuiet DEF AutomationInit, AutomationInv, AutomationTypeOK, ListIsDue, FiredWaits,
     TriggerIsServed, NoJob, Firing

(* The calls of people and the passing of time. *)
LEMMA CommandKeepsAutomation ==
  ASSUME AutomationInv,
         \/ Passes \/ ListDueTasks \/ TickEnds
         \/ \E j \in Job : TakeJob(j) \/ ToggleTask(j) \/ DeleteTask(j)
         \/ \E j \in Job, target \in Worker \union {Invalid} : CreateTask(j, target)
  PROVE  AutomationInv'
<1> USE AutomationAssumption DEF History
<1>1. CASE Passes
  BY <1>1 DEF Passes, AutomationInv, AutomationTypeOK, ListIsDue, FiredWaits, TriggerIsServed, Firing
<1>2. CASE ListDueTasks
  <2>1. /\ beat.at = "rest" /\ beat'.at = "tick" /\ beat'.now = time
        /\ beat'.list = {j \in Job : job[j].row = "active" /\ job[j].next <= time}
        /\ beat' \in [at: {"rest", "tick", "execution", "message", "advance"},
                      list: SUBSET Job, now: Nat, job: Job]
        /\ UNCHANGED <<time, job, work, requests, latch, mail, fired, repeated, hushed, stops>>
    BY <1>2 DEF ListDueTasks, IsDue, AutomationInv, AutomationTypeOK
  <2>2. AutomationTypeOK' /\ TriggerIsServed'
    BY <2>1 DEF AutomationInv, AutomationTypeOK, TriggerIsServed
  <2>3. ListIsDue'
    BY <2>1 DEF AutomationInv, AutomationTypeOK, ListIsDue, Firing
  <2>4. FiredWaits'
    BY <2>1 DEF AutomationInv, AutomationTypeOK, FiredWaits
  <2> QED BY <2>2, <2>3, <2>4 DEF AutomationInv
<1>3. CASE TickEnds
  BY <1>3 DEF TickEnds, AutomationInv, AutomationTypeOK, ListIsDue, FiredWaits, TriggerIsServed, Firing, AtRest
<1>4. ASSUME NEW j \in Job, TakeJob(j) PROVE AutomationInv'
  <2>1. /\ beat.at = "tick" /\ j \in beat.list
        /\ beat'.at \in {"advance", "execution"} /\ beat'.list = beat.list \ {j}
        /\ beat'.now = beat.now /\ beat'.job = j
        /\ beat' \in [at: {"rest", "tick", "execution", "message", "advance"},
                      list: SUBSET Job, now: Nat, job: Job]
        /\ UNCHANGED <<time, job, work, requests, latch, mail, fired, repeated, hushed, stops>>
    BY <1>4 DEF TakeJob, AutomationInv, AutomationTypeOK
  <2>2. AutomationTypeOK' /\ TriggerIsServed'
    BY <2>1 DEF AutomationInv, AutomationTypeOK, TriggerIsServed
  <2>3. ListIsDue'
    BY <2>1 DEF AutomationInv, ListIsDue, Firing
  <2>4. FiredWaits'
    BY <2>1 DEF AutomationInv, FiredWaits
  <2> QED BY <2>2, <2>3, <2>4 DEF AutomationInv
<1>5. ASSUME NEW j \in Job, ToggleTask(j) \/ DeleteTask(j) PROVE AutomationInv'
  <2>1. /\ job[j].row # "none" /\ job' \in [Job -> [row: {"none", "active", "off"}, next: Nat,
                                               target: Worker \union {Invalid}]]
        /\ \A k \in Job : job'[k].next = job[k].next /\ (k # j => job'[k] = job[k])
        /\ UNCHANGED <<time, beat, work, requests, latch, mail, fired, repeated, hushed, stops>>
    <3>1. PICK s \in {"none", "active", "off"} :
            /\ job[j].row # "none" /\ job' = [job EXCEPT ![j].row = s]
            /\ UNCHANGED <<time, beat, work, requests, latch, mail>> /\ UNCHANGED History
      BY <1>5, Zenon DEF ToggleTask, DeleteTask
    <3> DEFINE R == [row: {"none", "active", "off"}, next: Nat, target: Worker \union {Invalid}]
    <3>2. job \in [Job -> R] /\ job[j] \in R /\ [job[j] EXCEPT !.row = s] \in R
          /\ [job[j] EXCEPT !.row = s].next = job[j].next
      BY DEF AutomationInv, AutomationTypeOK
    <3>3. job' = [job EXCEPT ![j] = [job[j] EXCEPT !.row = s]]
      BY <3>1
    <3>4. job' \in [Job -> R]
          /\ \A k \in Job : job'[k].next = job[k].next /\ (k # j => job'[k] = job[k])
      <4> HIDE DEF R
      <4> QED BY <3>2, <3>3
    <3> QED BY <3>1, <3>4 DEF History
  <2>2. ListIsDue' /\ FiredWaits'
    BY <2>1 DEF AutomationInv, ListIsDue, FiredWaits, Firing
  <2> QED BY <2>1, <2>2 DEF AutomationInv, AutomationTypeOK, TriggerIsServed
<1>6. ASSUME NEW j \in Job, NEW target \in Worker \union {Invalid}, CreateTask(j, target) PROVE AutomationInv'
  <2>1. /\ job[j].next = 0 /\ job'[j].next = time + Interval[j]
        /\ \A k \in Job \ {j} : job'[k] = job[k]
        /\ UNCHANGED <<time, beat, work, requests, latch, mail, fired, repeated, hushed, stops>>
    BY <1>6 DEF CreateTask, ComputeNextRun, AutomationInv, AutomationTypeOK
  <2>2. AutomationTypeOK' /\ TriggerIsServed'
    <3>1. [row |-> "active", next |-> time + Interval[j], target |-> target]
            \in [row: {"none", "active", "off"}, next: Nat, target: Worker \union {Invalid}]
      BY DEF AutomationInv, AutomationTypeOK
    <3> QED BY <1>6, <2>1, <3>1
            DEF CreateTask, ComputeNextRun, AutomationInv, AutomationTypeOK, TriggerIsServed
  <2>3. ListIsDue'
    <3>0. time \in Nat /\ Interval[j] \in Nat /\ Interval[j] # 0
      BY DEF AutomationInv, AutomationTypeOK
    <3>1. job'[j].next > 0
      BY <2>1, <3>0
    <3>2. ~(j \in beat.list \/ Firing(j))
      BY <2>1 DEF AutomationInv, AutomationTypeOK, ListIsDue
    <3> QED BY <2>1, <3>1, <3>2 DEF AutomationInv, ListIsDue, Firing
  <2>4. FiredWaits'
    BY <2>1 DEF AutomationInv, AutomationTypeOK, FiredWaits
  <2> QED BY <2>2, <2>3, <2>4 DEF AutomationInv
<1> QED BY <1>1, <1>2, <1>3, <1>4, <1>5, <1>6

LEMMA FindExecutionKeepsAutomation ==
  ASSUME AutomationInv, FindExecution
  PROVE  AutomationInv'
BY DEF FindExecution, History, AutomationInv, AutomationTypeOK, ListIsDue, FiredWaits, TriggerIsServed, Firing

LEMMA OneMore ==
  ASSUME NEW S, NEW x, NEW f \in [S -> Nat]
  PROVE  [f EXCEPT ![x] = @ + 1] \in [S -> Nat]
<1>1. CASE x \in S
  BY <1>1
<1>2. CASE x \notin S
  BY <1>2
<1> QED BY <1>1, <1>2

LEMMA CommitTriggerKeepsAutomation ==
  ASSUME AutomationInv, CommitTrigger
  PROVE  AutomationInv'
<1> DEFINE letters == [mail EXCEPT ![Target] = @ + 1]
<1>0. /\ beat.at = "message" /\ UNCHANGED <<time, job, work>>
      /\ beat.job \in Job /\ beat.now <= time /\ beat.now \in Nat
  BY DEF CommitTrigger, AutomationInv, AutomationTypeOK, FiredWaits
<1>a. letters \in [Worker -> Nat]
  BY OneMore DEF AutomationInv, AutomationTypeOK
<1>1. CASE /\ beat' = [beat EXCEPT !.at = "advance"]
           /\ mail' = letters /\ fired' = [fired EXCEPT ![beat.job] = beat.now]
           /\ requests' = [requests EXCEPT ![Target] = @ + 1]
           /\ repeated' = repeated \ {beat.job}
           /\ UNCHANGED <<latch, hushed, stops>>
  <2>1. AutomationTypeOK'
    BY <1>0, <1>a, <1>1 DEF AutomationInv, AutomationTypeOK
  <2>2. TriggerIsServed'
    BY <1>0, <1>a, <1>1 DEF AutomationInv, AutomationTypeOK, TriggerIsServed
  <2>3. ListIsDue'
    BY <1>0, <1>a, <1>1 DEF AutomationInv, AutomationTypeOK, ListIsDue, Firing
  <2>4. FiredWaits'
    BY <1>0, <1>a, <1>1 DEF AutomationInv, AutomationTypeOK, FiredWaits
  <2> QED BY <2>1, <2>2, <2>3, <2>4 DEF AutomationInv
<1>2. CASE /\ beat' = [beat EXCEPT !.at = "advance"]
           /\ UNCHANGED <<mail, requests, latch>> /\ UNCHANGED History
  BY <1>0, <1>a, <1>2 DEF History, AutomationInv, AutomationTypeOK, TriggerIsServed, ListIsDue, Firing, FiredWaits
<1>3. CASE /\ beat' = AtRest
           /\ mail' = letters /\ fired' = [fired EXCEPT ![beat.job] = beat.now]
           /\ repeated' = repeated \union {beat.job}
           /\ Restart(letters)
  <2>1. AutomationTypeOK' /\ ListIsDue'
    BY <1>0, <1>a, <1>3, RestIsQuiet DEF Restart, AutomationInv, AutomationTypeOK, ListIsDue, Firing
  <2>2. TriggerIsServed'
    <3>1. hushed' = {w \in Worker : letters[w] > 0} /\ \A w \in Worker : requests'[w] \in Nat
      BY <1>3, <2>1 DEF Restart, AutomationTypeOK
    <3> QED BY <1>0, <1>a, <1>3, <3>1 DEF TriggerIsServed
  <2>3. FiredWaits'
    BY <1>0, <1>a, <1>3, RestIsQuiet DEF AutomationInv, AutomationTypeOK, FiredWaits
  <2> QED BY <2>1, <2>2, <2>3 DEF AutomationInv
<1> QED
  <2> HIDE DEF letters
  <2> QED BY <1>1, <1>2, <1>3 DEF CommitTrigger, letters

LEMMA AdvanceKeepsAutomation ==
  ASSUME AutomationInv, Advance
  PROVE  AutomationInv'
<1>1. /\ beat.at = "advance" /\ beat'.at = "tick" /\ beat'.list = beat.list
      /\ beat'.now = beat.now /\ beat.job \in Job
      /\ UNCHANGED <<time, work, requests, latch, mail, fired, hushed, stops>>
      /\ \A j \in Job \ {beat.job} : job'[j] = job[j]
      /\ \/ job'[beat.job].next = beat.now + Interval[beat.job] /\ repeated' = repeated
         \/ repeated' = repeated \union {beat.job} /\ job' = job
  BY DEF Advance, ComputeNextRun, AutomationInv, AutomationTypeOK
<1>2. AutomationTypeOK' /\ TriggerIsServed'
  <2> DEFINE R == [row: {"none", "active", "off"}, next: Nat, target: Worker \union {Invalid}]
  <2>1. job \in [Job -> R] /\ beat.now + Interval[beat.job] \in Nat
    BY AutomationAssumption, <1>1 DEF AutomationInv, AutomationTypeOK
  <2>2. job' \in [Job -> R]
    <3>1. \/ job' = [job EXCEPT ![beat.job].next = beat.now + Interval[beat.job]]
          \/ job' = job
      BY DEF Advance, ComputeNextRun
    <3> QED BY <1>1, <2>1, <3>1
  <2>3. beat' \in [at: {"rest", "tick", "execution", "message", "advance"},
                 list: SUBSET Job, now: Nat, job: Job]
    BY DEF Advance, AutomationInv, AutomationTypeOK
  <2> QED BY <1>1, <2>2, <2>3 DEF AutomationInv, AutomationTypeOK, TriggerIsServed
<1>3. ListIsDue'
  BY AutomationAssumption, <1>1 DEF AutomationInv, AutomationTypeOK, ListIsDue, Firing
<1>4. FiredWaits'
  BY AutomationAssumption, <1>1 DEF AutomationInv, AutomationTypeOK, FiredWaits
<1> QED BY <1>2, <1>3, <1>4 DEF AutomationInv

LEMMA StopKeepsAutomation ==
  ASSUME AutomationInv, Stop
  PROVE  AutomationInv'
BY DEF Stop, Restart, AtRest, AutomationInv, AutomationTypeOK, ListIsDue, FiredWaits, TriggerIsServed, Firing

LEMMA WorkKeepsAutomation ==
  ASSUME AutomationInv, NEW w \in Worker, StartWork(w) \/ LatchWake(w) \/ ReadOn(w) \/ EndWork(w)
  PROVE  AutomationInv'
<1>0. /\ UNCHANGED <<time, job, beat, fired, repeated, stops>>
  BY DEF StartWork, LatchWake, ReadOn, EndWork, History
<1>1. ListIsDue' /\ FiredWaits'
  BY <1>0 DEF ListIsDue, FiredWaits, Firing, AutomationInv
<1>2. AutomationTypeOK' /\ TriggerIsServed'
  <2>1. CASE StartWork(w)
    <3>1. requests[w] > 0 /\ requests' = [requests EXCEPT ![w] = @ - 1] /\ latch' = latch
          /\ requests \in [Worker -> Nat] /\ mail \in [Worker -> Nat]
      BY <2>1 DEF StartWork, AutomationInv, AutomationTypeOK
    <3>2. CASE work' = [work EXCEPT ![w] = "Running"] /\ OneRead(w)
      BY <1>0, <3>1, <3>2 DEF OneRead, AutomationInv, AutomationTypeOK, TriggerIsServed
    <3>3. CASE hushed' = hushed \union {w} /\ UNCHANGED <<work, mail>>
      BY <1>0, <3>1, <3>3 DEF AutomationInv, AutomationTypeOK, TriggerIsServed
    <3> QED BY <2>1, <3>2, <3>3 DEF StartWork
  <2>2. CASE LatchWake(w)
    BY <1>0, <2>2 DEF LatchWake, AutomationInv, AutomationTypeOK, TriggerIsServed
  <2>3. CASE ReadOn(w)
    BY <1>0, <2>3 DEF ReadOn, OneRead, AutomationInv, AutomationTypeOK, TriggerIsServed
  <2>4. CASE EndWork(w)
    BY <1>0, <2>4 DEF EndWork, History, AutomationInv, AutomationTypeOK, TriggerIsServed
  <2> QED BY <2>1, <2>2, <2>3, <2>4
<1> QED BY <1>1, <1>2 DEF AutomationInv

LEMMA AutomationInvariant == AutomationSpec => []AutomationInv
<1>1. AutomationInv /\ [AutomationNext]_autoVars => AutomationInv'
  <2> SUFFICES ASSUME AutomationInv, [AutomationNext]_autoVars PROVE AutomationInv'
    OBVIOUS
  <2>1. CASE UNCHANGED autoVars
    BY <2>1 DEF autoVars, AutomationInv, AutomationTypeOK, ListIsDue, FiredWaits,
         TriggerIsServed, Firing
  <2>2. CASE AutomationNext
    BY <2>2, CommandKeepsAutomation, FindExecutionKeepsAutomation,
       CommitTriggerKeepsAutomation, AdvanceKeepsAutomation, StopKeepsAutomation,
       WorkKeepsAutomation DEF AutomationNext
  <2> QED BY <2>1, <2>2
<1> QED BY AutomationInitInv, <1>1, PTL DEF AutomationSpec

(* Every trigger in the inbox of an agent has a request or a latched wake  *)
(* of its own that will run it, however the heartbeat, the runs and the    *)
(* stops interleave; the exceptions are the ones TriggerIsServed names.    *)
THEOREM TriggersAreServed == AutomationSpec => [](AutomationTypeOK /\ TriggerIsServed)
<1>1. AutomationInv => AutomationTypeOK /\ TriggerIsServed
  BY DEF AutomationInv
<1> QED BY <1>1, AutomationInvariant, PTL

(* A task never fires twice in an interval, however late the heartbeat is  *)
(* and whatever people do to its row between the read and the write.       *)
THEOREM TasksFireOncePerInterval == AutomationSpec => OncePerInterval
<1> DEFINE Waits == \A j \in Job : Fires(j) /\ fired[j] # 0 /\ j \notin repeated
                       => beat.now >= fired[j] + Interval[j]
<1>1. AutomationInv => Waits
  BY AutomationAssumption
     DEF AutomationInv, AutomationTypeOK, ListIsDue, FiredWaits, Firing, Fires
<1> QED BY <1>1, AutomationInvariant, PTL DEF OncePerInterval

===========================================================================
