--------------------------- MODULE ServiceProofs ---------------------------
(***************************************************************************)
(* The services together. What the other modules prove of each component   *)
(* by itself holds of the run that explores them side by side: whatever    *)
(* turn it is, its every behaviour is one of each component's own          *)
(* specification, and none of the run's bounds lets a component do what    *)
(* its specification does not.                                             *)
(***************************************************************************)
EXTENDS MCServices, CoordinationProofs, KnowledgeProofs, ToolProofs, ApprovalProofs

(* The moves chosen for the run are steps of the component.                *)
LEMMA MergingIsDelegation == MergingMoves => DelegationNext
<1> SUFFICES ASSUME MergingMoves PROVE \E a \in Agent : DelegationStep(a)
  BY DEF DelegationNext
<1>1. PICK a \in Agent :
         \/ CreateWorktree(a) \/ CommitDelegation(a) \/ QueueChild(a) \/ StartChild(a)
         \/ EditWorktree(a) \/ CommitWorktreeChanges(a) \/ Conclude(a) \/ MergeAnalysis(a)
         \/ FastForward(a) \/ JoinCommits(a) \/ CleanupAgentWorktree(a) \/ MarkRetired(a)
         \/ ReportToParent(a) \/ WakeParent(a)
  BY DEF MergingMoves
<1> QED BY <1>1 DEF DelegationStep

LEMMA QuestionsAreCalls == Questions \subseteq ToolCall
<1> SUFFICES ASSUME NEW t \in Questions PROVE t \in ToolCall
  OBVIOUS
<1>1. {"Low", "Medium"} \subseteq Risk /\ {"None"} \subseteq Kind /\ {FALSE} \subseteq BOOLEAN
      /\ {TRUE} \subseteq BOOLEAN /\ {"IdempotentMutation"} \subseteq Effect
  BY DEF Risk, Kind, Effect
<1>2. ASSUME NEW o \in Outcome
      PROVE  [c \in ToolCapability |-> [l \in Layer |-> o]] \in [ToolCapability -> [Layer -> LayerValue]]
  BY DEF Outcome, LayerValue
<1>3. {[c \in ToolCapability |-> [l \in Layer |-> o]] : o \in Outcome}
        \subseteq [ToolCapability -> [Layer -> LayerValue]]
  BY <1>2
<1> QED BY <1>1, <1>3 DEF Questions, ToolCall

LEMMA MemoryIsMoved == MemoryMoves => MemoryNext
<1> SUFFICES ASSUME MemoryMoves PROVE MemoryNext
  OBVIOUS
<1>1. {"Working", "Semantic"} \subseteq Tier
  BY DEF Tier
<1>2. ASSUME NEW a \in Author, NEW c \in Content,
             \/ \E kind \in {"insert", "distill"}, tier \in {"Working", "Semantic"}, w \in Weights :
                  Look(a, kind, c, tier, w)
             \/ \E i \in DOMAIN rows : BeginReplace(a, i, c)
      PROVE  MemoryNext
  BY <1>1, <1>2 DEF MemoryNext
<1>3. ASSUME \/ \E a \in Author : Reinforce(a) \/ Insert(a) \/ Invalidate(a) \/ Supersede(a) \/ Fail(a)
             \/ ListDue \/ (\E i \in promoter.list : PromoteMemory(i)) \/ AbortCycle \/ Prune
             \/ DayEnds
      PROVE  MemoryNext
  BY <1>3 DEF MemoryNext
<1>4. ASSUME NEW i \in DOMAIN rows,
             \/ Archive(i) \/ DeleteMemory(i) \/ GrowOld(i) \/ Search({i})
             \/ \E tier \in Tier : UpdateMemoryTier(i, tier)
      PROVE  MemoryNext
  <2>1. {i} \in SUBSET DOMAIN rows
    OBVIOUS
  <2> QED BY <1>4, <2>1 DEF MemoryNext
<1> QED BY <1>2, <1>3, <1>4 DEF MemoryMoves

LEMMA ToolboxIsMoved == ToolboxMoves \/ PluginMoves => ToolboxNext
<1>1. ToolboxMoves => ToolboxNext
  BY DEF ToolboxMoves, ToolboxNext
<1>2. PluginMoves => ToolboxNext
  BY DEF PluginMoves, ToolboxNext
<1> QED BY <1>1, <1>2

LEMMA DocumentsAreMoved ==
  DocumentMoves \/ (\E l \in Line : ChunkNextLine(l)) => DocumentsNext
<1>1. DocumentMoves => DocumentsNext
  BY DEF DocumentMoves, DocumentsNext
<1>2. (\E l \in Line : ChunkNextLine(l)) => DocumentsNext
  BY DEF DocumentsNext
<1> QED BY <1>1, <1>2

-----------------------------------------------------------------------------
(* Each step of the run is one of a component, or leaves it as it is.      *)
LEMMA DelegationSteps == MCNext => DelegationNext \/ UNCHANGED delegationVars
BY MergingIsDelegation DEF MCNext, OthersStay, DelegationMoves

LEMMA LocksSteps == MCNext => LocksNext \/ UNCHANGED lockVars
BY DEF MCNext, OthersStay

LEMMA CostSteps == MCNext => CostNext \/ UNCHANGED costVars
BY DEF MCNext, OthersStay

LEMMA ReviewSteps == MCNext => ReviewNext \/ UNCHANGED reviewVars
BY QuestionsAreCalls DEF MCNext, OthersStay, ReviewNext

LEMMA AutomationSteps == MCNext => AutomationNext \/ UNCHANGED autoVars
BY DEF MCNext, OthersStay

LEMMA WorkflowSteps == MCNext => WorkflowNext \/ UNCHANGED flowVars
BY DEF MCNext, OthersStay

LEMMA SwarmSteps == MCNext => SwarmNext \/ UNCHANGED swarmVars
BY DEF MCNext, OthersStay

LEMMA MemorySteps == MCNext => MemoryNext \/ UNCHANGED memoryVars
BY MemoryIsMoved DEF MCNext, OthersStay

LEMMA DistillationSteps == MCNext => DistillationNext \/ UNCHANGED distillVars
BY DEF MCNext, OthersStay

LEMMA McpSteps == MCNext => McpNext \/ UNCHANGED mcpVars
BY DEF MCNext, OthersStay

LEMMA ToolboxSteps == MCNext => ToolboxNext \/ UNCHANGED toolVars
BY ToolboxIsMoved DEF MCNext, OthersStay

LEMMA DocumentsSteps == MCNext => DocumentsNext \/ UNCHANGED documentVars
BY DocumentsAreMoved DEF MCNext, OthersStay

LEMMA StreamingSteps == MCNext => StreamingNext \/ UNCHANGED streamVars
BY DEF MCNext, OthersStay

LEMMA DatabaseSteps == MCNext => DatabaseNext \/ UNCHANGED databaseVars
BY DEF MCNext, OthersStay

LEMMA ContextSteps == MCNext => ContextNext \/ UNCHANGED contextVars
BY DEF MCNext, OthersStay

LEMMA BrowserSteps == MCNext => BrowserNext \/ UNCHANGED browserVars
BY DEF MCNext, OthersStay

LEMMA ApprovalSteps == MCNext => ApprovalNext \/ UNCHANGED approvalVars
BY DEF MCNext, OthersStay

-----------------------------------------------------------------------------
(* Whatever the run does is what each component does by itself: its        *)
(* choices and its bounds leave steps out and add none. So what is proved  *)
(* of a component's specification holds of the run.                        *)
Alone ==
  /\ DelegationSpec
  /\ LocksSpec
  /\ CostSpec
  /\ ReviewSpec
  /\ AutomationSpec
  /\ WorkflowSpec
  /\ SwarmSpec
  /\ MemorySpec
  /\ DistillationSpec
  /\ McpSpec
  /\ ToolboxSpec
  /\ DocumentsSpec
  /\ StreamingSpec
  /\ DatabaseSpec
  /\ ContextSpec
  /\ BrowserSpec
  /\ ApprovalSpec

MCStep == [MCNext]_<<MCVars, delegationVars, lockVars, costVars, reviewVars, autoVars, flowVars,
  swarmVars, memoryVars, distillVars, mcpVars, toolVars, documentVars, streamVars, databaseVars,
  contextVars, browserVars, approvalVars>>

THEOREM ServicesRunAlone == MCSpec => Alone
<1>1. MCSpec => DelegationSpec
  <2>1. MCInit => DelegationInit
    BY DEF MCInit
  <2>2. MCStep => [DelegationNext]_delegationVars
    BY DelegationSteps DEF MCStep
  <2> QED BY <2>1, <2>2, PTL DEF MCSpec, MCStep, DelegationSpec
<1>2. MCSpec => LocksSpec
  <2>1. MCInit => LocksInit
    BY DEF MCInit
  <2>2. MCStep => [LocksNext]_lockVars
    BY LocksSteps DEF MCStep
  <2> QED BY <2>1, <2>2, PTL DEF MCSpec, MCStep, LocksSpec
<1>3. MCSpec => CostSpec
  <2>1. MCInit => CostInit
    BY DEF MCInit
  <2>2. MCStep => [CostNext]_costVars
    BY CostSteps DEF MCStep
  <2> QED BY <2>1, <2>2, PTL DEF MCSpec, MCStep, CostSpec
<1>4. MCSpec => ReviewSpec
  <2>1. MCInit => ReviewInit
    BY DEF MCInit
  <2>2. MCStep => [ReviewNext]_reviewVars
    BY ReviewSteps DEF MCStep
  <2> QED BY <2>1, <2>2, PTL DEF MCSpec, MCStep, ReviewSpec
<1>5. MCSpec => AutomationSpec
  <2>1. MCInit => AutomationInit
    BY DEF MCInit
  <2>2. MCStep => [AutomationNext]_autoVars
    BY AutomationSteps DEF MCStep
  <2> QED BY <2>1, <2>2, PTL DEF MCSpec, MCStep, AutomationSpec
<1>6. MCSpec => WorkflowSpec
  <2>1. MCInit => WorkflowInit
    BY DEF MCInit
  <2>2. MCStep => [WorkflowNext]_flowVars
    BY WorkflowSteps DEF MCStep
  <2> QED BY <2>1, <2>2, PTL DEF MCSpec, MCStep, WorkflowSpec
<1>7. MCSpec => SwarmSpec
  <2>1. MCInit => SwarmInit
    BY DEF MCInit
  <2>2. MCStep => [SwarmNext]_swarmVars
    BY SwarmSteps DEF MCStep
  <2> QED BY <2>1, <2>2, PTL DEF MCSpec, MCStep, SwarmSpec
<1>8. MCSpec => MemorySpec
  <2>1. MCInit => MemoryInit
    BY DEF MCInit
  <2>2. MCStep => [MemoryNext]_memoryVars
    BY MemorySteps DEF MCStep
  <2> QED BY <2>1, <2>2, PTL DEF MCSpec, MCStep, MemorySpec
<1>9. MCSpec => DistillationSpec
  <2>1. MCInit => DistillationInit
    BY DEF MCInit
  <2>2. MCStep => [DistillationNext]_distillVars
    BY DistillationSteps DEF MCStep
  <2> QED BY <2>1, <2>2, PTL DEF MCSpec, MCStep, DistillationSpec
<1>10. MCSpec => McpSpec
  <2>1. MCInit => McpInit
    BY DEF MCInit
  <2>2. MCStep => [McpNext]_mcpVars
    BY McpSteps DEF MCStep
  <2> QED BY <2>1, <2>2, PTL DEF MCSpec, MCStep, McpSpec
<1>11. MCSpec => ToolboxSpec
  <2>1. MCInit => ToolboxInit
    BY DEF MCInit
  <2>2. MCStep => [ToolboxNext]_toolVars
    BY ToolboxSteps DEF MCStep
  <2> QED BY <2>1, <2>2, PTL DEF MCSpec, MCStep, ToolboxSpec
<1>12. MCSpec => DocumentsSpec
  <2>1. MCInit => DocumentsInit
    BY DEF MCInit
  <2>2. MCStep => [DocumentsNext]_documentVars
    BY DocumentsSteps DEF MCStep
  <2> QED BY <2>1, <2>2, PTL DEF MCSpec, MCStep, DocumentsSpec
<1>13. MCSpec => StreamingSpec
  <2>1. MCInit => StreamingInit
    BY DEF MCInit
  <2>2. MCStep => [StreamingNext]_streamVars
    BY StreamingSteps DEF MCStep
  <2> QED BY <2>1, <2>2, PTL DEF MCSpec, MCStep, StreamingSpec
<1>14. MCSpec => DatabaseSpec
  <2>1. MCInit => DatabaseInit
    BY DEF MCInit
  <2>2. MCStep => [DatabaseNext]_databaseVars
    BY DatabaseSteps DEF MCStep
  <2> QED BY <2>1, <2>2, PTL DEF MCSpec, MCStep, DatabaseSpec
<1>15. MCSpec => ContextSpec
  <2>1. MCInit => ContextInit
    BY DEF MCInit
  <2>2. MCStep => [ContextNext]_contextVars
    BY ContextSteps DEF MCStep
  <2> QED BY <2>1, <2>2, PTL DEF MCSpec, MCStep, ContextSpec
<1>16. MCSpec => BrowserSpec
  <2>1. MCInit => BrowserInit
    BY DEF MCInit
  <2>2. MCStep => [BrowserNext]_browserVars
    BY BrowserSteps DEF MCStep
  <2> QED BY <2>1, <2>2, PTL DEF MCSpec, MCStep, BrowserSpec
<1>17. MCSpec => ApprovalSpec
  <2>1. MCInit => ApprovalInit
    BY DEF MCInit
  <2>2. MCStep => [ApprovalNext]_approvalVars
    BY ApprovalSteps DEF MCStep
  <2> QED BY <2>1, <2>2, PTL DEF MCSpec, MCStep, ApprovalSpec
<1> QED
  BY <1>1, <1>2, <1>3, <1>4, <1>5, <1>6, <1>7, <1>8, <1>9, <1>10, <1>11,
      <1>12, <1>13, <1>14, <1>15, <1>16, <1>17, PTL
     DEF Alone

(* The run keeps turn and ops of their types.                              *)
LEMMA TurnsAndOps == MCSpec => [](turn \in Components /\ ops \in Nat)
<1> DEFINE Counted == turn \in Components /\ ops \in Nat
<1>1. MCInit => Counted
  BY DEF MCInit
<1>2. Counted /\ MCStep => Counted'
  <2>1. CASE UNCHANGED <<turn, ops>>
    BY <2>1
  <2>2. ASSUME MCNext PROVE UNCHANGED turn /\ (ops' = ops \/ ops' = ops + 1 \/ ops' = ops + 0)
    <3>1. CostMoves => ops' = ops + 0 \/ ops' = ops + 1
      BY DEF CostMoves
    <3>2. MemoryMoves => ops' = ops \/ ops' = ops + 1
      BY DEF MemoryMoves
    <3>3. ToolboxMoves => ops' = ops \/ ops' = ops + 1
      BY DEF ToolboxMoves
    <3>4. DocumentMoves => ops' = ops \/ ops' = ops + 1
      BY DEF DocumentMoves
    <3>5. ApprovalMoves => ops' = ops + 0 \/ ops' = ops + 1
      BY DEF ApprovalMoves
    <3> QED BY <2>2, <3>1, <3>2, <3>3, <3>4, <3>5 DEF MCNext, OthersStay
  <2> QED BY <2>1, <2>2 DEF MCStep, MCVars
<1> QED BY <1>1, <1>2, PTL DEF MCSpec, MCStep

(* Every variable of every service has a value of its type in every state  *)
(* the run of the services reaches, for every value of the constants.      *)
THEOREM ServicesAreTyped == MCSpec => []TypeOK
<1>1. DelegationSpec => []DelegationTypeOK
  BY RowsStayInv, PTL DEF RowsInv
<1>2. LocksSpec => []LocksTypeOK
  BY LeasesAreBacked, PTL DEF LocksInv
<1>3. DatabaseSpec => []DatabaseTypeOK
  BY OpeningsStayInv, PTL DEF DatabaseInv
<1>4. McpSpec => []McpTypeOK
  BY CallsStayInv, PTL DEF McpInv
<1>5. /\ CostSpec => []CostTypeOK
      /\ ReviewSpec => []ReviewTypeOK
      /\ AutomationSpec => []AutomationTypeOK
      /\ WorkflowSpec => []WorkflowTypeOK
  BY LedgersBalance, HunksAreTheChange, TriggersAreServed, CompletedRunsAreWhole, PTL
<1>6. /\ MemorySpec => []MemoryTypeOK
      /\ DistillationSpec => []DistillationTypeOK
      /\ ToolboxSpec => []ToolboxTypeOK
      /\ DocumentsSpec => []DocumentsTypeOK
      /\ BrowserSpec => []BrowserTypeOK
  BY ToldKnowledgeIsKept, MarkersPassOnlyRead, MountedToolsAreServed, SearchIsServed,
     DeedsAreNotLost, PTL
<1> QED
  BY <1>1, <1>2, <1>3, <1>4, <1>5, <1>6, ServicesRunAlone, TurnsAndOps, SwarmTypes, ContextTypes,
     StreamingTypes, TypeCorrect, PTL DEF Alone, TypeOK

(* Every invariant and action property that the run of the services checks *)
(* holds of it for any number of agents, callers, files, messages and      *)
(* rows: the bounds of the instance, and the order in which it lets the    *)
(* services move, hide none of what could break them.                      *)
THEOREM ServicesAreSafe ==
  MCSpec => /\ [](/\ BoundedInheritance /\ MergedStaysMerged /\ LeaseIsExclusive
                  /\ TriggerIsServed /\ CompletedIsWhole /\ ReviewComesFirst
                  /\ VerdictIsFounded)
            /\ [](/\ RanOnce /\ KnowledgeKept /\ MarkerPassesOnlyRead
                  /\ ActiveBackendServes /\ ChunksCoverFile /\ NothingForgotten)
            /\ [](/\ CeilingHolds /\ LedgerBalances /\ PolicyIsStrict /\ HunkIsTheChange
                  /\ AnswerIsForCall /\ MountedToolsStay /\ ReplyIsWhole /\ DeedsAreKept
                  /\ ActsWithConsent /\ RowFollowsLog)
            /\ OncePerInterval
<1>1. Alone => /\ [](/\ BoundedInheritance /\ MergedStaysMerged /\ LeaseIsExclusive
                     /\ TriggerIsServed /\ CompletedIsWhole /\ ReviewComesFirst
                     /\ VerdictIsFounded)
               /\ OncePerInterval
  BY InheritanceIsBounded, MergesAreKept, LocksAreExclusive, TriggersAreServed,
     CompletedRunsAreWhole, ReviewsComeFirst, VerdictsAreFounded, TasksFireOncePerInterval, PTL
     DEF Alone
<1>2. Alone => [](/\ RanOnce /\ KnowledgeKept /\ MarkerPassesOnlyRead
                  /\ ActiveBackendServes /\ ChunksCoverFile /\ NothingForgotten)
  BY MigrationsRunOnce, ToldKnowledgeIsKept, MarkersPassOnlyRead, SearchIsServed, ChunksCover,
     NothingIsForgotten, PTL DEF Alone
<1>3. Alone => [](/\ CeilingHolds /\ LedgerBalances /\ PolicyIsStrict /\ HunkIsTheChange
                  /\ AnswerIsForCall /\ MountedToolsStay /\ ReplyIsWhole /\ DeedsAreKept
                  /\ ActsWithConsent /\ RowFollowsLog)
  BY CeilingsHold, LedgersBalance, ThePolicyIsStrict, HunksAreTheChange, AnswersAreForCalls,
     MountedToolsAreServed, RepliesAreWhole, DeedsAreNotLost, ConsentBeforeAct, RowsFollowLog, PTL
     DEF Alone
<1> QED BY <1>1, <1>2, <1>3, ServicesRunAlone, PTL
=============================================================================
