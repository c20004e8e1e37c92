----------------------------- MODULE MCServices -----------------------------
(***************************************************************************)
(* The services around the runs, each explored by itself in one run: turn  *)
(* says which component moves, and the others keep their initial state.    *)
(* They share no state, so the run explores the sum of their behaviours    *)
(* and not the product.  ops counts the calls of people and tools whose    *)
(* number would otherwise be unbounded.                                    *)
(***************************************************************************)
EXTENDS Delegation, Locks, Cost, Review, Automation, Workflow, Swarm, Memory,
        Distillation, Mcp, Toolbox, Documents, Streaming, Database, Context, Browser,
        Approval

CONSTANTS MaxOps, MaxStops, MaxClock, MaxId, MaxPieces, MaxMail

VARIABLES turn, ops

MCVars == <<turn, ops>>

Components == {"delegation", "merging", "locks", "cost", "review", "automation", "workflow", "swarm",
  "memory", "distillation", "mcp", "toolbox", "plugin", "documents", "chunker",
  "streaming", "database", "context", "browser", "approval"}

-----------------------------------------------------------------------------
(* Values of the constants.                                                *)
OneConflict == {<<CHOOSE a \in Agent : TRUE, b>> : b \in Agent}
EveryTick == [j \in Job |-> 1]
Offers == [x \in Server \cup {Plugin} |-> IF x = Plugin THEN ToolName \ NativeName ELSE ToolName]
DocLine == [boundary : BOOLEAN, tokens : 0 .. Ceiling]
Asked == {<<"system">>, <<"system", "user", "assistant", "tool">>}
Spoken == [p \in Streamer \cup {"google"} |->
  CASE p = "openai"    -> {Blank, {}, {"text"}, {"text", "usage"}, {"end"}}
    [] p = "anthropic" -> {Blank, {}, {"text"}, {"usage"}, {"end"}}
    [] p = "ollama"    -> {{}, {"text"}, {"call"}, {"text", "end"}}
    [] p = "google"    -> {{"text"}, {"call"}}]

(* A fork: a task, and a condition whose one side asks a person.           *)
FlowGraph == [n \in {"s", "p", "t", "c", "h", "e"} |->
  CASE n = "s" -> "Start"     [] n = "p" -> "Parallel"    [] n = "t" -> "AgentTask"
    [] n = "c" -> "Condition" [] n = "h" -> "HumanReview" [] n = "e" -> "End"]
To(m, n, cond) == [from |-> m, to |-> n, when |-> cond]
FlowEdges == <<To("s", "p", "none"), To("p", "c", "none"), To("p", "t", "none"),
               To("c", "t", "true"), To("c", "h", "false"),
               To("t", "e", "none"), To("h", "e", "none")>>

-----------------------------------------------------------------------------
(* Agents and callers are interchangeable: the lowest begins first.        *)
LowestFirst(resting, busy) == \A x \in resting \cap busy, y \in resting : ~(y < x)

(* Two agents delegate and are delegated to; the third has no part.        *)
DelegationMoves ==
  /\ DelegationNext /\ outages' <= MaxStops
  /\ LowestFirst({a \in Agent : place[a] = "none"}, {a \in Agent : place'[a] # "none"})
  /\ \A a \in Agent :
       /\ a > 2 => place'[a] = "none"
       /\ place[a] = "tree" /\ agents'[a].status = "Active" =>
            agents'[a].caps \in {Capability, Inherited(agents[a].parent, Capability)}

(* Three children of the root agent, started together, merge their work.   *)
MergingMoves ==
  LET begun(a) == childStatus[a] \in {"Running", "Ended"}
  IN \E a \in Agent :
       \/ /\ ~begun(a) /\ (\A b \in Agent : b < a => begun(b))
          /\ CreateWorktree(a) \/ CommitDelegation(a) \/ QueueChild(a) \/ StartChild(a)
          /\ agents'[a].parent = Root
       \/ /\ \A b \in Agent : begun(b)
          /\ \/ EditWorktree(a) \/ CommitWorktreeChanges(a) \/ Conclude(a) \/ MergeAnalysis(a)
             \/ FastForward(a) \/ JoinCommits(a) \/ CleanupAgentWorktree(a) \/ MarkRetired(a)
             \/ ReportToParent(a) \/ WakeParent(a)

CostMoves ==
  /\ ops' = ops + (IF \E r \in Caller : call[r].at = "idle" /\ call'[r].at # "idle"
                   THEN 1 ELSE 0)
  /\ ops' <= 2 * MaxOps
  /\ LowestFirst({r \in Caller : call[r].at = "idle"}, {r \in Caller : call'[r].at # "idle"})

(* Every question about the policies, and every one about a proposal.      *)
Questions ==
  [known : BOOLEAN, caps : {{}, ToolCapability}, effect : Effect, risk : {"Low", "Medium"},
   policy : [ToolCapability -> [Layer -> LayerValue]], kind : {"None"}, mild : {FALSE},
   secret : {FALSE}, lenient : {FALSE}]
  \cup
  [known : {TRUE}, caps : {ToolCapability}, effect : {"IdempotentMutation"},
   risk : {"Low", "Medium"}, policy : {[c \in ToolCapability |-> [l \in Layer |-> o]] : o \in Outcome},
   kind : Kind, mild : BOOLEAN, secret : BOOLEAN, lenient : BOOLEAN]

MemoryMoves ==
  \/ /\ nextId <= MaxId /\ UNCHANGED ops
     /\ \E a \in Author, c \in Content :
          \/ \E kind \in {"insert", "distill"}, tier \in {"Working", "Semantic"}, w \in Weights :
               Look(a, kind, c, tier, w)
          \/ \E i \in DOMAIN rows : BeginReplace(a, i, c)
  \/ /\ UNCHANGED ops
     /\ \/ \E a \in Author : Reinforce(a) \/ Insert(a) \/ Invalidate(a) \/ Supersede(a) \/ Fail(a)
        \/ ListDue \/ (\E i \in promoter.list : PromoteMemory(i)) \/ AbortCycle \/ Prune
        \/ DayEnds
  \/ /\ ops < MaxOps /\ ops' = ops + 1
     /\ \E i \in DOMAIN rows :
          \/ Archive(i) \/ DeleteMemory(i) \/ GrowOld(i) \/ Search({i})
          \/ \E tier \in Tier : UpdateMemoryTier(i, tier)

ToolboxMoves ==
  \/ /\ ops < 2 * MaxOps /\ ops' = ops + 1
     /\ \/ ForgetExecutor
        \/ \E s \in Server : \/ RegisterServer(s) \/ DeleteServer(s)
                             \/ \E b \in BOOLEAN : ToggleApproval(s, b)
        \/ \E u \in User : BeginRun(u) \/ \E s \in Server \cup {Plugin} : Connect(u, s)
  \/ /\ UNCHANGED ops
     /\ \E u \in User : \/ ConnectFails(u) \/ ToolsListed(u) \/ InitializePlugin(u) \/ GetExecutor(u)
                        \/ InsertExecutor(u) \/ RegisterTool(u) \/ Finish(u)

PluginMoves == \E u \in User : CheckCalls(u) \/ CountCall(u) \/ CallEnds(u) \/ CallDropped(u)

DocumentMoves ==
  \/ /\ ops <= MaxOps /\ ops' = ops + 1
     /\ LoadEmbeddings \/ (\E f \in File, v \in Version \cup {0} : EditFile(f, v))
  \/ /\ UNCHANGED ops
     /\ \/ CopyEmbeddings \/ SwitchBackend \/ MigrationFails
        \/ \E i \in Ingestor : \/ ReadBackend(i) \/ IngestFails(i)
                               \/ \E f \in File : ReadFile(i, f)
                               \/ \E x, y \in BOOLEAN : StoreChunks(i, x, y)
                               \/ \E x \in BOOLEAN : WriteLance(i, x)

McpMoves ==
  /\ serial' <= 2 /\ Cardinality(frames') <= 1
  /\ LowestFirst({c \in Rpc : rpc[c].state = "idle"}, {c \in Rpc : rpc'[c].state = "sending"})

(* Answers of the operator are counted, and the lowest identifier and      *)
(* command that are free are used: which one it is makes no difference.    *)
ApprovalMoves ==
  /\ ops' = ops + (IF \E r \in Command : cmd[r].at = "idle" /\ cmd'[r].at # "idle"
                   THEN 1 ELSE 0)
  /\ ops' <= MaxOps
  /\ \A i, j \in Id : i < j /\ Fresh(i)' => Fresh(j)'
  /\ \A r, s \in Command :
       r < s /\ cmd[s].at = "idle" /\ cmd[r].at = "idle" => cmd'[s].at = "idle"

BrowserMoves ==
  /\ deeds' + Len(snapshots') <= 2 /\ Len(keeps') <= 2
  /\ LowestFirst({c \in Visitor : visit[c].at = "away"}, {c \in Visitor : visit'[c].at # "away"})

(* Only the first attempt at the longer prompt has long replies.           *)
ShortAgain ==
  attempt' > 1 \/ Len(turnsSent') <= 1 => Len(reply'.lines) < MaxReply /\ reply'.tail = NoTail

-----------------------------------------------------------------------------
MCInit ==
  /\ DelegationInit /\ LocksInit /\ CostInit /\ ReviewInit /\ AutomationInit /\ WorkflowInit
  /\ SwarmInit /\ MemoryInit /\ DistillationInit /\ McpInit /\ ToolboxInit /\ DocumentsInit
  /\ StreamingInit /\ DatabaseInit /\ ContextInit /\ BrowserInit /\ ApprovalInit
  /\ turn \in Components /\ ops = 0
  /\ AgentSpawn \notin agents[Root].caps
  /\ turn # "delegation" => agents[Root].caps = {}
  /\ turn # "mcp" => transport = "stdio"
  /\ \A f \in File : disk[f] = 1
  /\ turn # "streaming" => provider = "ollama"
  /\ turn # "database" => file = FileOf(0)

(* The variables of the other components, for the turn of component c.     *)
OthersStay(c) ==
  /\ turn = c /\ UNCHANGED turn
  /\ IF c \in {"cost", "memory", "toolbox", "documents", "approval"} THEN TRUE ELSE UNCHANGED ops
  /\ IF c \in {"delegation", "merging"} THEN TRUE ELSE UNCHANGED delegationVars
  /\ IF c = "locks" THEN TRUE ELSE UNCHANGED lockVars
  /\ IF c = "cost" THEN TRUE ELSE UNCHANGED costVars
  /\ IF c = "review" THEN TRUE ELSE UNCHANGED reviewVars
  /\ IF c = "automation" THEN TRUE ELSE UNCHANGED autoVars
  /\ IF c = "workflow" THEN TRUE ELSE UNCHANGED flowVars
  /\ IF c = "swarm" THEN TRUE ELSE UNCHANGED swarmVars
  /\ IF c = "memory" THEN TRUE ELSE UNCHANGED memoryVars
  /\ IF c = "distillation" THEN TRUE ELSE UNCHANGED distillVars
  /\ IF c = "mcp" THEN TRUE ELSE UNCHANGED mcpVars
  /\ IF c \in {"toolbox", "plugin"} THEN TRUE ELSE UNCHANGED toolVars
  /\ IF c \in {"documents", "chunker"} THEN TRUE ELSE UNCHANGED documentVars
  /\ IF c = "streaming" THEN TRUE ELSE UNCHANGED streamVars
  /\ IF c = "database" THEN TRUE ELSE UNCHANGED databaseVars
  /\ IF c = "context" THEN TRUE ELSE UNCHANGED contextVars
  /\ IF c = "browser" THEN TRUE ELSE UNCHANGED browserVars
  /\ IF c = "approval" THEN TRUE ELSE UNCHANGED approvalVars

MCNext ==
  \/ OthersStay("delegation") /\ DelegationMoves
  \/ OthersStay("merging") /\ MergingMoves
  \/ OthersStay("locks") /\ LocksNext /\ clock' <= MaxClock
  \/ OthersStay("cost") /\ CostNext /\ CostMoves
  \/ OthersStay("review") /\ (AskEdit \/ \E t \in Questions : AskTool(t))
  \/ OthersStay("automation") /\ AutomationNext /\ time' < MaxClock /\ stops' <= MaxStops
       /\ \A w \in Worker : mail'[w] <= MaxMail /\ requests'[w] <= MaxMail
  \/ OthersStay("workflow") /\ WorkflowNext /\ flowStops' <= MaxStops
  \/ OthersStay("swarm") /\ SwarmNext
  \/ OthersStay("memory") /\ MemoryMoves
       /\ LowestFirst({a \in Author : errand[a] = Idle}, {a \in Author : errand'[a] # Idle})
  \/ OthersStay("distillation") /\ DistillationNext
  \/ OthersStay("mcp") /\ McpNext /\ McpMoves
  \/ OthersStay("toolbox") /\ ToolboxMoves
  \/ OthersStay("plugin") /\ PluginMoves /\ abandoned' < 2
  \/ OthersStay("documents") /\ DocumentMoves /\ nextChunk' <= 3
  \/ OthersStay("chunker") /\ (\E l \in Line : ChunkNextLine(l)) /\ Len(lines') <= MaxPieces
  \/ OthersStay("streaming") /\ StreamingNext /\ ShortAgain
  \/ OthersStay("database") /\ DatabaseNext /\ file'.writes <= 1 /\ readers' <= PoolSize + 1
  \/ OthersStay("context") /\ ContextNext
  \/ OthersStay("browser") /\ BrowserNext /\ BrowserMoves
  \/ OthersStay("approval") /\ ApprovalNext /\ ApprovalMoves

(* The runtime polls the runs and the commands of Approval.  The other     *)
(* components have no property that needs fairness.                        *)
RunsAreServed ==
  /\ \A x \in Asker : WF_approvalVars(turn = "approval" /\ RunStep(x))
  /\ \A r \in Command : WF_approvalVars(turn = "approval" /\ CommandStep(r))

MCSpec == MCInit /\ [][MCNext]_<<MCVars, delegationVars, lockVars, costVars, reviewVars,
  autoVars, flowVars, swarmVars, memoryVars, distillVars, mcpVars, toolVars, documentVars,
  streamVars, databaseVars, contextVars, browserVars, approvalVars>>
  /\ RunsAreServed

(* Every variable of every component has a value of its type.              *)
TypeOK ==
  /\ turn \in Components /\ ops \in Nat
  /\ DelegationTypeOK /\ LocksTypeOK /\ CostTypeOK /\ ReviewTypeOK /\ AutomationTypeOK
  /\ WorkflowTypeOK /\ SwarmTypeOK /\ MemoryTypeOK /\ DistillationTypeOK /\ McpTypeOK
  /\ ToolboxTypeOK /\ DocumentsTypeOK /\ StreamingTypeOK /\ DatabaseTypeOK /\ ContextTypeOK
  /\ BrowserTypeOK /\ ApprovalTypeOK
=============================================================================
