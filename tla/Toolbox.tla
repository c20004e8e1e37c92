------------------------------ MODULE Toolbox ------------------------------
(***************************************************************************)
(* The tools of one project: its tool executor (tool_executor.rs,          *)
(* app_state.rs), which is made when it is first asked for; the registry   *)
(* of MCP servers and the commands that mount the tools of a server or of  *)
(* a plugin (system_commands.rs); and the calls of a plugin's tool         *)
(* (plugin_runner.rs).                                                     *)
(***************************************************************************)
EXTENDS Integers, Sequences, FiniteSets

CONSTANTS
  User,         \* tasks that ask for the executor: runs and commands
  Server,       \* names of MCP servers
  Plugin,       \* where a plugin's tool comes from
  Native,       \* where a native tool comes from
  ToolName,     \* names of tools
  NativeName,   \* those of the native tools
  ToolsOf,      \* the names each server and the plugin offers
  MaxCalls      \* calls of a plugin's tool at the same time (3)

ASSUME ToolboxAssumption ==
  /\ NativeName \subseteq ToolName /\ MaxCalls \in Nat
  /\ ToolsOf \in [Server \cup {Plugin} -> SUBSET ToolName]

Still == [step |-> "rest", from |-> Native, seen |-> 0, box |-> 0, left |-> {}]

VARIABLES
  mcpRegistry,  \* mcp_server_registry
  executor,     \* the project's tool executor, 0 when there is none
  boxes,        \* the executors made: where the tool of each name comes from, or {}
  user,         \* what each task is doing
  offered,      \* history: tools reported as mounted: name, origin, executor
  raced,        \* history: executors that were forgotten, or replaced by one begun
                \*   when there was none
  callStep,     \* calls of the plugin's tool: "none", "checked" or "running"
  activeCalls,  \* active_calls
  abandoned     \* history: running calls whose runs were cancelled

toolVars == <<mcpRegistry, executor, boxes, user, offered, raced,
              callStep, activeCalls, abandoned>>
callVars == <<callStep, activeCalls, abandoned>>

ToolboxTypeOK ==
  /\ mcpRegistry \in [Server -> {"absent", "registered", "approved"}]
  /\ executor \in 0..Len(boxes) /\ raced \subseteq 1..Len(boxes)
  /\ \A b \in 1..Len(boxes) :
       boxes[b] \in [ToolName -> SUBSET (Server \cup {Plugin, Native})]
  /\ user \in [User -> [step: {"rest", "connect", "ask", "create", "mount"},
                        from: Server \cup {Plugin, Native}, seen: 0..Len(boxes),
                        box: 0..Len(boxes), left: SUBSET ToolName]]
  /\ callStep \in [User -> {"none", "checked", "running"}]
  /\ activeCalls \in Nat /\ abandoned \in Nat

ToolboxInit ==
  /\ mcpRegistry = [s \in Server |-> "absent"]
  /\ executor = 0 /\ boxes = <<>> /\ user = [u \in User |-> Still]
  /\ offered = {} /\ raced = {}
  /\ callStep = [u \in User |-> "none"] /\ activeCalls = 0 /\ abandoned = 0

(* Registering takes back an approval; approval and deletion do not look   *)
(* at what is mounted.                                                     *)
RegisterServer(s) ==
  /\ mcpRegistry' = [mcpRegistry EXCEPT ![s] = "registered"]
  /\ UNCHANGED <<executor, boxes, user, offered, raced, callVars>>

ToggleApproval(s, approved) ==
  /\ mcpRegistry[s] # "absent"
  /\ mcpRegistry' = [mcpRegistry EXCEPT ![s] = IF approved THEN "approved" ELSE "registered"]
  /\ UNCHANGED <<executor, boxes, user, offered, raced, callVars>>

DeleteServer(s) ==
  /\ mcpRegistry' = [mcpRegistry EXCEPT ![s] = "absent"]
  /\ UNCHANGED <<executor, boxes, user, offered, raced, callVars>>

(* connect_mcp_server: the registry is looked at, then the server is asked *)
(* for its tools; load_plugin asks the plugin, approved by nobody.         *)
Connect(u, s) ==
  /\ user[u] = Still
  /\ s \in Server => mcpRegistry[s] = "approved"
  /\ s # Native
  /\ user' = [user EXCEPT ![u] = [Still EXCEPT !.step = "connect", !.from = s]]
  /\ UNCHANGED <<mcpRegistry, executor, boxes, offered, raced, callVars>>

ConnectFails(u) ==
  /\ user[u].step = "connect"
  /\ user' = [user EXCEPT ![u] = Still]
  /\ UNCHANGED <<mcpRegistry, executor, boxes, offered, raced, callVars>>

Offered(u) == user' = [user EXCEPT ![u].step = "ask", ![u].left = ToolsOf[user[u].from]]

(* tools/list; every answer to the handshake before it will do.            *)
ToolsListed(u) ==
  /\ user[u].step = "connect" /\ user[u].from \in Server
  /\ Offered(u)
  /\ UNCHANGED <<mcpRegistry, executor, boxes, offered, raced, callVars>>

(* initialize_plugin: the plugin is started, tells its one tool, and is    *)
(* killed; without a manifest it has none.                                 *)
InitializePlugin(u) ==
  /\ user[u].step = "connect" /\ user[u].from = Plugin
  /\ Offered(u)
  /\ UNCHANGED <<mcpRegistry, executor, boxes, offered, raced, callVars>>

(* A run asks for the executor as well.                                    *)
BeginRun(u) ==
  /\ user[u] = Still
  /\ user' = [user EXCEPT ![u].step = "ask"]
  /\ UNCHANGED <<mcpRegistry, executor, boxes, offered, raced, callVars>>

Has(u, b) == user' = [user EXCEPT ![u].step = "mount", ![u].box = b]

(* Mutant: every task makes an executor of its own. *)
CreateAlways(u) ==
  /\ user[u].step = "ask"
  /\ user' = [user EXCEPT ![u].step = "create", ![u].seen = executor]
  /\ UNCHANGED <<mcpRegistry, executor, boxes, offered, raced, callVars>>

(* get_or_create_tool_executor: the one that is there is taken ...         *)
GetExecutor(u) ==
  /\ user[u].step = "ask"
  /\ IF executor # 0 THEN Has(u, executor)
     ELSE user' = [user EXCEPT ![u].step = "create", ![u].seen = executor]
  /\ UNCHANGED <<mcpRegistry, executor, boxes, offered, raced, callVars>>

(* ... or, the native tools having been registered in a new one, that one  *)
(* is put in its place, whether there is one by now or not.                *)
InsertExecutor(u) ==
  /\ user[u].step = "create"
  /\ boxes' = Append(boxes, [n \in ToolName |-> IF n \in NativeName THEN {Native} ELSE {}])
  /\ executor' = Len(boxes) + 1
  /\ raced' = raced \cup {b \in {executor} : b # 0 /\ user[u].seen = 0}
  /\ Has(u, Len(boxes) + 1)
  /\ UNCHANGED <<mcpRegistry, offered, callVars>>

(* register_tool: one tool after the other, over any of the same name.     *)
RegisterTool(u) ==
  /\ user[u].step = "mount" /\ user[u].left # {}
  /\ \E n \in user[u].left :
       /\ boxes' = [boxes EXCEPT ![user[u].box][n] = {user[u].from}]
       /\ user' = [user EXCEPT ![u].left = @ \ {n}]
       /\ offered' = {o \in offered : o[1] # n \/ o[3] # user[u].box}
                       \cup {<<n, user[u].from, user[u].box>>}
  /\ UNCHANGED <<mcpRegistry, executor, raced, callVars>>

Finish(u) ==
  /\ user[u].step = "mount" /\ user[u].left = {}
  /\ user' = [user EXCEPT ![u] = Still]
  /\ UNCHANGED <<mcpRegistry, executor, boxes, offered, raced, callVars>>

(* delete_project forgets the executor, and no task that has it.           *)
ForgetExecutor ==
  /\ executor # 0 /\ executor' = 0
  /\ raced' = raced \cup {executor}
  /\ UNCHANGED <<mcpRegistry, boxes, user, offered, callVars>>

(* A plugin's tool checks the count of its calls, and then counts itself.  *)
CheckCalls(u) ==
  /\ callStep[u] = "none" /\ activeCalls < MaxCalls
  /\ callStep' = [callStep EXCEPT ![u] = "checked"]
  /\ UNCHANGED <<mcpRegistry, executor, boxes, user, offered, raced, activeCalls, abandoned>>

CountCall(u) ==
  /\ callStep[u] = "checked"
  /\ callStep' = [callStep EXCEPT ![u] = "running"]
  /\ activeCalls' = activeCalls + 1
  /\ UNCHANGED <<mcpRegistry, executor, boxes, user, offered, raced, abandoned>>

(* It answers, fails or times out after 30 seconds ...                     *)
CallEnds(u) ==
  /\ callStep[u] = "running"
  /\ callStep' = [callStep EXCEPT ![u] = "none"]
  /\ activeCalls' = activeCalls - 1
  /\ UNCHANGED <<mcpRegistry, executor, boxes, user, offered, raced, abandoned>>

(* ... or is dropped with its run, and stays counted.                      *)
CallDropped(u) ==
  /\ callStep[u] = "running"
  /\ callStep' = [callStep EXCEPT ![u] = "none"]
  /\ abandoned' = abandoned + 1
  /\ UNCHANGED <<mcpRegistry, executor, boxes, user, offered, raced, activeCalls>>

ToolboxNext ==
  \/ \E s \in Server :
       \/ RegisterServer(s) \/ DeleteServer(s)
       \/ \E b \in BOOLEAN : ToggleApproval(s, b)
  \/ \E u \in User :
       \/ \E s \in Server \cup {Plugin} : Connect(u, s)
       \/ ConnectFails(u) \/ ToolsListed(u) \/ InitializePlugin(u) \/ BeginRun(u) \/ GetExecutor(u)
       \/ InsertExecutor(u) \/ RegisterTool(u) \/ Finish(u)
       \/ CheckCalls(u) \/ CountCall(u) \/ CallEnds(u) \/ CallDropped(u)
  \/ ForgetExecutor

ToolboxSpec == ToolboxInit /\ [][ToolboxNext]_toolVars

(* A tool that was mounted is the one that the project's executor runs     *)
(* under its name, until another is mounted under it: unless the executor  *)
(* it was mounted in was forgotten with the project, or was one of two     *)
(* that two tasks made at the same time, of which the later replaced it.   *)
MountedToolsStay ==
  \A o \in offered :
    \/ executor # 0 /\ boxes[executor][o[1]] = {o[2]}
    \/ o[3] \in raced
=============================================================================
