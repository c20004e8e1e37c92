------------------------------ MODULE Approval ------------------------------
(***************************************************************************)
(* How a run asks a person before it calls a tool: the approval branch of  *)
(* agent_runtime.rs, approval_engine.rs, approval_repo.rs, the proposals   *)
(* of diff_reviewer.rs, the event bus of a project, and the commands that  *)
(* answer (approval_commands.rs).                                          *)
(*                                                                         *)
(* Each action is one transaction or one access to the bus.  A call is a   *)
(* tool with its arguments, so two calls are equal when their hashes are.  *)
(* The permit a run gives back while it waits is the subject of Scheduler. *)
(***************************************************************************)
EXTENDS Integers, Sequences, FiniteSets

CONSTANTS
  Asker,      \* executions
  Call,       \* tool calls: a tool and its arguments
  Reviewed,   \* calls that write a file or a memory: a diff is proposed
  Small,      \* those of them that the reviewer approves without a person
  Id,         \* identifiers of approvals
  Command,    \* commands of the operator that can be in flight
  BusCap,     \* events the bus of a project keeps for its receivers
  NoId, NoCall

ASSUME ApprovalAssumption ==
  /\ Small \subseteq Reviewed /\ Reviewed \subseteq Call
  /\ BusCap \in Nat \ {0}
  /\ NoId \notin Id /\ NoCall \notin Call

VARIABLES
  (* The project database. *)
  approvalRow, \* approvals.status
  asks,        \* execution, tool and arguments_hash of each approval
  diff,        \* action_diffs.decision, by the approval_id of the row
  logged,      \* the last ApprovalResolved of each approval in domain_events
  (* Memory. *)
  run,         \* where each run is, and with which call and approval
  backlog,     \* the events the receiver of each run can still read, oldest first
  lags,        \* runs whose receiver has lost events and was not told yet
  cmd,         \* what each command of the operator is doing
  (* History. *)
  consent,     \* approvals to which the operator has said yes
  torn         \* approvals whose answer a crash has cut in two

dbVars == <<approvalRow, asks, diff, logged>>
approvalVars == <<approvalRow, asks, diff, logged, run, backlog, lags, cmd, consent, torn>>

AskPlace == {"off", "think", "ask", "request", "subscribe", "check", "wait", "act"}

EndedRun == [at |-> "off", call |-> NoCall, id |-> NoId, asked |-> FALSE]
Thinking == [EndedRun EXCEPT !.at = "think"]

IdleCommand == [at |-> "idle", id |-> NoId, yes |-> FALSE]

(* What a receiver can tell of an event: which approval it answers, if any.*)
Event == [id : Id \cup {NoId}, yes : BOOLEAN]

Other == [id |-> NoId, yes |-> FALSE]

Verdict(yes) == IF yes THEN "Approved" ELSE "Rejected"

ApprovalInit ==
  /\ approvalRow = [i \in Id |-> "none"]
  /\ asks = [i \in Id |-> <<>>]
  /\ diff = [i \in Id |-> "none"]
  /\ logged = [i \in Id |-> "none"]
  /\ run = [x \in Asker |-> EndedRun]
  /\ backlog = [x \in Asker |-> <<>>]
  /\ lags = {}
  /\ cmd = [r \in Command |-> IdleCommand]
  /\ consent = {}
  /\ torn = {}

-----------------------------------------------------------------------------
(* The event bus: a broadcast channel.  A receiver that falls behind by    *)
(* more than BusCap is told that it lags and goes on with the oldest event *)
(* the channel still has.                                                  *)

Listening == {x \in Asker : run[x].at \in {"check", "wait"}}

Publish(e, listeners) ==
  /\ backlog' = [x \in Asker |->
                  IF x \notin listeners THEN backlog[x]
                  ELSE IF Len(backlog[x]) < BusCap THEN Append(backlog[x], e)
                  ELSE Append(Tail(backlog[x]), e)]
  /\ lags' = lags \cup {x \in listeners : Len(backlog[x]) = BusCap}

(* The receiver is dropped with what it has not read. *)
Unsubscribe(x) ==
  /\ backlog' = [backlog EXCEPT ![x] = <<>>]
  /\ lags' = lags \ {x}

(* Other parts of the program publish as they please. *)
Chatter ==
  /\ Listening # {}
  /\ Publish(Other, Listening)
  /\ UNCHANGED <<dbVars, run, cmd, consent, torn>>

-----------------------------------------------------------------------------
(* A run.                                                                  *)

Fresh(i) == approvalRow[i] = "none" /\ diff[i] = "none"

Goes(x, from, to) ==
  /\ run[x].at = from
  /\ run' = [run EXCEPT ![x] = to]

LaunchRun(x) ==
  /\ Goes(x, "off", Thinking)
  /\ UNCHANGED <<dbVars, backlog, lags, cmd, consent, torn>>

(* The model calls a tool that writes: a diff is proposed with the id of   *)
(* the approval it will need, if it needs one.                             *)
ProposeDiff(x) ==
  /\ \E c \in Reviewed, i \in Id :
       /\ Fresh(i)
       /\ diff' = [diff EXCEPT ![i] = IF c \in Small THEN "AutoApproved" ELSE "Pending"]
       /\ Goes(x, "think",
               IF c \in Small
                 THEN [at |-> "act", call |-> c, id |-> NoId, asked |-> FALSE]
                 ELSE [at |-> "ask", call |-> c, id |-> i, asked |-> TRUE])
  /\ UNCHANGED <<approvalRow, asks, logged, backlog, lags, cmd, consent, torn>>

(* The model calls another tool: the policy allows it or asks.  (A call    *)
(* that it denies is recorded as an error, and the run thinks again.)      *)
EvaluateCall(x) ==
  /\ \E c \in Call \ Reviewed, asked \in BOOLEAN :
       Goes(x, "think", [at |-> IF asked THEN "ask" ELSE "act", call |-> c,
                         id |-> NoId, asked |-> asked])
  /\ UNCHANGED <<dbVars, backlog, lags, cmd, consent, torn>>

(* Faulty variant: an approval covers every call of its execution. *)
ApprovedAnyCall(x, c) ==
  \E i \in Id : approvalRow[i] = "Approved" /\ asks[i] # <<>> /\ asks[i][1] = x

(* has_approved: this execution, this tool, these arguments. *)
HasApproved(x, c) == \E i \in Id : asks[i] = <<x, c>> /\ approvalRow[i] = "Approved"

LookUp(x) ==
  /\ Goes(x, "ask", [run[x] EXCEPT !.at = IF HasApproved(x, run[x].call)
                                          THEN "act" ELSE "request"])
  /\ UNCHANGED <<dbVars, backlog, lags, cmd, consent, torn>>

(* PendingApproval is committed and projected: the row of the approval.    *)
RequestApproval(x) ==
  /\ \E i \in Id :
       /\ IF run[x].id = NoId THEN Fresh(i) ELSE i = run[x].id
       /\ Goes(x, "request", [run[x] EXCEPT !.at = "subscribe", !.id = i])
       /\ approvalRow' = [approvalRow EXCEPT ![i] = "Pending"]
       /\ asks' = [asks EXCEPT ![i] = <<x, run[x].call>>]
  /\ UNCHANGED <<diff, logged, backlog, lags, cmd, consent, torn>>

(* The run subscribes and then publishes its own request. *)
SubscribeRun(x) ==
  /\ Goes(x, "subscribe", [run[x] EXCEPT !.at = "check"])
  /\ Publish(Other, Listening \cup {x})
  /\ UNCHANGED <<dbVars, cmd, consent, torn>>

(* The answer has come; the receiver is dropped. *)
LearnAnswer(x, yes) ==
  /\ run' = [run EXCEPT ![x] = IF yes THEN [run[x] EXCEPT !.at = "act"] ELSE Thinking]
  /\ Unsubscribe(x)

Resolved(i) == approvalRow[i] \in {"Approved", "Rejected"}

(* Was it answered before the run could hear of it? *)
Check(x) ==
  /\ run[x].at = "check"
  /\ IF Resolved(run[x].id)
       THEN LearnAnswer(x, approvalRow[run[x].id] = "Approved")
       ELSE run' = [run EXCEPT ![x].at = "wait"] /\ UNCHANGED <<backlog, lags>>
  /\ UNCHANGED <<dbVars, cmd, consent, torn>>

(* The next event of the receiver. *)
HearEvent(x) ==
  /\ run[x].at = "wait"
  /\ x \notin lags
  /\ backlog[x] # <<>>
  /\ LET e == Head(backlog[x])
     IN IF e.id = run[x].id THEN LearnAnswer(x, e.yes)
        ELSE backlog' = [backlog EXCEPT ![x] = Tail(@)] /\ UNCHANGED <<run, lags>>
  /\ UNCHANGED <<dbVars, cmd, consent, torn>>

(* Faulty variant: a lag is ignored. *)
IgnoreLag(x) ==
  /\ run[x].at = "wait"
  /\ x \in lags
  /\ lags' = lags \ {x}
  /\ UNCHANGED <<dbVars, run, backlog, cmd, consent, torn>>

(* Events were lost: the row tells whether the answer was among them. *)
Lag(x) ==
  /\ run[x].at = "wait"
  /\ x \in lags
  /\ IF Resolved(run[x].id)
       THEN LearnAnswer(x, approvalRow[run[x].id] = "Approved")
       ELSE lags' = lags \ {x} /\ UNCHANGED <<run, backlog>>
  /\ UNCHANGED <<dbVars, cmd, consent, torn>>

(* The tool runs; the run thinks again. *)
ActOnCall(x) ==
  /\ Goes(x, "act", Thinking)
  /\ UNCHANGED <<dbVars, backlog, lags, cmd, consent, torn>>

(* The run finishes, or its token is cancelled at an await.  The row of an *)
(* approval it waited for stays 'Pending'.                                 *)
LeaveRun(x) ==
  /\ run[x].at \in {"think", "wait", "act"}
  /\ run' = [run EXCEPT ![x] = EndedRun]
  /\ Unsubscribe(x)
  /\ UNCHANGED <<dbVars, cmd, consent, torn>>

-----------------------------------------------------------------------------
(* The operator.  The panel resolves the diff first, if it shows one, and  *)
(* then the approval.  Nothing looks at the answer it may already have.    *)

Decide(r) ==
  /\ cmd[r].at = "idle"
  /\ \E i \in Id, yes \in BOOLEAN :
       /\ approvalRow[i] # "none"
       /\ \E at \in IF diff[i] = "none" THEN {"row"} ELSE {"row", "diff"} :
            cmd' = [cmd EXCEPT ![r] = [at |-> at, id |-> i, yes |-> yes]]
       /\ consent' = IF yes THEN consent \cup {i} ELSE consent
  /\ UNCHANGED <<dbVars, run, backlog, lags, torn>>

(* resolve_action_diff: the decision of the diff, and an event that is     *)
(* published without being committed.                                      *)
ResolveDiff(r) ==
  /\ cmd[r].at = "diff"
  /\ cmd' = [cmd EXCEPT ![r].at = "row"]
  /\ diff' = [diff EXCEPT ![cmd[r].id] = Verdict(cmd[r].yes)]
  /\ Publish(Other, Listening)
  /\ UNCHANGED <<approvalRow, asks, logged, run, consent, torn>>

(* resolve_approval, its first transaction: the row. *)
ResolveRow(r) ==
  /\ cmd[r].at = "row"
  /\ cmd' = [cmd EXCEPT ![r].at = "commit"]
  /\ approvalRow' = [approvalRow EXCEPT ![cmd[r].id] = Verdict(cmd[r].yes)]
  /\ UNCHANGED <<asks, diff, logged, run, backlog, lags, consent, torn>>

(* Faulty variant: the event is logged and not projected. *)
CommitEventOnly(r) ==
  /\ cmd[r].at = "commit"
  /\ cmd' = [cmd EXCEPT ![r].at = "publish"]
  /\ logged' = [logged EXCEPT ![cmd[r].id] = Verdict(cmd[r].yes)]
  /\ torn' = torn \ {cmd[r].id}
  /\ UNCHANGED <<approvalRow, asks, diff, run, backlog, lags, consent>>

(* Its second: ApprovalResolved is committed, and projected on the row.    *)
CommitAnswer(r) ==
  /\ cmd[r].at = "commit"
  /\ cmd' = [cmd EXCEPT ![r].at = "publish"]
  /\ logged' = [logged EXCEPT ![cmd[r].id] = Verdict(cmd[r].yes)]
  /\ approvalRow' = [approvalRow EXCEPT ![cmd[r].id] = Verdict(cmd[r].yes)]
  /\ torn' = torn \ {cmd[r].id}
  /\ UNCHANGED <<asks, diff, run, backlog, lags, consent>>

PublishAnswer(r) ==
  /\ cmd[r].at = "publish"
  /\ cmd' = [cmd EXCEPT ![r] = IdleCommand]
  /\ Publish([id |-> cmd[r].id, yes |-> cmd[r].yes], Listening)
  /\ UNCHANGED <<dbVars, run, consent, torn>>

-----------------------------------------------------------------------------
(* The program dies and is started again. *)
Crash ==
  /\ run' = [x \in Asker |-> EndedRun]
  /\ backlog' = [x \in Asker |-> <<>>]
  /\ lags' = {}
  /\ cmd' = [r \in Command |-> IdleCommand]
  /\ torn' = torn \cup {cmd[r].id : r \in {s \in Command : cmd[s].at = "commit"}}
  /\ UNCHANGED <<dbVars, consent>>

-----------------------------------------------------------------------------
(* What a run does without waiting for the model, the tool or a person. *)
RunStep(x) ==
  \/ LookUp(x) \/ RequestApproval(x) \/ SubscribeRun(x) \/ Check(x) \/ HearEvent(x) \/ Lag(x)

(* A command that was given runs to its end. *)
CommandStep(r) ==
  ResolveDiff(r) \/ ResolveRow(r) \/ CommitAnswer(r) \/ PublishAnswer(r)

Choice(x) == LaunchRun(x) \/ ProposeDiff(x) \/ EvaluateCall(x) \/ ActOnCall(x) \/ LeaveRun(x)

ApprovalNext ==
  \/ \E x \in Asker : RunStep(x) \/ Choice(x)
  \/ \E r \in Command : Decide(r) \/ CommandStep(r)
  \/ Chatter
  \/ Crash

ApprovalSpec == ApprovalInit /\ [][ApprovalNext]_approvalVars

(* The runtime polls every run and every command that can go on.  Nobody   *)
(* has to answer, and nothing else has to be published.                    *)
ApprovalFairness ==
  /\ \A x \in Asker : WF_approvalVars(RunStep(x))
  /\ \A r \in Command : WF_approvalVars(CommandStep(r))

ApprovalFairSpec == ApprovalSpec /\ ApprovalFairness

-----------------------------------------------------------------------------
RowTypeOK ==
  /\ approvalRow \in [Id -> {"none", "Pending", "Approved", "Rejected"}]
  /\ asks \in [Id -> {<<>>} \cup (Asker \X Call)]
  /\ diff \in [Id -> {"none", "Pending", "AutoApproved", "Approved", "Rejected"}]
  /\ logged \in [Id -> {"none", "Approved", "Rejected"}]

RunTypeOK ==
  /\ run \in [Asker -> [at : AskPlace, call : Call \cup {NoCall}, id : Id \cup {NoId},
                        asked : BOOLEAN]]
  /\ \A x \in Asker :
       /\ run[x].at \notin {"off", "think"} => run[x].call \in Call
       /\ run[x].at \in {"subscribe", "check", "wait"} => run[x].id \in Id

BusTypeOK ==
  /\ backlog \in [Asker -> Seq(Event)]
  /\ lags \subseteq Listening
  /\ \A x \in Asker : /\ Len(backlog[x]) <= BusCap
                      /\ backlog[x] # <<>> => x \in Listening

CommandTypeOK ==
  /\ cmd \in [Command -> [at : {"idle", "diff", "row", "commit", "publish"},
                          id : Id \cup {NoId}, yes : BOOLEAN]]
  /\ \A r \in Command : cmd[r].at # "idle" => cmd[r].id \in Id
  /\ consent \subseteq Id
  /\ torn \subseteq Id

(* Every variable has its type, and only a run that listens has a receiver.*)
ApprovalTypeOK == RowTypeOK /\ RunTypeOK /\ BusTypeOK /\ CommandTypeOK

(* A run is about to call a tool that needs a person only if the operator  *)
(* has said yes to a request of this very execution for this very call:    *)
(* whichever way it learned it (the table before it asked, the row after   *)
(* it subscribed, an event, the row after a lag), across crashes, and with *)
(* other runs and answers in between.                                      *)
ActsWithConsent ==
  \A x \in Asker :
    run[x].at = "act" /\ run[x].asked =>
      \E i \in Id : asks[i] = <<x, run[x].call>> /\ i \in consent

(* "Approvals are fully event-sourced": however many commands answer an    *)
(* approval at a time, its row ends with the answer the log has last,      *)
(* unless a crash came between the two transactions of one of them.        *)
RowFollowsLog ==
  \A i \in Id :
    i \notin torn /\ (\A r \in Command : ~(cmd[r].at = "commit" /\ cmd[r].id = i)) =>
      approvalRow[i] \in (IF logged[i] = "none" THEN {"none", "Pending"} ELSE {logged[i]})

(* An answer is never missed: a run does not go on waiting for an approval *)
(* that has one, whether the answer came before the run subscribed, was    *)
(* published while it listened, or was lost in a lag.                      *)
AnswerIsHeard ==
  \A x \in Asker : run[x].at = "wait" /\ Resolved(run[x].id) ~> run[x].at # "wait"

(* "Duplicate pending requests are REUSED, not re-created": no two pending *)
(* approvals of one execution are for the same call.                       *)
PendingIsReused ==
  \A i, j \in Id :
    approvalRow[i] = "Pending" /\ approvalRow[j] = "Pending" /\ asks[i] = asks[j] => i = j
=============================================================================
