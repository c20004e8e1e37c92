--------------------------- MODULE ApprovalProofs ---------------------------
(***************************************************************************)
(* Theorems about Approval: no run calls a tool that needs a person before *)
(* the operator has said yes to that very call, and the row of an approval *)
(* ends with the answer that the log has.                                  *)
(*                                                                         *)
(* A run learns of a yes in four ways, and the inductive invariant says    *)
(* that each of them tells the truth: an approved row, an answer in flight *)
(* and an unread event stand for an approval in consent, and the approval  *)
(* a run has asked for is for its own call.  The last needs that no other  *)
(* run takes the id which a proposal has reserved.                         *)
(***************************************************************************)
EXTENDS Approval, SequenceTheorems, TLAPS

RunRecord ==
  [at : AskPlace, call : Call \cup {NoCall}, id : Id \cup {NoId}, asked : BOOLEAN]

RunOK(r) ==
  /\ r \in RunRecord
  /\ r.at \notin {"off", "think"} => r.call \in Call
  /\ r.at \in {"subscribe", "check", "wait"} => r.id \in Id

Hearing(r) == r.at \in {"check", "wait"}

-----------------------------------------------------------------------------
(* Types.                                                                  *)

LEMMA TypeInit == ApprovalInit => ApprovalTypeOK
<1> SUFFICES ASSUME ApprovalInit
             PROVE  ApprovalTypeOK
  OBVIOUS
<1>1. RowTypeOK
  BY DEF ApprovalInit, RowTypeOK
<1>2. RunTypeOK
  BY DEF ApprovalInit, RunTypeOK, EndedRun, AskPlace
<1>3. BusTypeOK
  <2>1. <<>> \in Seq(Event) /\ Len(<<>>) = 0
    OBVIOUS
  <2>2. QED
    BY <2>1, ApprovalAssumption DEF ApprovalInit, BusTypeOK
<1>4. CommandTypeOK
  BY DEF ApprovalInit, CommandTypeOK, IdleCommand
<1>5. QED
  BY <1>1, <1>2, <1>3, <1>4 DEF ApprovalTypeOK

(* A run moves to a place with a proper row. *)
LEMMA RunMoves ==
  ASSUME RunTypeOK, NEW x \in Asker, NEW r, RunOK(r), run' = [run EXCEPT ![x] = r]
  PROVE  /\ RunTypeOK' /\ run'[x] = r
         /\ \A y \in Asker \ {x} : run'[y] = run[y]
         /\ Listening' = IF Hearing(r) THEN Listening \cup {x} ELSE Listening \ {x}
<1>1. /\ run' \in [Asker -> RunRecord] /\ run'[x] = r
      /\ \A y \in Asker \ {x} : run'[y] = run[y]
  BY DEF RunTypeOK, RunOK, RunRecord
<1>2. RunTypeOK'
  BY <1>1 DEF RunTypeOK, RunOK, RunRecord
<1>3. Listening' = IF Hearing(r) THEN Listening \cup {x} ELSE Listening \ {x}
  BY <1>1 DEF Listening, Hearing
<1>4. QED
  BY <1>1, <1>2, <1>3

(* The bus after a publication, for receivers that exist then. *)
LEMMA PublishKeepsBus ==
  ASSUME BusTypeOK, NEW e \in Event, NEW listeners, Publish(e, listeners),
         listeners \subseteq Listening', Listening \subseteq Listening'
  PROVE  BusTypeOK'
<1>1. \A x \in Asker :
        /\ backlog'[x] \in Seq(Event) /\ Len(backlog'[x]) <= BusCap
        /\ backlog'[x] # <<>> => x \in Listening'
  <2>1. TAKE x \in Asker
  <2>2. backlog[x] \in Seq(Event) /\ Len(backlog[x]) \in Nat /\ Len(backlog[x]) <= BusCap
    BY DEF BusTypeOK
  <2>3. CASE x \notin listeners
    <3>1. backlog'[x] = backlog[x]
      BY <2>3 DEF Publish
    <3>2. QED
      BY <2>2, <3>1 DEF BusTypeOK
  <2>4. CASE x \in listeners /\ Len(backlog[x]) < BusCap
    <3>1. backlog'[x] = Append(backlog[x], e)
      BY <2>4 DEF Publish
    <3>2. Append(backlog[x], e) \in Seq(Event)
          /\ Len(Append(backlog[x], e)) = Len(backlog[x]) + 1
      BY <2>2
    <3>3. QED
      BY <2>2, <2>4, <3>1, <3>2, ApprovalAssumption
  <2>5. CASE x \in listeners /\ ~(Len(backlog[x]) < BusCap)
    <3>1. backlog'[x] = Append(Tail(backlog[x]), e)
      BY <2>5 DEF Publish
    <3>2. Len(backlog[x]) = BusCap /\ backlog[x] # <<>>
      BY <2>2, <2>5, ApprovalAssumption
    <3>3. Tail(backlog[x]) \in Seq(Event) /\ Len(Tail(backlog[x])) = BusCap - 1
      BY <2>2, <3>2, HeadTailProperties, ApprovalAssumption
    <3>4. /\ Append(Tail(backlog[x]), e) \in Seq(Event)
          /\ Len(Append(Tail(backlog[x]), e)) = BusCap
      BY <3>3, AppendProperties, ApprovalAssumption
    <3>5. QED
      BY <2>5, <3>1, <3>4, ApprovalAssumption
  <2>6. QED
    BY <2>3, <2>4, <2>5
<1>2. backlog' \in [Asker -> Seq(Event)]
  BY <1>1 DEF Publish
<1>3. lags' \subseteq Listening'
  BY DEF Publish, BusTypeOK
<1>4. QED
  BY <1>1, <1>2, <1>3 DEF BusTypeOK

(* The receiver of a run that no longer listens is dropped. *)
LEMMA UnsubscribeKeepsBus ==
  ASSUME BusTypeOK, NEW x \in Asker, Unsubscribe(x), Listening' = Listening \ {x}
  PROVE  BusTypeOK'
<1>1. <<>> \in Seq(Event) /\ Len(<<>>) = 0
  OBVIOUS
<1>2. backlog' = [backlog EXCEPT ![x] = <<>>] /\ lags' = lags \ {x}
  BY DEF Unsubscribe
<1>3. backlog' \in [Asker -> Seq(Event)]
  BY <1>1, <1>2 DEF BusTypeOK
<1>4. \A y \in Asker : /\ Len(backlog'[y]) <= BusCap
                       /\ backlog'[y] # <<>> => y \in Listening'
  BY <1>1, <1>2, ApprovalAssumption DEF BusTypeOK
<1>5. QED
  BY <1>2, <1>3, <1>4 DEF BusTypeOK

(* The receiver has read its oldest event. *)
LEMMA ReadKeepsBus ==
  ASSUME BusTypeOK, NEW x \in Asker, backlog[x] # <<>>,
         backlog' = [backlog EXCEPT ![x] = Tail(@)], UNCHANGED <<lags, Listening>>
  PROVE  BusTypeOK'
<1>1. /\ backlog[x] \in Seq(Event) /\ Len(backlog[x]) <= BusCap /\ x \in Listening
  BY DEF BusTypeOK
<1>2. Tail(backlog[x]) \in Seq(Event) /\ Len(Tail(backlog[x])) = Len(backlog[x]) - 1
  BY <1>1, HeadTailProperties
<1>3. backlog' \in [Asker -> Seq(Event)] /\ backlog'[x] = Tail(backlog[x])
      /\ \A y \in Asker \ {x} : backlog'[y] = backlog[y]
  BY <1>2 DEF BusTypeOK
<1>4. Len(backlog[x]) \in Nat /\ Len(Tail(backlog[x])) <= BusCap
  BY <1>1, <1>2, ApprovalAssumption
<1>5. \A y \in Asker : /\ Len(backlog'[y]) <= BusCap
                       /\ backlog'[y] # <<>> => y \in Listening'
  BY <1>1, <1>3, <1>4 DEF BusTypeOK
<1>6. QED
  BY <1>3, <1>5 DEF BusTypeOK

(* A step of a run that does not listen, to a place where it does not.     *)
LEMMA QuietMove ==
  ASSUME ApprovalTypeOK, NEW x \in Asker, NEW from, NEW r, Goes(x, from, r), RunOK(r),
         from \notin {"check", "wait"}, ~Hearing(r), UNCHANGED <<backlog, lags>>
  PROVE  RunTypeOK' /\ BusTypeOK'
<1>1. /\ RunTypeOK' /\ Listening' = Listening \ {x} /\ x \notin Listening
  BY RunMoves DEF ApprovalTypeOK, Goes, Listening
<1>2. Listening' = Listening
  BY <1>1
<1>3. BusTypeOK'
  BY <1>2 DEF ApprovalTypeOK, BusTypeOK
<1>4. QED
  BY <1>1, <1>3

LEMMA RowOfRun ==
  ASSUME ApprovalTypeOK, NEW x \in Asker
  PROVE  RunOK(run[x]) /\ run = [y \in Asker |-> run[y]]
BY DEF ApprovalTypeOK, RunTypeOK, RunOK, RunRecord

LEMMA ToldKeepsTypes ==
  ASSUME ApprovalTypeOK, NEW x \in Asker, NEW yes \in BOOLEAN, LearnAnswer(x, yes),
         run[x].at \in {"check", "wait"}
  PROVE  RunTypeOK' /\ BusTypeOK'
<1> DEFINE r == IF yes THEN [run[x] EXCEPT !.at = "act"] ELSE Thinking
<1>1. RunOK(run[x])
  BY RowOfRun
<1>2. RunOK(r) /\ ~Hearing(r)
  BY <1>1 DEF RunOK, RunRecord, Hearing, Thinking, EndedRun, AskPlace
<1>3. run' = [run EXCEPT ![x] = r] /\ Unsubscribe(x)
  BY DEF LearnAnswer
<1>4. RunTypeOK' /\ Listening' = Listening \ {x}
  BY <1>2, <1>3, RunMoves DEF ApprovalTypeOK
<1>5. BusTypeOK'
  BY <1>3, <1>4, UnsubscribeKeepsBus DEF ApprovalTypeOK
<1>6. QED
  BY <1>4, <1>5

(* The steps of a run that take no transaction. *)
LEMMA RunTypes ==
  ASSUME ApprovalTypeOK, NEW x \in Asker,
         \/ LaunchRun(x) \/ EvaluateCall(x) \/ LookUp(x) \/ SubscribeRun(x) \/ Check(x)
         \/ HearEvent(x) \/ Lag(x) \/ ActOnCall(x) \/ LeaveRun(x)
  PROVE  ApprovalTypeOK'
<1>1. /\ UNCHANGED <<dbVars, cmd, consent, torn>>
      /\ RunOK(run[x])
  BY RowOfRun
     DEF LaunchRun, EvaluateCall, LookUp, SubscribeRun, Check, HearEvent, Lag, ActOnCall, LeaveRun
<1>2. RowTypeOK' /\ CommandTypeOK'
  BY <1>1 DEF ApprovalTypeOK, RowTypeOK, CommandTypeOK, dbVars
<1>3. RunOK(Thinking) /\ RunOK(EndedRun) /\ ~Hearing(Thinking) /\ ~Hearing(EndedRun)
  BY DEF RunOK, RunRecord, Thinking, EndedRun, AskPlace, Hearing
<1>4. RunTypeOK' /\ BusTypeOK'
  <2>1. CASE LaunchRun(x)
    BY <1>3, <2>1, QuietMove DEF LaunchRun
  <2>2. CASE EvaluateCall(x)
    <3>1. PICK c \in Call \ Reviewed, asked \in BOOLEAN :
            Goes(x, "think", [at |-> IF asked THEN "ask" ELSE "act", call |-> c,
                              id |-> NoId, asked |-> asked])
      BY <2>2 DEF EvaluateCall
    <3> DEFINE r == [at |-> IF asked THEN "ask" ELSE "act", call |-> c,
                     id |-> NoId, asked |-> asked]
    <3>2. RunOK(r) /\ ~Hearing(r)
      BY DEF RunOK, RunRecord, AskPlace, Hearing
    <3>3. UNCHANGED <<backlog, lags>>
      BY <2>2 DEF EvaluateCall
    <3>4. Goes(x, "think", r)
      BY <3>1
    <3>5. QED
      BY <3>2, <3>3, <3>4, QuietMove
  <2>3. CASE LookUp(x)
    <3> DEFINE r == [run[x] EXCEPT !.at = IF HasApproved(x, run[x].call)
                                          THEN "act" ELSE "request"]
    <3>1. Goes(x, "ask", r) /\ UNCHANGED <<backlog, lags>> /\ run[x].at = "ask"
      BY <2>3 DEF LookUp, Goes
    <3>2. RunOK(r) /\ ~Hearing(r)
      BY <1>1, <3>1 DEF RunOK, RunRecord, AskPlace, Hearing
    <3>3. QED
      BY <3>1, <3>2, QuietMove
  <2>4. CASE SubscribeRun(x)
    <3> DEFINE r == [run[x] EXCEPT !.at = "check"]
    <3>1. /\ run[x].at = "subscribe" /\ run' = [run EXCEPT ![x] = r]
          /\ Publish(Other, Listening \cup {x})
      BY <2>4 DEF SubscribeRun, Goes
    <3>2. RunOK(r) /\ Hearing(r)
      BY <1>1, <3>1 DEF RunOK, RunRecord, AskPlace, Hearing
    <3>3. RunTypeOK' /\ Listening' = Listening \cup {x}
      BY <3>1, <3>2, RunMoves DEF ApprovalTypeOK
    <3>4. Other \in Event
      BY DEF Other, Event
    <3>5. BusTypeOK'
      BY <3>1, <3>3, <3>4, PublishKeepsBus DEF ApprovalTypeOK
    <3>6. QED
      BY <3>3, <3>5
  <2>5. CASE Check(x)
    <3>1. CASE Resolved(run[x].id)
      BY <2>5, <3>1, ToldKeepsTypes DEF Check
    <3>2. CASE ~Resolved(run[x].id)
      <4> DEFINE r == [run[x] EXCEPT !.at = "wait"]
      <4>1. /\ run[x].at = "check" /\ run' = [run EXCEPT ![x] = r]
            /\ UNCHANGED <<backlog, lags>>
        BY <2>5, <3>2 DEF Check
      <4>2. RunOK(r) /\ Hearing(r)
        BY <1>1, <4>1 DEF RunOK, RunRecord, AskPlace, Hearing
      <4>3. RunTypeOK' /\ Listening' = Listening
        BY <4>1, <4>2, RunMoves DEF ApprovalTypeOK, Listening
      <4>4. BusTypeOK'
        BY <4>1, <4>3 DEF ApprovalTypeOK, BusTypeOK
      <4>5. QED
        BY <4>3, <4>4
    <3>3. QED
      BY <3>1, <3>2
  <2>6. CASE HearEvent(x)
    <3>1. Head(backlog[x]) \in Event /\ backlog[x] # <<>>
      BY <2>6, HeadTailProperties DEF HearEvent, ApprovalTypeOK, BusTypeOK
    <3>2. CASE Head(backlog[x]).id = run[x].id
      <4>1. LearnAnswer(x, Head(backlog[x]).yes) /\ Head(backlog[x]).yes \in BOOLEAN
        BY <2>6, <3>1, <3>2 DEF HearEvent, Event
      <4>2. QED
        BY <2>6, <4>1, ToldKeepsTypes DEF HearEvent
    <3>3. CASE Head(backlog[x]).id # run[x].id
      <4>1. backlog' = [backlog EXCEPT ![x] = Tail(@)] /\ UNCHANGED <<run, lags>>
        BY <2>6, <3>3 DEF HearEvent
      <4>2. RunTypeOK' /\ Listening' = Listening
        BY <4>1 DEF ApprovalTypeOK, RunTypeOK, Listening
      <4>3. BusTypeOK'
        BY <3>1, <4>1, <4>2, ReadKeepsBus DEF ApprovalTypeOK
      <4>4. QED
        BY <4>2, <4>3
    <3>4. QED
      BY <3>2, <3>3
  <2>7. CASE Lag(x)
    <3>1. CASE Resolved(run[x].id)
      BY <2>7, <3>1, ToldKeepsTypes DEF Lag
    <3>2. CASE ~Resolved(run[x].id)
      BY <2>7, <3>2 DEF Lag, ApprovalTypeOK, RunTypeOK, BusTypeOK, Listening
    <3>3. QED
      BY <3>1, <3>2
  <2>8. CASE ActOnCall(x)
    BY <1>3, <2>8, QuietMove DEF ActOnCall
  <2>9. CASE LeaveRun(x)
    <3>1. run' = [run EXCEPT ![x] = EndedRun] /\ Unsubscribe(x)
      BY <2>9 DEF LeaveRun
    <3>2. RunTypeOK' /\ Listening' = Listening \ {x}
      BY <1>3, <3>1, RunMoves DEF ApprovalTypeOK
    <3>3. BusTypeOK'
      BY <3>1, <3>2, UnsubscribeKeepsBus DEF ApprovalTypeOK
    <3>4. QED
      BY <3>2, <3>3
  <2>10. QED
    BY <2>1, <2>2, <2>3, <2>4, <2>5, <2>6, <2>7, <2>8, <2>9
<1>5. QED
  BY <1>2, <1>4 DEF ApprovalTypeOK

LEMMA ProposeTypes ==
  ASSUME ApprovalTypeOK, NEW x \in Asker, ProposeDiff(x)
  PROVE  ApprovalTypeOK'
<1>1. PICK c \in Reviewed, i \in Id :
        /\ diff' = [diff EXCEPT ![i] = IF c \in Small THEN "AutoApproved" ELSE "Pending"]
        /\ Goes(x, "think",
                IF c \in Small
                  THEN [at |-> "act", call |-> c, id |-> NoId, asked |-> FALSE]
                  ELSE [at |-> "ask", call |-> c, id |-> i, asked |-> TRUE])
  BY DEF ProposeDiff
<1>2. UNCHANGED <<approvalRow, asks, logged, backlog, lags, cmd, consent, torn>>
  BY DEF ProposeDiff
<1> DEFINE r == IF c \in Small
                  THEN [at |-> "act", call |-> c, id |-> NoId, asked |-> FALSE]
                  ELSE [at |-> "ask", call |-> c, id |-> i, asked |-> TRUE]
<1>3. RunOK(r) /\ ~Hearing(r) /\ Goes(x, "think", r)
  BY <1>1, ApprovalAssumption DEF RunOK, RunRecord, AskPlace, Hearing
<1>4. RunTypeOK' /\ BusTypeOK'
  BY <1>2, <1>3, QuietMove
<1>5. RowTypeOK' /\ CommandTypeOK'
  BY <1>1, <1>2 DEF ApprovalTypeOK, RowTypeOK, CommandTypeOK
<1>6. QED
  BY <1>4, <1>5 DEF ApprovalTypeOK

LEMMA RequestTypes ==
  ASSUME ApprovalTypeOK, NEW x \in Asker, RequestApproval(x)
  PROVE  ApprovalTypeOK'
<1>1. PICK i \in Id :
        /\ Goes(x, "request", [run[x] EXCEPT !.at = "subscribe", !.id = i])
        /\ approvalRow' = [approvalRow EXCEPT ![i] = "Pending"]
        /\ asks' = [asks EXCEPT ![i] = <<x, run[x].call>>]
  BY DEF RequestApproval
<1>2. UNCHANGED <<diff, logged, backlog, lags, cmd, consent, torn>>
  BY DEF RequestApproval
<1>3. RunOK(run[x]) /\ run[x].at = "request"
  BY <1>1, RowOfRun DEF Goes
<1> DEFINE r == [run[x] EXCEPT !.at = "subscribe", !.id = i]
<1>4. RunOK(r) /\ ~Hearing(r) /\ Goes(x, "request", r)
  BY <1>1, <1>3 DEF RunOK, RunRecord, AskPlace, Hearing
<1>5. RunTypeOK' /\ BusTypeOK'
  BY <1>2, <1>4, QuietMove
<1>6. run[x].call \in Call
  BY <1>3 DEF RunOK
<1>7. RowTypeOK'
  BY <1>1, <1>2, <1>6 DEF ApprovalTypeOK, RowTypeOK
<1>8. CommandTypeOK'
  BY <1>2 DEF ApprovalTypeOK, CommandTypeOK
<1>9. QED
  BY <1>5, <1>7, <1>8 DEF ApprovalTypeOK

(* A step that leaves the runs alone, and the bus or publishes an event.   *)
LEMMA BusAlone ==
  ASSUME ApprovalTypeOK, UNCHANGED run,
         \/ UNCHANGED <<backlog, lags>>
         \/ \E e \in Event : Publish(e, Listening)
  PROVE  RunTypeOK' /\ BusTypeOK'
<1>1. RunTypeOK' /\ Listening' = Listening
  BY DEF ApprovalTypeOK, RunTypeOK, Listening
<1>2. CASE UNCHANGED <<backlog, lags>>
  BY <1>1, <1>2 DEF ApprovalTypeOK, BusTypeOK
<1>3. CASE \E e \in Event : Publish(e, Listening)
  BY <1>1, <1>3, PublishKeepsBus DEF ApprovalTypeOK
<1>4. QED
  BY <1>1, <1>2, <1>3

LEMMA CommandTypes ==
  ASSUME ApprovalTypeOK, NEW r \in Command, Decide(r) \/ CommandStep(r)
  PROVE  ApprovalTypeOK'
<1>1. /\ cmd[r] \in [at : {"idle", "diff", "row", "commit", "publish"},
                     id : Id \cup {NoId}, yes : BOOLEAN]
      /\ cmd[r].at # "idle" => cmd[r].id \in Id
      /\ \A yes : Verdict(yes) \in {"Approved", "Rejected"}
      /\ Other \in Event
  BY DEF ApprovalTypeOK, CommandTypeOK, Verdict, Other, Event
<1>2. CASE Decide(r)
  <2>1. PICK i \in Id, yes \in BOOLEAN, at \in {"row", "diff"} :
          /\ cmd' = [cmd EXCEPT ![r] = [at |-> at, id |-> i, yes |-> yes]]
          /\ consent' = IF yes THEN consent \cup {i} ELSE consent
    BY <1>2 DEF Decide
  <2>2. CommandTypeOK'
    BY <1>2, <2>1 DEF Decide, ApprovalTypeOK, CommandTypeOK
  <2>3. RowTypeOK' /\ RunTypeOK' /\ BusTypeOK'
    BY <1>2, BusAlone DEF Decide, dbVars, ApprovalTypeOK, RowTypeOK
  <2>4. QED
    BY <2>2, <2>3 DEF ApprovalTypeOK
<1>3. CASE ResolveDiff(r)
  <2>1. CommandTypeOK' /\ RowTypeOK'
    BY <1>1, <1>3 DEF ResolveDiff, ApprovalTypeOK, CommandTypeOK, RowTypeOK
  <2>2. RunTypeOK' /\ BusTypeOK'
    BY <1>1, <1>3, BusAlone DEF ResolveDiff
  <2>3. QED
    BY <2>1, <2>2 DEF ApprovalTypeOK
<1>4. CASE ResolveRow(r)
  <2>1. CommandTypeOK' /\ RowTypeOK'
    BY <1>1, <1>4 DEF ResolveRow, ApprovalTypeOK, CommandTypeOK, RowTypeOK
  <2>2. RunTypeOK' /\ BusTypeOK'
    BY <1>4, BusAlone DEF ResolveRow
  <2>3. QED
    BY <2>1, <2>2 DEF ApprovalTypeOK
<1>5. CASE CommitAnswer(r)
  <2>1. CommandTypeOK' /\ RowTypeOK'
    BY <1>1, <1>5 DEF CommitAnswer, ApprovalTypeOK, CommandTypeOK, RowTypeOK
  <2>2. RunTypeOK' /\ BusTypeOK'
    BY <1>5, BusAlone DEF CommitAnswer
  <2>3. QED
    BY <2>1, <2>2 DEF ApprovalTypeOK
<1>6. CASE PublishAnswer(r)
  <2>1. CommandTypeOK' /\ RowTypeOK'
    BY <1>1, <1>6 DEF PublishAnswer, IdleCommand, ApprovalTypeOK, CommandTypeOK, RowTypeOK, dbVars
  <2>2. [id |-> cmd[r].id, yes |-> cmd[r].yes] \in Event
    BY <1>1 DEF Event
  <2>3. RunTypeOK' /\ BusTypeOK'
    BY <1>6, <2>2, BusAlone DEF PublishAnswer
  <2>4. QED
    BY <2>1, <2>3 DEF ApprovalTypeOK
<1>7. QED
  BY <1>2, <1>3, <1>4, <1>5, <1>6 DEF CommandStep

LEMMA CrashTypes ==
  ASSUME ApprovalTypeOK, Crash
  PROVE  ApprovalTypeOK'
<1>1. RowTypeOK' /\ RunTypeOK'
  BY DEF Crash, dbVars, ApprovalTypeOK, RowTypeOK, RunTypeOK, EndedRun, AskPlace
<1>2. <<>> \in Seq(Event) /\ Len(<<>>) = 0
  OBVIOUS
<1>3. BusTypeOK'
  BY <1>2, ApprovalAssumption DEF Crash, BusTypeOK
<1>4. CommandTypeOK'
  BY DEF Crash, IdleCommand, ApprovalTypeOK, CommandTypeOK
<1>5. QED
  BY <1>1, <1>3, <1>4 DEF ApprovalTypeOK

LEMMA TypeStep == ApprovalTypeOK /\ [ApprovalNext]_approvalVars => ApprovalTypeOK'
<1> SUFFICES ASSUME ApprovalTypeOK, [ApprovalNext]_approvalVars
             PROVE  ApprovalTypeOK'
  OBVIOUS
<1>1. ASSUME NEW x \in Asker, RunStep(x) \/ Choice(x)
      PROVE  ApprovalTypeOK'
  BY <1>1, RunTypes, ProposeTypes, RequestTypes DEF RunStep, Choice
<1>2. ASSUME NEW r \in Command, Decide(r) \/ CommandStep(r)
      PROVE  ApprovalTypeOK'
  BY <1>2, CommandTypes
<1>3. CASE Chatter
  <2>1. RunTypeOK' /\ BusTypeOK'
    BY <1>3, BusAlone DEF Chatter, Other, Event
  <2>2. RowTypeOK' /\ CommandTypeOK'
    BY <1>3 DEF Chatter, dbVars, ApprovalTypeOK, RowTypeOK, CommandTypeOK
  <2>3. QED
    BY <2>1, <2>2 DEF ApprovalTypeOK
<1>4. CASE UNCHANGED approvalVars
  BY <1>4 DEF approvalVars, ApprovalTypeOK, RowTypeOK, RunTypeOK, BusTypeOK, CommandTypeOK, Listening
<1>5. QED
  BY <1>1, <1>2, <1>3, <1>4, CrashTypes DEF ApprovalNext

(* Every variable keeps its type, for any number of executions, calls and  *)
(* commands and any capacity of the bus.                                   *)
THEOREM TypeCorrect == ApprovalSpec => []ApprovalTypeOK
BY TypeInit, TypeStep, PTL DEF ApprovalSpec

-----------------------------------------------------------------------------
(* Who knows of a yes, and for what.                                       *)

TableTrue ==
  /\ \A i \in Id : approvalRow[i] = "Approved" => i \in consent
  /\ \A i \in consent : approvalRow[i] # "none"

CommandsTrue ==
  \A r \in Command : cmd[r].at # "idle" =>
    /\ approvalRow[cmd[r].id] # "none"
    /\ cmd[r].yes => cmd[r].id \in consent

TrueEvent == {e \in Event : e.yes /\ e.id # NoId => e.id \in consent}

EventsTrue == \A x \in Asker : backlog[x] \in Seq(TrueEvent)

RequestsTrue ==
  \A x \in Asker : run[x].at \in {"subscribe", "check", "wait"} =>
    asks[run[x].id] = <<x, run[x].call>> /\ approvalRow[run[x].id] # "none"

Reserves(x) == run[x].at \in {"ask", "request"} /\ run[x].id # NoId

IdsReserved ==
  /\ \A x \in Asker : Reserves(x) => approvalRow[run[x].id] = "none" /\ diff[run[x].id] # "none"
  /\ \A x, y \in Asker : Reserves(x) /\ Reserves(y) /\ run[x].id = run[y].id => x = y

RunsTrue == RequestsTrue /\ IdsReserved /\ ActsWithConsent

CInv == ApprovalTypeOK /\ TableTrue /\ CommandsTrue /\ EventsTrue /\ RunsTrue

LEMMA ConsentInit == ApprovalInit => CInv
<1> SUFFICES ASSUME ApprovalInit
             PROVE  CInv
  OBVIOUS
<1>1. ApprovalTypeOK
  BY TypeInit
<1>2. TableTrue /\ CommandsTrue
  BY DEF ApprovalInit, TableTrue, CommandsTrue, IdleCommand
<1>3. EventsTrue
  BY DEF ApprovalInit, EventsTrue
<1>4. RunsTrue
  BY DEF ApprovalInit, RunsTrue, RequestsTrue, IdsReserved, Reserves, ActsWithConsent, EndedRun
<1>5. QED
  BY <1>1, <1>2, <1>3, <1>4 DEF CInv

(* A step of one run that writes no table.                                 *)
LEMMA RunAlone ==
  ASSUME CInv, NEW x \in Asker, UNCHANGED <<approvalRow, asks, diff, consent>>,
         \A y \in Asker \ {x} : run'[y] = run[y],
         run'[x].at \in {"subscribe", "check", "wait"} =>
           asks[run'[x].id] = <<x, run'[x].call>> /\ approvalRow[run'[x].id] # "none",
         Reserves(x)' => Reserves(x) /\ run'[x].id = run[x].id,
         run'[x].at = "act" /\ run'[x].asked =>
           \E i \in Id : asks[i] = <<x, run'[x].call>> /\ i \in consent
  PROVE  RunsTrue'
<1>1. RequestsTrue'
  BY DEF CInv, RunsTrue, RequestsTrue
<1>2. IdsReserved'
  <2>1. \A y \in Asker : Reserves(y)' => Reserves(y) /\ run'[y].id = run[y].id
    BY DEF Reserves
  <2>2. QED
    BY <2>1 DEF CInv, RunsTrue, IdsReserved
<1>3. ActsWithConsent'
  BY DEF CInv, RunsTrue, ActsWithConsent
<1>4. QED
  BY <1>1, <1>2, <1>3 DEF RunsTrue

LEMMA PublishesTrue ==
  ASSUME ApprovalTypeOK, EventsTrue, NEW e \in TrueEvent, NEW listeners,
         Publish(e, listeners), UNCHANGED consent
  PROVE  EventsTrue'
<1>1. ASSUME NEW x \in Asker
      PROVE  backlog'[x] \in Seq(TrueEvent)
  <2>1. backlog[x] \in Seq(TrueEvent) /\ Len(backlog[x]) \in Nat
    BY DEF EventsTrue
  <2>2. CASE x \notin listeners
    BY <2>1, <2>2 DEF Publish
  <2>3. CASE x \in listeners /\ Len(backlog[x]) < BusCap
    BY <2>1, <2>3 DEF Publish
  <2>4. CASE x \in listeners /\ ~(Len(backlog[x]) < BusCap)
    <3>1. backlog[x] # <<>>
      BY <2>1, <2>4, ApprovalAssumption
    <3>2. Tail(backlog[x]) \in Seq(TrueEvent)
      BY <2>1, <3>1, HeadTailProperties
    <3>3. QED
      BY <2>4, <3>2 DEF Publish
  <2>5. QED
    BY <2>2, <2>3, <2>4
<1>2. TrueEvent' = TrueEvent
  BY DEF TrueEvent
<1>3. QED
  BY <1>1, <1>2 DEF EventsTrue

(* A yes is given: what was true before stays so.                          *)
LEMMA ConsentGrows ==
  ASSUME EventsTrue, UNCHANGED backlog, consent \subseteq consent'
  PROVE  EventsTrue'
<1>1. TrueEvent \subseteq TrueEvent'
  BY DEF TrueEvent
<1>2. \A x \in Asker : backlog[x] \in Seq(TrueEvent')
  BY <1>1, SeqMonotonic DEF EventsTrue
<1>3. QED
  BY <1>2 DEF EventsTrue

LEMMA ReceiverDropped ==
  ASSUME ApprovalTypeOK, EventsTrue, NEW x \in Asker, Unsubscribe(x), UNCHANGED consent
  PROVE  EventsTrue'
<1>1. \A y \in Asker : backlog'[y] = backlog[y] \/ backlog'[y] = <<>>
  BY DEF Unsubscribe, ApprovalTypeOK, BusTypeOK
<1>2. TrueEvent' = TrueEvent /\ <<>> \in Seq(TrueEvent)
  BY DEF TrueEvent
<1>3. \A y \in Asker : backlog'[y] \in Seq(TrueEvent)
  BY <1>1, <1>2 DEF EventsTrue
<1>4. QED
  BY <1>2, <1>3 DEF EventsTrue

(* A run that is told yes is told the truth. *)
LEMMA ToldTrue ==
  ASSUME CInv, NEW x \in Asker, NEW yes \in BOOLEAN, LearnAnswer(x, yes),
         run[x].at \in {"check", "wait"}, yes => run[x].id \in consent,
         UNCHANGED <<approvalRow, asks, diff, consent>>
  PROVE  EventsTrue' /\ RunsTrue'
<1>1. RunOK(run[x]) /\ run = [y \in Asker |-> run[y]]
  BY RowOfRun DEF CInv
<1>2. /\ run'[x] = IF yes THEN [run[x] EXCEPT !.at = "act"] ELSE Thinking
      /\ \A y \in Asker \ {x} : run'[y] = run[y]
  BY <1>1 DEF LearnAnswer
<1>3. run'[x].at = "act" => yes /\ run'[x].call = run[x].call
  BY <1>1, <1>2 DEF Thinking, EndedRun, RunOK, RunRecord
<1>4. run'[x].at \in {"act", "think"}
  BY <1>1, <1>2 DEF Thinking, EndedRun, RunOK, RunRecord
<1>5. asks[run[x].id] = <<x, run[x].call>> /\ run[x].id \in Id
  BY <1>1 DEF CInv, RunsTrue, RequestsTrue, RunOK
<1>6. run'[x].at = "act" /\ run'[x].asked =>
        \E i \in Id : asks[i] = <<x, run'[x].call>> /\ i \in consent
  BY <1>3, <1>5
<1>7. RunsTrue'
  BY <1>2, <1>4, <1>6, RunAlone DEF Reserves
<1>8. EventsTrue'
  BY ReceiverDropped DEF CInv, LearnAnswer
<1>9. QED
  BY <1>7, <1>8

(* The steps of a run that take no transaction. *)
LEMMA RunTruth ==
  ASSUME CInv, NEW x \in Asker,
         \/ LaunchRun(x) \/ EvaluateCall(x) \/ LookUp(x) \/ SubscribeRun(x) \/ Check(x)
         \/ HearEvent(x) \/ Lag(x) \/ ActOnCall(x) \/ LeaveRun(x)
  PROVE  TableTrue' /\ CommandsTrue' /\ EventsTrue' /\ RunsTrue'
<1>1. UNCHANGED <<approvalRow, asks, diff, cmd, consent>>
  BY DEF LaunchRun, EvaluateCall, LookUp, SubscribeRun, Check, HearEvent, Lag, ActOnCall,
            LeaveRun, dbVars
<1>2. TableTrue' /\ CommandsTrue'
  BY <1>1 DEF CInv, TableTrue, CommandsTrue
<1>3. RunOK(run[x]) /\ run = [y \in Asker |-> run[y]]
  BY RowOfRun DEF CInv
<1>4. ASSUME NEW r, run' = [run EXCEPT ![x] = r],
             r.at \in {"subscribe", "check", "wait"} =>
               asks[r.id] = <<x, r.call>> /\ approvalRow[r.id] # "none",
             r.at \in {"ask", "request"} /\ r.id # NoId =>
               Reserves(x) /\ r.id = run[x].id,
             r.at = "act" /\ r.asked =>
               \E i \in Id : asks[i] = <<x, r.call>> /\ i \in consent
      PROVE  RunsTrue'
  <2>1. run'[x] = r /\ \A y \in Asker \ {x} : run'[y] = run[y]
    BY <1>3, <1>4
  <2>2. QED
    BY <1>1, <1>4, <2>1, RunAlone DEF Reserves
<1>5. ASSUME UNCHANGED backlog
      PROVE  EventsTrue'
  BY <1>1, <1>5, ConsentGrows DEF CInv
<1>6. Resolved(run[x].id) /\ run[x].id \in Id /\ approvalRow[run[x].id] = "Approved"
        => run[x].id \in consent
  BY DEF CInv, TableTrue
<1>7. run[x].at \in {"check", "wait"} => run[x].id \in Id
  BY <1>3 DEF RunOK
<1>8. CASE LaunchRun(x)
  BY <1>2, <1>4, <1>5, <1>8 DEF LaunchRun, Goes, Thinking, EndedRun
<1>9. CASE EvaluateCall(x)
  <2>1. PICK c \in Call \ Reviewed, asked \in BOOLEAN :
          run' = [run EXCEPT ![x] = [at |-> IF asked THEN "ask" ELSE "act",
                                     call |-> c, id |-> NoId, asked |-> asked]]
    BY <1>9 DEF EvaluateCall, Goes
  <2>2. RunsTrue'
    BY <1>4, <2>1
  <2>3. QED
    BY <1>2, <1>5, <1>9, <2>2 DEF EvaluateCall
<1>10. CASE LookUp(x)
  <2> DEFINE r == [run[x] EXCEPT !.at = IF HasApproved(x, run[x].call)
                                        THEN "act" ELSE "request"]
  <2>1. run' = [run EXCEPT ![x] = r] /\ run[x].at = "ask"
    BY <1>10 DEF LookUp, Goes
  <2>2. /\ r.at \in {"act", "request"} /\ r.call = run[x].call /\ r.id = run[x].id
        /\ r.at = "act" => HasApproved(x, run[x].call)
    BY <1>3 DEF RunOK, RunRecord
  <2>3. HasApproved(x, run[x].call) =>
          \E i \in Id : asks[i] = <<x, run[x].call>> /\ i \in consent
    BY DEF HasApproved, CInv, TableTrue
  <2>4. RunsTrue'
    BY <1>4, <2>1, <2>2, <2>3 DEF Reserves
  <2>5. QED
    BY <1>2, <1>5, <1>10, <2>4 DEF LookUp
<1>11. CASE SubscribeRun(x)
  <2> DEFINE r == [run[x] EXCEPT !.at = "check"]
  <2>1. run' = [run EXCEPT ![x] = r] /\ run[x].at = "subscribe"
    BY <1>11 DEF SubscribeRun, Goes
  <2>2. r.at = "check" /\ r.call = run[x].call /\ r.id = run[x].id
    BY <1>3 DEF RunOK, RunRecord
  <2>3. asks[run[x].id] = <<x, run[x].call>> /\ approvalRow[run[x].id] # "none"
    BY <2>1 DEF CInv, RunsTrue, RequestsTrue
  <2>4. RunsTrue'
    BY <1>4, <2>1, <2>2, <2>3
  <2>5. Other \in TrueEvent /\ Publish(Other, Listening \cup {x})
    BY <1>11 DEF SubscribeRun, Other, TrueEvent, Event
  <2>6. EventsTrue'
    BY <1>1, <2>5, PublishesTrue DEF CInv
  <2>7. QED
    BY <1>2, <2>4, <2>6
<1>12. CASE Check(x)
  <2>1. CASE Resolved(run[x].id)
    <3>1. /\ LearnAnswer(x, approvalRow[run[x].id] = "Approved") /\ run[x].at \in {"check", "wait"}
      BY <1>12, <2>1 DEF Check
    <3>2. QED
      BY <1>1, <1>2, <1>6, <1>7, <2>1, <3>1, ToldTrue
  <2>2. CASE ~Resolved(run[x].id)
    <3> DEFINE r == [run[x] EXCEPT !.at = "wait"]
    <3>1. run' = [run EXCEPT ![x] = r] /\ UNCHANGED backlog /\ run[x].at = "check"
      BY <1>12, <2>2 DEF Check
    <3>2. r.at = "wait" /\ r.call = run[x].call /\ r.id = run[x].id
      BY <1>3 DEF RunOK, RunRecord
    <3>3. asks[run[x].id] = <<x, run[x].call>> /\ approvalRow[run[x].id] # "none"
      BY <3>1 DEF CInv, RunsTrue, RequestsTrue
    <3>4. RunsTrue'
      BY <1>4, <3>1, <3>2, <3>3
    <3>5. QED
      BY <1>2, <1>5, <3>1, <3>4
  <2>3. QED
    BY <2>1, <2>2
<1>13. CASE HearEvent(x)
  <2> DEFINE e == Head(backlog[x])
  <2>1. /\ backlog[x] \in Seq(TrueEvent) /\ backlog[x] # <<>> /\ run[x].at = "wait"
    BY <1>13 DEF HearEvent, CInv, EventsTrue
  <2>2. e \in TrueEvent /\ Tail(backlog[x]) \in Seq(TrueEvent)
    BY <2>1, HeadTailProperties
  <2>3. CASE e.id = run[x].id
    <3>1. LearnAnswer(x, e.yes) /\ e.yes \in BOOLEAN
      BY <1>13, <2>2, <2>3 DEF HearEvent, TrueEvent, Event
    <3>2. e.yes => run[x].id \in consent
      BY <1>7, <2>1, <2>2, <2>3, ApprovalAssumption DEF TrueEvent
    <3>3. QED
      BY <1>1, <1>2, <2>1, <3>1, <3>2, ToldTrue
  <2>4. CASE e.id # run[x].id
    <3>1. backlog' = [backlog EXCEPT ![x] = Tail(backlog[x])] /\ UNCHANGED run
      BY <1>13, <2>4 DEF HearEvent
    <3>2. \A y \in Asker : backlog'[y] \in Seq(TrueEvent)
      BY <2>2, <3>1 DEF CInv, ApprovalTypeOK, BusTypeOK, EventsTrue
    <3>3. EventsTrue'
      BY <1>1, <3>2 DEF EventsTrue, TrueEvent
    <3>4. RunsTrue'
      BY <1>1, <3>1 DEF CInv, RunsTrue, RequestsTrue, IdsReserved, Reserves,
                        ActsWithConsent
    <3>5. QED
      BY <1>2, <3>3, <3>4
  <2>5. QED
    BY <2>3, <2>4
<1>14. CASE Lag(x)
  <2>1. CASE Resolved(run[x].id)
    <3>1. /\ LearnAnswer(x, approvalRow[run[x].id] = "Approved") /\ run[x].at \in {"check", "wait"}
      BY <1>14, <2>1 DEF Lag
    <3>2. QED
      BY <1>1, <1>2, <1>6, <1>7, <2>1, <3>1, ToldTrue
  <2>2. CASE ~Resolved(run[x].id)
    <3>1. UNCHANGED <<run, backlog>>
      BY <1>14, <2>2 DEF Lag
    <3>2. RunsTrue'
      BY <1>1, <3>1 DEF CInv, RunsTrue, RequestsTrue, IdsReserved, Reserves,
                        ActsWithConsent
    <3>3. QED
      BY <1>2, <1>5, <3>1, <3>2
  <2>3. QED
    BY <2>1, <2>2
<1>15. CASE ActOnCall(x)
  BY <1>2, <1>4, <1>5, <1>15 DEF ActOnCall, Goes, Thinking, EndedRun
<1>16. CASE LeaveRun(x)
  <2>1. run' = [run EXCEPT ![x] = EndedRun] /\ Unsubscribe(x)
    BY <1>16 DEF LeaveRun
  <2>2. RunsTrue'
    BY <1>4, <2>1 DEF EndedRun
  <2>3. EventsTrue'
    BY <1>1, <2>1, ReceiverDropped DEF CInv
  <2>4. QED
    BY <1>2, <2>2, <2>3
<1>17. QED
  BY <1>8, <1>9, <1>10, <1>11, <1>12, <1>13, <1>14, <1>15, <1>16

(* A proposal reserves an id that no other run has. *)
LEMMA ProposeTruth ==
  ASSUME CInv, NEW x \in Asker, ProposeDiff(x)
  PROVE  TableTrue' /\ CommandsTrue' /\ EventsTrue' /\ RunsTrue'
<1>1. PICK c \in Reviewed, i \in Id :
        /\ Fresh(i)
        /\ diff' = [diff EXCEPT ![i] = IF c \in Small THEN "AutoApproved" ELSE "Pending"]
        /\ Goes(x, "think",
                IF c \in Small
                  THEN [at |-> "act", call |-> c, id |-> NoId, asked |-> FALSE]
                  ELSE [at |-> "ask", call |-> c, id |-> i, asked |-> TRUE])
  BY DEF ProposeDiff
<1>2. UNCHANGED <<approvalRow, asks, backlog, cmd, consent>>
  BY DEF ProposeDiff
<1>3. /\ \A j \in Id : diff[j] # "none" => diff'[j] # "none" /\ j # i
      /\ diff'[i] # "none"
  BY <1>1 DEF Fresh, CInv, ApprovalTypeOK, RowTypeOK
<1>4. run = [y \in Asker |-> run[y]] /\ \A y \in Asker : RunOK(run[y])
  BY RowOfRun DEF CInv
<1>5. \A y \in Asker \ {x} : run'[y] = run[y]
  BY <1>1, <1>4 DEF Goes
<1>6. \/ run'[x] = [at |-> "act", call |-> c, id |-> NoId, asked |-> FALSE]
      \/ run'[x] = [at |-> "ask", call |-> c, id |-> i, asked |-> TRUE]
  BY <1>1, <1>4 DEF Goes
<1>7. \A y \in Asker : Reserves(y)' =>
        \/ y = x /\ run'[y].id = i
        \/ y # x /\ Reserves(y) /\ run'[y].id = run[y].id /\ run[y].id \in Id
  BY <1>4, <1>5, <1>6 DEF Reserves, RunOK, RunRecord
<1>8. TableTrue' /\ CommandsTrue'
  BY <1>2 DEF CInv, TableTrue, CommandsTrue
<1>9. EventsTrue'
  BY <1>2, ConsentGrows DEF CInv
<1>10. RequestsTrue'
  <2>1. RequestsTrue
    BY DEF CInv, RunsTrue
  <2>2. run'[x].at \notin {"subscribe", "check", "wait"}
    <3>1. CASE run'[x] = [at |-> "act", call |-> c, id |-> NoId, asked |-> FALSE]
      BY <3>1
    <3>2. CASE run'[x] = [at |-> "ask", call |-> c, id |-> i, asked |-> TRUE]
      BY <3>2
    <3> QED BY <1>6, <3>1, <3>2
  <2>3. asks' = asks /\ approvalRow' = approvalRow
    BY <1>2
  <2>4. \A y \in Asker : run'[y].at \in {"subscribe", "check", "wait"} =>
          run'[y] = run[y]
    BY <1>5, <2>2
  <2> QED BY <2>1, <2>3, <2>4 DEF RequestsTrue
<1>11. IdsReserved'
  <2>1. \A y \in Asker : Reserves(y)' =>
          approvalRow'[run'[y].id] = "none" /\ diff'[run'[y].id] # "none"
    BY <1>1, <1>2, <1>3, <1>7 DEF Fresh, CInv, RunsTrue, IdsReserved
  <2>2. \A y, z \in Asker :
          Reserves(y)' /\ Reserves(z)' /\ run'[y].id = run'[z].id => y = z
    BY <1>3, <1>7 DEF CInv, RunsTrue, IdsReserved
  <2>3. QED
    BY <2>1, <2>2 DEF IdsReserved
<1>12. ActsWithConsent'
  BY <1>2, <1>5, <1>6 DEF CInv, RunsTrue, ActsWithConsent
<1>13. QED
  BY <1>8, <1>9, <1>10, <1>11, <1>12 DEF RunsTrue

(* A request takes an id that nobody has answered and no other run holds.  *)
LEMMA RequestTruth ==
  ASSUME CInv, NEW x \in Asker, RequestApproval(x)
  PROVE  TableTrue' /\ CommandsTrue' /\ EventsTrue' /\ RunsTrue'
<1>1. PICK i \in Id :
        /\ IF run[x].id = NoId THEN Fresh(i) ELSE i = run[x].id
        /\ Goes(x, "request", [run[x] EXCEPT !.at = "subscribe", !.id = i])
        /\ approvalRow' = [approvalRow EXCEPT ![i] = "Pending"]
        /\ asks' = [asks EXCEPT ![i] = <<x, run[x].call>>]
  BY DEF RequestApproval
<1>2. UNCHANGED <<diff, backlog, cmd, consent>>
  BY DEF RequestApproval
<1>3. run = [y \in Asker |-> run[y]] /\ \A y \in Asker : RunOK(run[y])
  BY RowOfRun DEF CInv
<1>4. /\ \A y \in Asker \ {x} : run'[y] = run[y]
      /\ run'[x].at = "subscribe" /\ run'[x].id = i /\ run'[x].call = run[x].call
      /\ run[x].at = "request"
  BY <1>1, <1>3 DEF Goes, RunOK, RunRecord
<1>5. approvalRow[i] = "none" /\ \A y \in Asker \ {x} : Reserves(y) => run[y].id # i
  BY <1>1, <1>4 DEF Fresh, Reserves, CInv, RunsTrue, IdsReserved
<1>6. /\ \A j \in Id \ {i} : approvalRow'[j] = approvalRow[j] /\ asks'[j] = asks[j]
      /\ approvalRow'[i] = "Pending" /\ asks'[i] = <<x, run[x].call>>
  BY <1>1 DEF CInv, ApprovalTypeOK, RowTypeOK
<1>7. TableTrue'
  BY <1>2, <1>5, <1>6 DEF CInv, ApprovalTypeOK, CommandTypeOK, TableTrue
<1>8. CommandsTrue'
  <2>1. \A r \in Command : cmd[r].at # "idle" => cmd[r].id \in Id \ {i}
    BY <1>5 DEF CInv, ApprovalTypeOK, CommandTypeOK, CommandsTrue
  <2>2. QED
    BY <1>2, <1>6, <2>1 DEF CInv, CommandsTrue
<1>9. EventsTrue'
  BY <1>2, ConsentGrows DEF CInv
<1>10. RequestsTrue'
  <2>1. ASSUME NEW y \in Asker \ {x}, run[y].at \in {"subscribe", "check", "wait"}
        PROVE  asks'[run[y].id] = <<y, run[y].call>> /\ approvalRow'[run[y].id] # "none"
    <3>1. run[y].id \in Id \ {i}
      BY <1>3, <1>5, <2>1 DEF CInv, RunsTrue, RequestsTrue, RunOK
    <3>2. QED
      BY <1>6, <2>1, <3>1 DEF CInv, RunsTrue, RequestsTrue
  <2>2. QED
    BY <1>4, <1>6, <2>1 DEF RequestsTrue
<1>11. IdsReserved'
  <2>1. \A y \in Asker : Reserves(y)' =>
          y # x /\ Reserves(y) /\ run'[y].id = run[y].id /\ run[y].id \in Id \ {i}
    BY <1>3, <1>4, <1>5 DEF Reserves, RunOK, RunRecord
  <2>2. QED
    BY <1>2, <1>6, <2>1 DEF CInv, RunsTrue, IdsReserved
<1>12. ActsWithConsent'
  <2>1. \A j \in consent : j \in Id \ {i}
    BY <1>5 DEF CInv, ApprovalTypeOK, CommandTypeOK, TableTrue
  <2>2. QED
    BY <1>2, <1>4, <1>6, <2>1 DEF CInv, RunsTrue, ActsWithConsent
<1>13. QED
  BY <1>7, <1>8, <1>9, <1>10, <1>11, <1>12 DEF RunsTrue

(* What runs know of the tables survives a step of the operator.           *)
LEMMA RunsUndisturbed ==
  ASSUME CInv, UNCHANGED <<run, asks>>, consent \subseteq consent',
         \A i \in Id : approvalRow'[i] = "none" <=> approvalRow[i] = "none",
         \A i \in Id : diff[i] # "none" => diff'[i] # "none"
  PROVE  RunsTrue'
<1>1. \A x \in Asker : RunOK(run[x])
  BY RowOfRun DEF CInv
<1>2. \A x \in Asker : run[x].at \in {"subscribe", "check", "wait"} \/ Reserves(x)
                        => run[x].id \in Id
  BY <1>1 DEF Reserves, RunOK, RunRecord
<1>3. RequestsTrue'
  BY <1>2 DEF CInv, RunsTrue, RequestsTrue
<1>4. IdsReserved'
  BY <1>2 DEF CInv, RunsTrue, IdsReserved, Reserves
<1>5. ActsWithConsent'
  BY DEF CInv, RunsTrue, ActsWithConsent
<1>6. QED
  BY <1>3, <1>4, <1>5 DEF RunsTrue

LEMMA CommandTruth ==
  ASSUME CInv, NEW r \in Command, Decide(r) \/ CommandStep(r)
  PROVE  TableTrue' /\ CommandsTrue' /\ EventsTrue' /\ RunsTrue'
<1> DEFINE v == Verdict(cmd[r].yes)
<1>1. /\ cmd[r].at # "idle" => /\ cmd[r].id \in Id /\ approvalRow[cmd[r].id] # "none"
                               /\ cmd[r].yes => cmd[r].id \in consent
      /\ v \in {"Approved", "Rejected"} /\ (v = "Approved" => cmd[r].yes)
      /\ cmd[r].yes \in BOOLEAN
      /\ consent \subseteq Id
  BY DEF CInv, ApprovalTypeOK, CommandTypeOK, CommandsTrue, Verdict
<1>2. ASSUME UNCHANGED consent, cmd[r].at # "idle",
             approvalRow' = approvalRow \/ approvalRow' = [approvalRow EXCEPT ![cmd[r].id] = v],
             \E at \in {"row", "commit", "publish"} : cmd' = [cmd EXCEPT ![r].at = at]
      PROVE  /\ TableTrue' /\ CommandsTrue'
             /\ \A i \in Id : approvalRow'[i] = "none" <=> approvalRow[i] = "none"
  <2>1. \A i \in Id : \/ approvalRow'[i] = approvalRow[i]
                      \/ i = cmd[r].id /\ approvalRow'[i] = v /\ approvalRow[i] # "none"
    BY <1>1, <1>2 DEF CInv, ApprovalTypeOK, RowTypeOK
  <2>2. TableTrue'
    BY <1>1, <1>2, <2>1 DEF CInv, TableTrue
  <2>3. \A s \in Command : cmd'[s].id = cmd[s].id /\ cmd'[s].yes = cmd[s].yes
                           /\ (cmd'[s].at # "idle" => cmd[s].at # "idle")
    BY <1>2 DEF CInv, ApprovalTypeOK, CommandTypeOK
  <2>4. CommandsTrue'
    BY <1>1, <1>2, <2>1, <2>3 DEF CInv, ApprovalTypeOK, CommandTypeOK, CommandsTrue
  <2>5. QED
    BY <1>1, <2>1, <2>2, <2>4
<1>3. CASE Decide(r)
  <2>1. PICK i \in Id, yes \in BOOLEAN, at \in {"row", "diff"} :
          /\ approvalRow[i] # "none"
          /\ cmd' = [cmd EXCEPT ![r] = [at |-> at, id |-> i, yes |-> yes]]
          /\ consent' = IF yes THEN consent \cup {i} ELSE consent
    BY <1>3 DEF Decide
  <2>2. UNCHANGED <<approvalRow, asks, diff, run, backlog>> /\ consent \subseteq consent'
    BY <1>3, <2>1 DEF Decide, dbVars
  <2>3. TableTrue'
    BY <2>1, <2>2 DEF CInv, TableTrue
  <2>4. CommandsTrue'
    BY <2>1, <2>2 DEF CInv, ApprovalTypeOK, CommandTypeOK, CommandsTrue
  <2>5. EventsTrue'
    BY <2>2, ConsentGrows DEF CInv
  <2>6. QED
    BY <2>2, <2>3, <2>4, <2>5, RunsUndisturbed
<1>4. CASE ResolveDiff(r)
  <2>1. /\ UNCHANGED <<approvalRow, asks, run, consent>> /\ cmd[r].at # "idle"
        /\ cmd' = [cmd EXCEPT ![r].at = "row"]
        /\ diff' = [diff EXCEPT ![cmd[r].id] = v]
        /\ Publish(Other, Listening) /\ Other \in TrueEvent
    BY <1>4 DEF ResolveDiff, Other, TrueEvent, Event
  <2>2. EventsTrue'
    BY <2>1, PublishesTrue DEF CInv
  <2>3. \A i \in Id : diff[i] # "none" => diff'[i] # "none"
    BY <1>1, <2>1 DEF CInv, ApprovalTypeOK, RowTypeOK
  <2>4. QED
    BY <1>2, <2>1, <2>2, <2>3, RunsUndisturbed
<1>5. CASE ResolveRow(r) \/ CommitAnswer(r)
  <2>1. /\ UNCHANGED <<asks, diff, run, backlog, consent>> /\ cmd[r].at # "idle"
        /\ \E at \in {"commit", "publish"} : cmd' = [cmd EXCEPT ![r].at = at]
        /\ approvalRow' = [approvalRow EXCEPT ![cmd[r].id] = v]
    BY <1>5 DEF ResolveRow, CommitAnswer
  <2>2. EventsTrue'
    BY <2>1, ConsentGrows DEF CInv
  <2>3. QED
    BY <1>2, <2>1, <2>2, RunsUndisturbed
<1>6. CASE PublishAnswer(r)
  <2> DEFINE e == [id |-> cmd[r].id, yes |-> cmd[r].yes]
  <2>1. /\ UNCHANGED <<approvalRow, asks, diff, run, consent>> /\ cmd[r].at # "idle"
        /\ cmd' = [cmd EXCEPT ![r] = IdleCommand] /\ Publish(e, Listening)
    BY <1>6 DEF PublishAnswer, dbVars
  <2>2. e \in TrueEvent
    BY <1>1, <2>1 DEF TrueEvent, Event
  <2>3. EventsTrue'
    BY <2>1, <2>2, PublishesTrue DEF CInv
  <2>4. TableTrue' /\ CommandsTrue'
    BY <2>1 DEF CInv, ApprovalTypeOK, CommandTypeOK, TableTrue, CommandsTrue, IdleCommand
  <2>5. QED
    BY <2>1, <2>3, <2>4, RunsUndisturbed
<1>7. QED
  BY <1>3, <1>4, <1>5, <1>6 DEF CommandStep

LEMMA ConsentStep == CInv /\ [ApprovalNext]_approvalVars => CInv'
<1> SUFFICES ASSUME CInv, [ApprovalNext]_approvalVars
             PROVE  CInv'
  OBVIOUS
<1>1. ApprovalTypeOK'
  BY TypeStep DEF CInv
<1>2. ASSUME NEW x \in Asker, RunStep(x) \/ Choice(x)
      PROVE  TableTrue' /\ CommandsTrue' /\ EventsTrue' /\ RunsTrue'
  BY <1>2, RunTruth, ProposeTruth, RequestTruth DEF RunStep, Choice
<1>3. ASSUME NEW r \in Command, Decide(r) \/ CommandStep(r)
      PROVE  TableTrue' /\ CommandsTrue' /\ EventsTrue' /\ RunsTrue'
  BY <1>3, CommandTruth
<1>4. CASE Chatter
  <2>1. /\ UNCHANGED <<approvalRow, asks, diff, run, cmd, consent>>
        /\ Publish(Other, Listening) /\ Other \in TrueEvent
    BY <1>4 DEF Chatter, dbVars, Other, TrueEvent, Event
  <2>2. TableTrue' /\ CommandsTrue'
    BY <2>1 DEF CInv, TableTrue, CommandsTrue
  <2>3. EventsTrue'
    BY <2>1, PublishesTrue DEF CInv
  <2>4. RunsTrue'
    BY <2>1, RunsUndisturbed
  <2>5. QED
    BY <1>1, <2>2, <2>3, <2>4 DEF CInv
<1>5. CASE Crash
  <2>1. UNCHANGED <<approvalRow, asks, diff, consent>>
    BY <1>5 DEF Crash, dbVars
  <2>2. TableTrue' /\ CommandsTrue'
    BY <1>5, <2>1 DEF Crash, IdleCommand, CInv, TableTrue, CommandsTrue
  <2>3. EventsTrue'
    <3>1. <<>> \in Seq(TrueEvent')
      OBVIOUS
    <3>2. QED
      BY <1>5, <3>1 DEF Crash, EventsTrue
  <2>4. RunsTrue'
    BY <1>5 DEF Crash, EndedRun, RunsTrue, RequestsTrue, IdsReserved, Reserves,
                ActsWithConsent
  <2>5. QED
    BY <1>1, <2>2, <2>3, <2>4 DEF CInv
<1>6. CASE UNCHANGED approvalVars
  <2>1. UNCHANGED <<approvalRow, asks, diff, run, backlog, cmd, consent>>
    BY <1>6 DEF approvalVars
  <2>2. TableTrue' /\ CommandsTrue'
    BY <2>1 DEF CInv, TableTrue, CommandsTrue
  <2>3. EventsTrue'
    BY <2>1, ConsentGrows DEF CInv
  <2>4. RunsTrue'
    BY <2>1, RunsUndisturbed
  <2>5. QED
    BY <1>1, <2>2, <2>3, <2>4 DEF CInv
<1>7. QED
  BY <1>1, <1>2, <1>3, <1>4, <1>5, <1>6 DEF ApprovalNext, CInv

(* A run calls a tool that needs a person only after the operator has said *)
(* yes to this call of this execution, for any number of executions, calls,*)
(* approvals and commands and any capacity of the bus.                     *)
THEOREM ConsentBeforeAct == ApprovalSpec => []ActsWithConsent
<1>1. CInv => ActsWithConsent
  BY DEF CInv, RunsTrue
<1>2. QED
  BY <1>1, ConsentInit, ConsentStep, PTL DEF ApprovalSpec

-----------------------------------------------------------------------------
(* The row and the log.                                                    *)

Committing(i) == \E r \in Command : cmd[r].at = "commit" /\ cmd[r].id = i

RowAgrees(i) ==
  approvalRow[i] \in (IF logged[i] = "none" THEN {"none", "Pending"} ELSE {logged[i]})

RInv == CInv /\ RowFollowsLog

LEMMA RowFollowsLogMeans ==
  RowFollowsLog <=> \A i \in Id : i \notin torn /\ ~Committing(i) => RowAgrees(i)
BY DEF RowFollowsLog, Committing, RowAgrees

(* A step of a command that touches at most the row of its own approval.   *)
LEMMA RowStepOfCommand ==
  ASSUME RInv, NEW r \in Command, CommandStep(r) \/ Decide(r)
  PROVE  RowFollowsLog'
<1>1. /\ \A i \in Id : i \notin torn /\ ~Committing(i) => RowAgrees(i)
      /\ cmd[r].at # "idle" => cmd[r].id \in Id
      /\ Verdict(cmd[r].yes) \in {"Approved", "Rejected"}
      /\ cmd = [s \in Command |-> cmd[s]]
      /\ approvalRow = [i \in Id |-> approvalRow[i]] /\ logged = [i \in Id |-> logged[i]]
  BY RowFollowsLogMeans DEF RInv, CInv, ApprovalTypeOK, CommandTypeOK, RowTypeOK, Verdict
<1>2. \A s \in Command \ {r} : cmd'[s] = cmd[s]
  BY <1>1 DEF CommandStep, Decide, ResolveDiff, ResolveRow, CommitAnswer, PublishAnswer
<1>3. CASE Decide(r) \/ ResolveDiff(r) \/ PublishAnswer(r)
  <2>1. UNCHANGED <<approvalRow, logged, torn>> /\ cmd[r].at # "commit"
    BY <1>3 DEF Decide, ResolveDiff, PublishAnswer, dbVars
  <2>2. \A i \in Id : Committing(i) => Committing(i)'
    BY <1>2, <2>1 DEF Committing
  <2>3. \A i \in Id : i \notin torn' /\ ~Committing(i)' => RowAgrees(i)'
    BY <1>1, <2>1, <2>2 DEF RowAgrees
  <2>4. QED
    BY <2>3 DEF RowFollowsLog, Committing, RowAgrees
<1>4. CASE ResolveRow(r)
  <2>1. /\ UNCHANGED <<logged, torn>> /\ cmd[r].at = "row"
        /\ cmd'[r].at = "commit" /\ cmd'[r].id = cmd[r].id
        /\ \A i \in Id \ {cmd[r].id} : approvalRow'[i] = approvalRow[i]
    BY <1>1, <1>4 DEF ResolveRow, RInv, CInv, ApprovalTypeOK, CommandTypeOK
  <2>2. Committing(cmd[r].id)' /\ \A i \in Id : Committing(i) => Committing(i)'
    BY <1>2, <2>1 DEF Committing
  <2>3. \A i \in Id : i \notin torn' /\ ~Committing(i)' => RowAgrees(i)'
    BY <1>1, <2>1, <2>2 DEF RowAgrees
  <2>4. QED
    BY <2>3 DEF RowFollowsLog, Committing, RowAgrees
<1>5. CASE CommitAnswer(r)
  <2>1. /\ cmd[r].at = "commit" /\ cmd[r].id \in Id /\ torn' = torn \ {cmd[r].id}
        /\ cmd'[r].id = cmd[r].id
        /\ approvalRow'[cmd[r].id] = Verdict(cmd[r].yes)
        /\ logged'[cmd[r].id] = Verdict(cmd[r].yes)
        /\ \A i \in Id \ {cmd[r].id} : approvalRow'[i] = approvalRow[i] /\ logged'[i] = logged[i]
    BY <1>1, <1>5 DEF CommitAnswer, RInv, CInv, ApprovalTypeOK, CommandTypeOK
  <2>2. \A i \in Id \ {cmd[r].id} : Committing(i) => Committing(i)'
    BY <1>2, <2>1 DEF Committing
  <2>3. RowAgrees(cmd[r].id)'
    BY <1>1, <2>1 DEF RowAgrees
  <2>4. \A i \in Id : i \notin torn' /\ ~Committing(i)' => RowAgrees(i)'
    BY <1>1, <2>1, <2>2, <2>3 DEF RowAgrees
  <2>5. QED
    BY <2>4 DEF RowFollowsLog, Committing, RowAgrees
<1>6. QED
  BY <1>3, <1>4, <1>5 DEF CommandStep

(* The id of a request has no answer in the log. *)
LEMMA RowStepOfRequest ==
  ASSUME RInv, NEW x \in Asker, RequestApproval(x)
  PROVE  RowFollowsLog'
<1>1. PICK i \in Id : /\ IF run[x].id = NoId THEN Fresh(i) ELSE i = run[x].id
                      /\ run[x].at = "request"
                      /\ approvalRow' = [approvalRow EXCEPT ![i] = "Pending"]
  BY DEF RequestApproval, Goes
<1>2. UNCHANGED <<logged, cmd, torn>>
  BY DEF RequestApproval
<1>3. approvalRow[i] = "none"
  BY <1>1 DEF Fresh, RInv, CInv, RunsTrue, IdsReserved, Reserves
<1>4. \A j \in Id : j \notin torn /\ ~Committing(j) => RowAgrees(j)
  BY RowFollowsLogMeans DEF RInv
<1>5. /\ \A j \in Id \ {i} : approvalRow'[j] = approvalRow[j]
      /\ approvalRow'[i] = "Pending"
  BY <1>1 DEF RInv, CInv, ApprovalTypeOK, RowTypeOK
<1>6. \A j \in Id : Committing(j)' <=> Committing(j)
  BY <1>2 DEF Committing
<1>7. i \notin torn /\ ~Committing(i) => RowAgrees(i)'
  <2>1. RowAgrees(i) => logged[i] = "none"
    BY <1>3 DEF RowAgrees
  <2>2. logged[i] = "none" => RowAgrees(i)'
    BY <1>2, <1>5 DEF RowAgrees
  <2>3. QED
    BY <1>4, <2>1, <2>2
<1>8. \A j \in Id : j \notin torn' /\ ~Committing(j)' => RowAgrees(j)'
  BY <1>2, <1>4, <1>5, <1>6, <1>7 DEF RowAgrees
<1>9. QED
  BY <1>8 DEF RowFollowsLog, Committing, RowAgrees

LEMMA RowStep == RInv /\ [ApprovalNext]_approvalVars => RInv'
<1> SUFFICES ASSUME RInv, [ApprovalNext]_approvalVars
             PROVE  RowFollowsLog'
  BY ConsentStep DEF RInv
<1>1. ASSUME UNCHANGED <<approvalRow, logged, cmd, torn>>
      PROVE  RowFollowsLog'
  BY <1>1 DEF RInv, RowFollowsLog
<1>2. ASSUME NEW x \in Asker, RunStep(x) \/ Choice(x)
      PROVE  RowFollowsLog'
  <2>1. CASE RequestApproval(x)
    BY <2>1, RowStepOfRequest
  <2>2. CASE ~RequestApproval(x)
    BY <1>1, <1>2, <2>2 DEF RunStep, Choice, LookUp, SubscribeRun, Check, HearEvent, Lag, LaunchRun,
                            ProposeDiff, EvaluateCall, ActOnCall, LeaveRun, dbVars
  <2>3. QED
    BY <2>1, <2>2
<1>3. ASSUME NEW r \in Command, Decide(r) \/ CommandStep(r)
      PROVE  RowFollowsLog'
  BY <1>3, RowStepOfCommand
<1>4. CASE Chatter
  BY <1>1, <1>4 DEF Chatter, dbVars
<1>5. CASE Crash
  <2>1. /\ UNCHANGED <<approvalRow, logged>>
        /\ torn' = torn \cup {cmd[r].id : r \in {s \in Command : cmd[s].at = "commit"}}
    BY <1>5 DEF Crash, dbVars
  <2>2. \A i \in Id : i \notin torn' => i \notin torn /\ ~Committing(i)
    BY <2>1 DEF Committing
  <2>3. \A i \in Id : i \notin torn' => RowAgrees(i)'
    BY <2>1, <2>2, RowFollowsLogMeans DEF RInv, RowAgrees
  <2>4. QED
    BY <2>3 DEF RowFollowsLog, RowAgrees
<1>6. CASE UNCHANGED approvalVars
  BY <1>1, <1>6 DEF approvalVars
<1>7. QED
  BY <1>2, <1>3, <1>4, <1>5, <1>6 DEF ApprovalNext

(* However many commands answer an approval, and in whatever order their   *)
(* transactions fall, its row ends with the last answer of the log, unless *)
(* a crash has cut one of them in two.                                     *)
THEOREM RowsFollowLog == ApprovalSpec => []RowFollowsLog
<1>1. ApprovalInit => RInv
  BY ConsentInit DEF RInv, ApprovalInit, RowFollowsLog
<1>2. RInv => RowFollowsLog
  BY DEF RInv
<1>3. QED
  BY <1>1, <1>2, RowStep, PTL DEF ApprovalSpec
=============================================================================
