---------------------------- MODULE ToolProofs ----------------------------
(*************************************************************************)
(* Proofs about the calls a run makes: the JSON-RPC client (Mcp), the    *)
(* executor that tools are mounted on (Toolbox), the browser of a space  *)
(* (Browser), the gate in front of a call (Review), the reply of a model *)
(* (Streaming) and the price of a call of it (Cost). Each is proved for  *)
(* every value of its constants and by itself.                           *)
(*************************************************************************)
EXTENDS Mcp, Toolbox, Browser, Review, Streaming, Cost, DataLemmas

---------------------------------------------------------------------------
(*************************************************************************)
(* Proofs about Mcp, for any number of calling tasks.  next_id is fetched  *)
(* and added to in one step, so the id of a call is its number in the      *)
(* order of the calls; a frame that answers a call carries that number,    *)
(* and an answer that comes after its call has gone finds no other call    *)
(* under it.                                                               *)
(*************************************************************************)

(* The listener that reconnects has attempts left. *)
TriesLeft == (stream = "up" => tries = 0) /\ (stream = "down" => tries < MaxTries)

CallIds ==
  /\ nextRpc = serial + 1
  /\ \A c \in Rpc : /\ rpc[c].id = rpc[c].serial
                    /\ Busy(c) => rpc[c].id # 0
  /\ \A h \in heard : h.id = h.to
  /\ \A f \in frames : f.to \in {f.id, 0}

(* What a call holds carries its id, and took the id out of the table.     *)
HeldByCall ==
  \A c \in Rpc : rpc[c].got # NoFrame =>
    /\ rpc[c].got.id = rpc[c].id
    /\ rpc[c].got.to \in {rpc[c].id, 0}
    /\ Busy(c) => rpc[c].id \notin pending

McpInv == McpTypeOK /\ TriesLeft /\ CallIds /\ HeldByCall /\ PendingHasCaller

-----------------------------------------------------------------------------
LEMMA McpInitInv == McpInit => McpInv
<1> SUFFICES ASSUME McpInit PROVE McpInv
  OBVIOUS
<1>1. \A c \in Rpc : rpc[c] = Hush
  BY DEF McpInit
<1>2. McpTypeOK
  <2>1. Hush \in [state: {"idle", "sending", "waiting", "answered", "failed"},
                  id: Nat, serial: 0..serial, got: [id: Nat, to: 0..serial]]
    BY DEF McpInit, Hush, NoFrame
  <2>2. rpc \in [Rpc -> [state: {"idle", "sending", "waiting", "answered", "failed"},
                         id: Nat, serial: 0..serial, got: [id: Nat, to: 0..serial]]]
    BY <2>1 DEF McpInit
  <2> QED BY <2>2, McpAssumption DEF McpInit, McpTypeOK
<1>3. TriesLeft /\ CallIds /\ HeldByCall /\ PendingHasCaller
  BY <1>1 DEF McpInit, TriesLeft, CallIds, HeldByCall, PendingHasCaller, Busy, Hush
<1> QED BY <1>2, <1>3 DEF McpInv

(* Steps of one call that end its waiting or fill it, one by one.          *)

LEMMA BeginRpcKeepsInv ==
  ASSUME McpInv, NEW c \in Rpc, BeginRpc(c)
  PROVE  McpInv'
<1> DEFINE new == [state |-> "sending", id |-> nextRpc, serial |-> serial + 1, got |-> NoFrame]
<1>1. /\ ~Busy(c) /\ serial' = serial + 1 /\ nextRpc' = nextRpc + 1
      /\ rpc' = [rpc EXCEPT ![c] = new] /\ pending' = pending \cup {nextRpc}
      /\ UNCHANGED <<transport, stream, tries, frames, heard, leaked>>
  BY DEF BeginRpc, NextId
<1>2. nextRpc = serial + 1 /\ serial \in Nat /\ nextRpc \in Nat
  BY DEF McpInv, CallIds, McpTypeOK
<1>3. rpc'[c] = new /\ \A d \in Rpc \ {c} : rpc'[d] = rpc[d]
  BY <1>1 DEF McpInv, McpTypeOK
<1>4. McpTypeOK'
  <2>1. 0..serial \subseteq 0..serial' /\ 1..(nextRpc - 1) \subseteq 1..(nextRpc' - 1)
        /\ nextRpc \in 1..(nextRpc' - 1)
    BY <1>1, <1>2
  <2>2. new \in [state: {"idle", "sending", "waiting", "answered", "failed"},
                 id: Nat, serial: 0..serial', got: [id: Nat, to: 0..serial']]
    BY <1>1, <1>2 DEF NoFrame
  <2>3. \A d \in Rpc : rpc[d] \in [state: {"idle", "sending", "waiting", "answered", "failed"},
                           id: Nat, serial: 0..serial', got: [id: Nat, to: 0..serial']]
    BY <2>1 DEF McpInv, McpTypeOK
  <2>4. rpc' \in [Rpc -> [state: {"idle", "sending", "waiting", "answered", "failed"},
                          id: Nat, serial: 0..serial', got: [id: Nat, to: 0..serial']]]
    BY <1>1, <2>2, <2>3 DEF McpInv, McpTypeOK
  <2>5. frames' \subseteq [id: Nat, to: 0..serial'] /\ heard' \subseteq [id: Nat, to: 0..serial']
    BY <1>1, <2>1 DEF McpInv, McpTypeOK
  <2>6. pending' \subseteq 1..(nextRpc' - 1) /\ leaked' \subseteq 1..(nextRpc' - 1)
    BY <1>1, <2>1 DEF McpInv, McpTypeOK
  <2> QED BY <1>1, <1>2, <2>4, <2>5, <2>6 DEF McpInv, McpTypeOK
<1>5. CallIds'
  BY <1>1, <1>2, <1>3 DEF McpInv, CallIds, Busy
<1>6. HeldByCall'
  <2>1. \A d \in Rpc \ {c} : rpc[d].got # NoFrame /\ Busy(d) => rpc[d].id # nextRpc
    BY <1>2 DEF McpInv, CallIds, McpTypeOK
  <2> QED BY <1>1, <1>3, <2>1 DEF McpInv, HeldByCall, Busy
<1>7. PendingHasCaller'
  BY <1>1, <1>3 DEF McpInv, PendingHasCaller, Busy
<1> QED BY <1>1, <1>4, <1>5, <1>6, <1>7 DEF McpInv, TriesLeft

(* A record keeps the fields that EXCEPT does not name, and its type.      *)
LEMMA CallRecord ==
  ASSUME NEW S, NEW I, NEW N, NEW G, NEW r \in [state: S, id: I, serial: N, got: G],
         NEW s \in S, NEW g \in G
  PROVE  LET new == [r EXCEPT !.state = s, !.got = g]
         IN /\ new.state = s /\ new.got = g /\ new.id = r.id /\ new.serial = r.serial
            /\ new \in [state: S, id: I, serial: N, got: G]
<1>1. [r EXCEPT !.state = s, !.got = g].id = r.id
  OBVIOUS
<1>2. [r EXCEPT !.state = s, !.got = g].serial = r.serial
  OBVIOUS
<1>3. [r EXCEPT !.state = s, !.got = g].state = s
  OBVIOUS
<1>4. [r EXCEPT !.state = s, !.got = g].got = g
  OBVIOUS
<1>5. [r EXCEPT !.state = s, !.got = g] \in [state: S, id: I, serial: N, got: G]
  OBVIOUS
<1> QED BY <1>1, <1>2, <1>3, <1>4, <1>5

(* Steps that change one call by at most its state and what it holds.      *)
LEMMA OneCallKeepsInv ==
  ASSUME McpInv, NEW c \in Rpc, NEW s \in {"waiting", "answered", "failed"},
         NEW g \in [id: Nat, to: 0..serial],
         Busy(c), g # NoFrame => g.id = rpc[c].id /\ g.to \in {rpc[c].id, 0},
         rpc' = [rpc EXCEPT ![c].state = s, ![c].got = g],
         \/ s = "waiting" /\ g = rpc[c].got /\ UNCHANGED pending
         \/ s # "waiting" /\ pending' = pending \ {rpc[c].id}
         \/ s = "answered" /\ g = rpc[c].got /\ g # NoFrame /\ UNCHANGED pending,
         pending' \in {pending, pending \ {rpc[c].id}},
         UNCHANGED <<transport, stream, tries, nextRpc, serial, frames, heard, leaked>>
  PROVE  McpInv'
<1>1. /\ rpc'[c] = [rpc[c] EXCEPT !.state = s, !.got = g]
      /\ \A d \in Rpc \ {c} : rpc'[d] = rpc[d]
  BY DEF McpInv, McpTypeOK
<1>2. rpc[c] \in [state: {"idle", "sending", "waiting", "answered", "failed"},
                  id: Nat, serial: 0..serial, got: [id: Nat, to: 0..serial]]
  BY DEF McpInv, McpTypeOK
<1> DEFINE new == [rpc[c] EXCEPT !.state = s, !.got = g]
<1>a. /\ new.state = s /\ new.got = g /\ new.id = rpc[c].id /\ new.serial = rpc[c].serial
      /\ new \in [state: {"idle", "sending", "waiting", "answered", "failed"},
                  id: Nat, serial: 0..serial, got: [id: Nat, to: 0..serial]]
  <2>1. s \in {"idle", "sending", "waiting", "answered", "failed"}
    OBVIOUS
  <2> QED BY ONLY <2>1, <1>2, g \in [id: Nat, to: 0..serial], CallRecord
<1>3. /\ rpc'[c].state = s /\ rpc'[c].got = g /\ rpc'[c].id = rpc[c].id
      /\ rpc'[c].serial = rpc[c].serial
  BY <1>1, <1>a
<1>4. McpTypeOK'
  <2>1. [rpc[c] EXCEPT !.state = s, !.got = g]
          \in [state: {"idle", "sending", "waiting", "answered", "failed"},
              id: Nat, serial: 0..serial, got: [id: Nat, to: 0..serial]]
    BY <1>2, <1>a
  <2>2. rpc' = [rpc EXCEPT ![c] = [rpc[c] EXCEPT !.state = s, !.got = g]]
    BY <1>2 DEF McpInv, McpTypeOK
  <2>3. rpc' \in [Rpc -> [state: {"idle", "sending", "waiting", "answered", "failed"},
                          id: Nat, serial: 0..serial, got: [id: Nat, to: 0..serial]]]
    BY <2>1, <2>2 DEF McpInv, McpTypeOK
  <2>4. pending' \in {pending, pending \ {rpc[c].id}}
    OBVIOUS
  <2>5. pending' \subseteq pending
    BY ONLY <2>4
  <2> QED BY <2>3, <2>5 DEF McpInv, McpTypeOK
<1>5. CallIds'
  <2>1. ASSUME NEW d \in Rpc
        PROVE  rpc'[d].id = rpc'[d].serial /\ (Busy(d)' => rpc'[d].id # 0)
    <3>1. rpc[d].id = rpc[d].serial /\ (Busy(d) => rpc[d].id # 0)
      BY DEF McpInv, CallIds
    <3>2. CASE d # c
      BY <1>1, <3>1, <3>2 DEF Busy
    <3>3. CASE d = c
      BY ONLY <1>3, <3>1, <3>3, Busy(c)
    <3> QED BY <3>2, <3>3
  <2> QED BY <2>1 DEF McpInv, CallIds
<1>6. ASSUME NEW d \in Rpc, rpc'[d].got # NoFrame
      PROVE  /\ rpc'[d].got.id = rpc'[d].id /\ rpc'[d].got.to \in {rpc'[d].id, 0}
             /\ Busy(d)' => rpc'[d].id \notin pending'
  <2>1. CASE d # c
    BY <1>1, <1>6, <2>1 DEF McpInv, HeldByCall, Busy
  <2>2. CASE d = c /\ s = "waiting"
    BY <1>3, <1>6, <2>2 DEF McpInv, HeldByCall
  <2>3. CASE d = c /\ s # "waiting"
    BY <1>3, <1>6, <2>3 DEF Busy
  <2> QED BY <2>1, <2>2, <2>3
<1>7. ASSUME NEW i \in pending', i \notin leaked'
      PROVE  \E d \in Rpc : Busy(d)' /\ rpc'[d].id = i
  <2>1. PICK d \in Rpc : Busy(d) /\ rpc[d].id = i
    BY <1>7 DEF McpInv, PendingHasCaller
  <2>2. CASE d # c
    BY <1>1, <2>1, <2>2 DEF Busy
  <2>3. CASE d = c /\ s = "waiting"
    BY <1>3, <2>1, <2>3 DEF Busy
  <2>4. ~(d = c /\ s # "waiting")
    BY <1>7, <2>1 DEF McpInv, HeldByCall
  <2> QED BY <2>2, <2>3, <2>4
<1>8. HeldByCall'
  BY <1>6 DEF HeldByCall
<1>9. PendingHasCaller'
  BY <1>7 DEF PendingHasCaller
<1> QED BY <1>4, <1>5, <1>8, <1>9 DEF McpInv, TriesLeft

LEMMA CallStepsKeepInv ==
  ASSUME McpInv, NEW c \in Rpc,
         Sent(c) \/ DirectAnswer(c) \/ SendFails(c) \/ TakeAnswer(c) \/ TimeOut(c)
  PROVE  McpInv'
<1> DEFINE held == rpc[c].got
<1>1. held \in [id: Nat, to: 0..serial] /\ (held # NoFrame => held.id = rpc[c].id
                                              /\ held.to \in {rpc[c].id, 0})
  BY DEF McpInv, McpTypeOK, HeldByCall
<1>2. rpc \in [Rpc -> [state: {"idle", "sending", "waiting", "answered", "failed"},
                       id: Nat, serial: 0..serial, got: [id: Nat, to: 0..serial]]]
  BY DEF McpInv, McpTypeOK
<1>3. ASSUME NEW s, rpc' = [rpc EXCEPT ![c].state = s]
      PROVE  rpc' = [rpc EXCEPT ![c].state = s, ![c].got = held]
  BY <1>2, <1>3
<1>4. Busy(c)
  BY DEF Sent, DirectAnswer, SendFails, TakeAnswer, TimeOut, Busy
<1>5. CASE Sent(c)
  BY <1>1, <1>3, <1>4, <1>5, OneCallKeepsInv DEF Sent
<1>6. CASE SendFails(c)
  BY <1>1, <1>3, <1>4, <1>6, OneCallKeepsInv DEF SendFails
<1>7. CASE TakeAnswer(c)
  BY <1>1, <1>3, <1>4, <1>7, OneCallKeepsInv DEF TakeAnswer
<1>8. CASE TimeOut(c)
  BY <1>1, <1>3, <1>4, <1>8, OneCallKeepsInv DEF TimeOut
<1>9. CASE DirectAnswer(c)
  <2> DEFINE request == [id |-> rpc[c].id, to |-> rpc[c].serial]
  <2>1. request \in [id: Nat, to: 0..serial] /\ request.id = rpc[c].id
        /\ request.to \in {rpc[c].id, 0}
    BY <1>2 DEF McpInv, CallIds
  <2>2. /\ rpc' = [rpc EXCEPT ![c].state = "answered", ![c].got = request]
        /\ pending' = pending \ {rpc[c].id}
        /\ UNCHANGED <<transport, stream, tries, nextRpc, serial, frames, heard, leaked>>
    BY <1>9 DEF DirectAnswer
  <2> HIDE DEF request
  <2> QED BY <1>4, <2>1, <2>2, OneCallKeepsInv
<1> QED BY <1>5, <1>6, <1>7, <1>8, <1>9

(* The id of a dropped call stays in the table: that is what leaked says.  *)
LEMMA DropCallKeepsInv ==
  ASSUME McpInv, NEW c \in Rpc, DropCall(c)
  PROVE  McpInv'
<1>1. /\ Busy(c) /\ rpc' = [rpc EXCEPT ![c] = Hush] /\ leaked' = leaked \cup {rpc[c].id}
      /\ UNCHANGED <<transport, stream, tries, nextRpc, serial, pending, frames, heard>>
  BY DEF DropCall
<1>2. rpc'[c] = Hush /\ \A d \in Rpc \ {c} : rpc'[d] = rpc[d]
  BY <1>1 DEF McpInv, McpTypeOK
<1>3. McpTypeOK'
  <2>1. serial \in Nat /\ nextRpc = serial + 1
    BY DEF McpInv, McpTypeOK, CallIds
  <2>2. Hush \in [state: {"idle", "sending", "waiting", "answered", "failed"},
                  id: Nat, serial: 0..serial, got: [id: Nat, to: 0..serial]]
    BY <2>1 DEF Hush, NoFrame
  <2>3. rpc[c].id \in 1..(nextRpc - 1)
    BY <1>1, <2>1 DEF McpInv, McpTypeOK, CallIds
  <2> QED BY <1>1, <2>2, <2>3 DEF McpInv, McpTypeOK
<1>4. CallIds'
  BY <1>1, <1>2 DEF McpInv, CallIds, Busy, Hush
<1>5. HeldByCall'
  BY <1>1, <1>2 DEF McpInv, HeldByCall, Busy, Hush
<1>6. PendingHasCaller'
  BY <1>1, <1>2 DEF McpInv, PendingHasCaller, Busy, Hush
<1> QED BY <1>1, <1>3, <1>4, <1>5, <1>6 DEF McpInv, TriesLeft

(* The server and the transport: they know a call by its number only.      *)
LEMMA WireKeepsInv ==
  ASSUME McpInv,
         \/ \E c \in Rpc : Hear(c)
         \/ \E h \in heard : ServerAnswers(h)
         \/ \E n \in 1..nextRpc : ServerAsks(n)
         \/ \E f \in frames : SkipPiece(f)
         \/ StreamBreaks \/ Reconnect \/ UNCHANGED mcpVars
  PROVE  McpInv'
<1>1. UNCHANGED <<transport, nextRpc, serial, rpc, pending, leaked>>
  BY DEF Hear, ServerAnswers, ServerAsks, SkipPiece, StreamBreaks, Reconnect, mcpVars
<1>2. \A h \in heard' : h \in [id: Nat, to: 0..serial] /\ h.id = h.to
  BY DEF Hear, ServerAnswers, ServerAsks, SkipPiece, StreamBreaks, Reconnect, mcpVars,
     McpInv, McpTypeOK, CallIds
<1>3. \A f \in frames' : f \in [id: Nat, to: 0..serial] /\ f.to \in {f.id, 0}
  <2>1. serial \in Nat /\ \A n \in 1..nextRpc : n \in Nat
    BY DEF McpInv, McpTypeOK
  <2> QED
    BY <2>1 DEF Hear, ServerAnswers, ServerAsks, SkipPiece, StreamBreaks, Reconnect, mcpVars,
       McpInv, McpTypeOK, CallIds
<1>4. stream' \in {"up", "down", "ended"} /\ tries' \in 0..MaxTries /\ TriesLeft'
  <2>1. MaxTries \in Nat \ {0} /\ tries \in 0..MaxTries /\ stream \in {"up", "down", "ended"}
        /\ TriesLeft
    BY McpAssumption DEF McpInv, McpTypeOK
  <2>2. CASE Reconnect
    BY <2>1, <2>2 DEF Reconnect, TriesLeft
  <2>3. CASE StreamBreaks
    BY <2>1, <2>3 DEF StreamBreaks, TriesLeft
  <2>4. CASE UNCHANGED <<stream, tries>>
    BY <2>1, <2>4 DEF TriesLeft
  <2> QED
    BY <2>2, <2>3, <2>4 DEF Hear, ServerAnswers, ServerAsks, SkipPiece, mcpVars
<1>5. McpTypeOK'
  BY <1>1, <1>2, <1>3, <1>4 DEF McpInv, McpTypeOK
<1>6. CallIds' /\ HeldByCall' /\ PendingHasCaller'
  BY <1>1, <1>2, <1>3 DEF McpInv, CallIds, HeldByCall, PendingHasCaller, Busy
<1> QED BY <1>4, <1>5, <1>6 DEF McpInv

(* A frame goes to the calls that wait under its id, if it is in the       *)
(* table, and takes the id out.                                            *)
LEMMA DeliverKeepsInv ==
  ASSUME McpInv, NEW f \in frames, Deliver(f)
  PROVE  McpInv'
<1> DEFINE taken(c) == f.id \in pending /\ Busy(c) /\ rpc[c].id = f.id
<1>1. /\ frames' = frames \ {f} /\ pending' = pending \ {f.id}
      /\ rpc' = [c \in Rpc |-> IF taken(c) THEN [rpc[c] EXCEPT !.got = f] ELSE rpc[c]]
      /\ UNCHANGED <<transport, stream, tries, nextRpc, serial, heard, leaked>>
  BY DEF Deliver
<1>2. f \in [id: Nat, to: 0..serial] /\ f.to \in {f.id, 0}
  BY DEF McpInv, McpTypeOK, CallIds
<1>3. \A c \in Rpc : rpc[c] \in [state: {"idle", "sending", "waiting", "answered", "failed"},
                                 id: Nat, serial: 0..serial, got: [id: Nat, to: 0..serial]]
  BY DEF McpInv, McpTypeOK
<1>4. \A c \in Rpc : /\ rpc'[c].state = rpc[c].state /\ rpc'[c].id = rpc[c].id
                     /\ rpc'[c].serial = rpc[c].serial
                     /\ rpc'[c].got = IF taken(c) THEN f ELSE rpc[c].got
  BY <1>1, <1>3
<1>5. McpTypeOK'
  <2>1. rpc' \in [Rpc -> [state: {"idle", "sending", "waiting", "answered", "failed"},
                          id: Nat, serial: 0..serial, got: [id: Nat, to: 0..serial]]]
    BY <1>1, <1>2, <1>3
  <2> QED BY <1>1, <2>1 DEF McpInv, McpTypeOK
<1>6. CallIds'
  BY <1>1, <1>4 DEF McpInv, CallIds, Busy
<1>7. HeldByCall'
  BY <1>1, <1>2, <1>4 DEF McpInv, HeldByCall, Busy
<1>8. PendingHasCaller'
  BY <1>1, <1>4 DEF McpInv, PendingHasCaller, Busy
<1> QED BY <1>1, <1>5, <1>6, <1>7, <1>8 DEF McpInv, TriesLeft

(* The types, the numbering of calls, what they hold and who is in the     *)
(* table of pending requests are one inductive invariant.                  *)
THEOREM CallsStayInv == McpSpec => []McpInv
<1>1. McpInv /\ [McpNext]_mcpVars => McpInv'
  BY BeginRpcKeepsInv, CallStepsKeepInv, DropCallKeepsInv, WireKeepsInv, DeliverKeepsInv
     DEF McpNext
<1> QED BY <1>1, McpInitInv, PTL DEF McpSpec

(* However late, doubled or reordered the frames of the server are, and    *)
(* however often its stream breaks: rpc_call returns no other call's       *)
(* answer.                                                                 *)
THEOREM AnswersAreForCalls == McpSpec => []AnswerIsForCall
<1>1. McpInv => AnswerIsForCall
  BY DEF McpInv, CallIds, HeldByCall, AnswerIsForCall
<1> QED BY <1>1, CallsStayInv, PTL

(* The table of pending requests grows with dropped calls only.            *)
THEOREM PendingIsBounded == McpSpec => []PendingHasCaller
<1>1. McpInv => PendingHasCaller
  BY DEF McpInv
<1> QED BY <1>1, CallsStayInv, PTL

---------------------------------------------------------------------------
(* Toolbox.  A task holds the executor it took or made while others make   *)
(* their own: whoever holds one that is not the project's holds one that   *)
(* lost a race or was forgotten (HoldersKnow), and a task that makes one   *)
(* saw none.  The count of the plugin's calls is of those that run and of  *)
(* those that were dropped (CallsCounted).                                 *)
Origin == Server \cup {Plugin, Native}
UserRow(n) ==
  [step: {"rest", "connect", "ask", "create", "mount"}, from: Origin, seen: 0..n,
   box: 0..n, left: SUBSET ToolName]

BoxesTyped ==
  /\ boxes \in Seq([ToolName -> SUBSET Origin])
  /\ executor \in 0..Len(boxes) /\ raced \subseteq 1..Len(boxes)
  /\ user \in [User -> UserRow(Len(boxes))]

Current(b) == b \in 1..Len(boxes) /\ (b = executor \/ b \in raced)

HoldersKnow ==
  \A u \in User : /\ user[u].step = "mount" => Current(user[u].box)
                  /\ user[u].step = "create" => user[u].seen = 0

Mounted ==
  \A o \in offered : o[1] \in ToolName /\ Current(o[3]) /\ boxes[o[3]][o[1]] = {o[2]}

Running == {u \in User : callStep[u] = "running"}

CallsCounted ==
  /\ mcpRegistry \in [Server -> {"absent", "registered", "approved"}]
  /\ callStep \in [User -> {"none", "checked", "running"}]
  /\ activeCalls \in Nat /\ abandoned \in Nat
  /\ IsFiniteSet(Running) /\ activeCalls = Cardinality(Running) + abandoned

ToolboxInv == BoxesTyped /\ HoldersKnow /\ Mounted /\ CallsCounted

LEMMA ToolboxFollows == ToolboxInv => ToolboxTypeOK /\ MountedToolsStay
<1> SUFFICES ASSUME ToolboxInv PROVE ToolboxTypeOK /\ MountedToolsStay
  OBVIOUS
<1>1. \A b \in 1..Len(boxes) : boxes[b] \in [ToolName -> SUBSET Origin]
  BY DEF ToolboxInv, BoxesTyped
<1>2. ToolboxTypeOK
  BY <1>1 DEF ToolboxInv, BoxesTyped, CallsCounted, UserRow, Origin, ToolboxTypeOK
<1>3. MountedToolsStay
  BY DEF ToolboxInv, BoxesTyped, Mounted, Current, MountedToolsStay
<1> QED BY <1>2, <1>3

LEMMA ToolboxInitInv == ToolboxInit => ToolboxInv
<1> SUFFICES ASSUME ToolboxInit PROVE ToolboxInv
  OBVIOUS
<1>1. Running = {}
  BY DEF ToolboxInit, Running
<1>2. CallsCounted
  BY <1>1, FS_EmptySet DEF ToolboxInit, CallsCounted
<1>3. BoxesTyped
  BY DEF ToolboxInit, BoxesTyped, UserRow, Origin, Still
<1>4. HoldersKnow /\ Mounted
  BY DEF ToolboxInit, HoldersKnow, Mounted, Still
<1> QED BY <1>2, <1>3, <1>4 DEF ToolboxInv

LEMMA CallKeepsToolbox ==
  ASSUME ToolboxInv,
         \/ \E u \in User : CheckCalls(u) \/ CountCall(u) \/ CallEnds(u) \/ CallDropped(u)
         \/ \E s \in Server : RegisterServer(s) \/ DeleteServer(s)
                              \/ \E b \in BOOLEAN : ToggleApproval(s, b)
  PROVE  ToolboxInv'
<1>1. UNCHANGED <<executor, boxes, user, offered, raced>>
  BY DEF CheckCalls, CountCall, CallEnds, CallDropped, RegisterServer, DeleteServer, ToggleApproval
<1>2. BoxesTyped' /\ HoldersKnow' /\ Mounted'
  BY <1>1 DEF ToolboxInv, BoxesTyped, HoldersKnow, Mounted, Current
<1>3. CallsCounted'
  <2>1. ASSUME NEW s \in Server, RegisterServer(s) \/ DeleteServer(s)
                                 \/ \E b \in BOOLEAN : ToggleApproval(s, b)
        PROVE  CallsCounted'
    <3>1. UNCHANGED callVars /\ mcpRegistry' \in [Server -> {"absent", "registered", "approved"}]
      BY <2>1 DEF RegisterServer, DeleteServer, ToggleApproval, ToolboxInv, CallsCounted
    <3>2. Running' = Running
      BY <3>1 DEF callVars, Running
    <3> QED BY <3>1, <3>2 DEF callVars, ToolboxInv, CallsCounted
  <2>2. ASSUME NEW u \in User, CheckCalls(u) \/ CountCall(u) \/ CallEnds(u) \/ CallDropped(u)
        PROVE  CallsCounted'
    <3>1. /\ mcpRegistry' = mcpRegistry /\ callStep \in [User -> {"none", "checked", "running"}]
          /\ callStep' \in [User -> {"none", "checked", "running"}]
          /\ activeCalls \in Nat /\ abandoned \in Nat /\ IsFiniteSet(Running)
          /\ Cardinality(Running) \in Nat /\ activeCalls = Cardinality(Running) + abandoned
      BY <2>2, FS_CardinalityType DEF CheckCalls, CountCall, CallEnds, CallDropped, ToolboxInv, CallsCounted
    <3>2. CASE CheckCalls(u)
      <4>1. Running' = Running /\ UNCHANGED <<activeCalls, abandoned>>
        BY <3>1, <3>2 DEF CheckCalls, Running
      <4> QED BY <3>1, <4>1 DEF ToolboxInv, CallsCounted
    <3>3. CASE CountCall(u)
      <4>1. u \notin Running /\ Running' = Running \cup {u}
            /\ activeCalls' = activeCalls + 1 /\ abandoned' = abandoned
        BY <3>1, <3>3 DEF CountCall, Running
      <4>2. IsFiniteSet(Running') /\ Cardinality(Running') = Cardinality(Running) + 1
        BY <3>1, <4>1, FS_AddElement
      <4> QED BY <3>1, <4>1, <4>2 DEF ToolboxInv, CallsCounted
    <3>4. CASE CallEnds(u) \/ CallDropped(u)
      <4>1. /\ u \in Running /\ Running' = Running \ {u}
            /\ \/ activeCalls' = activeCalls - 1 /\ abandoned' = abandoned
               \/ activeCalls' = activeCalls /\ abandoned' = abandoned + 1
        BY <3>1, <3>4 DEF CallEnds, CallDropped, Running
      <4>2. IsFiniteSet(Running') /\ Cardinality(Running') = Cardinality(Running) - 1
            /\ Cardinality(Running') \in Nat
        BY <3>1, <4>1, FS_RemoveElement, FS_CardinalityType
      <4> QED BY <3>1, <4>1, <4>2 DEF ToolboxInv, CallsCounted
    <3> QED BY <2>2, <3>2, <3>3, <3>4
  <2> QED BY <2>1, <2>2
<1> QED BY <1>2, <1>3 DEF ToolboxInv

(* Steps of a task that only change what it is doing. *)
LEMMA TaskKeepsToolbox ==
  ASSUME ToolboxInv, NEW u \in User, NEW r \in UserRow(Len(boxes)),
         user' = [user EXCEPT ![u] = r],
         r.step = "mount" => Current(r.box), r.step = "create" => r.seen = 0,
         UNCHANGED <<mcpRegistry, executor, boxes, offered, raced, callVars>>
  PROVE  ToolboxInv'
<1>1. BoxesTyped' /\ Mounted'
  BY DEF ToolboxInv, BoxesTyped, Mounted, Current
<1>2. HoldersKnow'
  BY DEF ToolboxInv, BoxesTyped, HoldersKnow, Current
<1>3. Running' = Running
  BY DEF callVars, Running
<1>4. CallsCounted'
  BY <1>3 DEF callVars, ToolboxInv, CallsCounted
<1> QED BY <1>1, <1>2, <1>4 DEF ToolboxInv

LEMMA MoveKeepsToolbox ==
  ASSUME ToolboxInv, NEW u \in User,
         \/ \E s \in Server \cup {Plugin} : Connect(u, s)
         \/ ConnectFails(u) \/ ToolsListed(u) \/ InitializePlugin(u) \/ BeginRun(u)
         \/ GetExecutor(u) \/ Finish(u)
  PROVE  ToolboxInv'
<1>1. UNCHANGED <<mcpRegistry, executor, boxes, offered, raced, callVars>>
  BY DEF Connect, ConnectFails, ToolsListed, InitializePlugin, BeginRun, GetExecutor, Finish
<1>2. user[u] \in UserRow(Len(boxes)) /\ Still \in UserRow(Len(boxes)) /\ Len(boxes) \in Nat
      /\ u \in DOMAIN user /\ executor \in 0..Len(boxes)
  BY DEF ToolboxInv, BoxesTyped, UserRow, Origin, Still
<1>3. PICK r : /\ user' = [user EXCEPT ![u] = r] /\ r \in UserRow(Len(boxes))
               /\ r.step = "mount" => Current(r.box)
               /\ r.step = "create" => r.seen = 0
  <2> DEFINE Fine(r) == /\ user' = [user EXCEPT ![u] = r] /\ r \in UserRow(Len(boxes))
                        /\ r.step = "mount" => Current(r.box)
                        /\ r.step = "create" => r.seen = 0
             Moves == \E r : Fine(r)
  <2>1. ASSUME NEW s \in Server \cup {Plugin}, Connect(u, s) PROVE Moves
    <3>1. Fine([Still EXCEPT !.step = "connect", !.from = s])
      BY <1>2, <2>1 DEF Connect, UserRow, Origin, Still
    <3> QED BY <3>1
  <2>2. ASSUME ConnectFails(u) \/ Finish(u) PROVE Moves
    <3>1. Fine(Still)
      BY <1>2, <2>2 DEF ConnectFails, Finish, Still
    <3> QED BY <3>1
  <2>3. ASSUME ToolsListed(u) \/ InitializePlugin(u) PROVE Moves
    <3> DEFINE r == [user[u] EXCEPT !.step = "ask", !.left = ToolsOf[user[u].from]]
    <3>1. user' = [user EXCEPT ![u] = r] /\ ToolsOf[user[u].from] \subseteq ToolName
      BY <1>2, <2>3, ToolboxAssumption DEF ToolsListed, InitializePlugin, Offered
    <3>2. r \in UserRow(Len(boxes)) /\ r.step = "ask"
      BY <1>2, <3>1 DEF UserRow
    <3> HIDE DEF r
    <3>3. Fine(r)
      BY <3>1, <3>2
    <3> QED BY <3>3
  <2>4. ASSUME BeginRun(u) PROVE Moves
    <3>1. Fine([user[u] EXCEPT !.step = "ask"])
      BY <1>2, <2>4 DEF BeginRun, UserRow
    <3> QED BY <3>1
  <2>5. ASSUME GetExecutor(u) /\ executor # 0 PROVE Moves
    <3> DEFINE r == [user[u] EXCEPT !.step = "mount", !.box = executor]
    <3>1. user' = [user EXCEPT ![u] = r]
      BY <1>2, <2>5 DEF GetExecutor, Has
    <3>2. r \in UserRow(Len(boxes)) /\ r.step = "mount" /\ r.box = executor
      BY <1>2 DEF UserRow
    <3>3. Current(executor)
      BY <1>2, <2>5 DEF Current
    <3> HIDE DEF r
    <3>4. Fine(r)
      BY <3>1, <3>2, <3>3
    <3> QED BY <3>4
  <2>6. ASSUME GetExecutor(u) /\ executor = 0 PROVE Moves
    <3> DEFINE r == [user[u] EXCEPT !.step = "create", !.seen = executor]
    <3>1. user' = [user EXCEPT ![u] = r]
      BY <1>2, <2>6 DEF GetExecutor
    <3>2. r \in UserRow(Len(boxes)) /\ r.step = "create" /\ r.seen = 0
      BY <1>2, <2>6 DEF UserRow
    <3> HIDE DEF r
    <3>4. Fine(r)
      BY <3>1, <3>2
    <3> QED BY <3>4
  <2>7. Moves
    <3> HIDE DEF Moves
    <3> HIDE DEF Fine
    <3> QED BY <2>1, <2>2, <2>3, <2>4, <2>5, <2>6
  <2> QED BY <2>7
<1> QED BY <1>1, <1>3, TaskKeepsToolbox

(* A tool is put under its name, over what was there.                      *)
LEMMA RegisterKeepsToolbox ==
  ASSUME ToolboxInv, NEW u \in User, RegisterTool(u)
  PROVE  ToolboxInv'
<1> DEFINE b == user[u].box
           from == user[u].from
<1>1. PICK n \in user[u].left :
       /\ boxes' = [boxes EXCEPT ![b][n] = {from}]
       /\ user' = [user EXCEPT ![u].left = @ \ {n}]
       /\ offered' = {o \in offered : o[1] # n \/ o[3] # b} \cup {<<n, from, b>>}
  BY DEF RegisterTool
<1>2. user[u].step = "mount" /\ UNCHANGED <<mcpRegistry, executor, raced, callVars>>
  BY DEF RegisterTool
<1>3. user[u] \in UserRow(Len(boxes)) /\ n \in ToolName /\ from \in Origin /\ Current(b)
  BY <1>2 DEF ToolboxInv, BoxesTyped, UserRow, HoldersKnow
<1>4. b \in 1..Len(boxes) /\ b \in DOMAIN boxes /\ boxes[b] \in [ToolName -> SUBSET Origin]
  BY <1>3 DEF Current, ToolboxInv, BoxesTyped
<1> DEFINE row == [boxes[b] EXCEPT ![n] = {from}]
<1>5. row \in [ToolName -> SUBSET Origin] /\ row[n] = {from}
      /\ \A m \in ToolName : m # n => row[m] = boxes[b][m]
  BY <1>3, <1>4
<1>6. boxes' = [boxes EXCEPT ![b] = row]
  BY <1>1
<1> DEFINE r == [user[u] EXCEPT !.left = @ \ {n}]
<1>7. user' = [user EXCEPT ![u] = r]
  BY <1>1
<1>8. r \in UserRow(Len(boxes)) /\ r.step = user[u].step /\ r.box = user[u].box /\ r.seen = user[u].seen
  BY <1>3 DEF UserRow
<1> HIDE DEF row, r, from, b
<1>9. /\ boxes' \in Seq([ToolName -> SUBSET Origin]) /\ Len(boxes') = Len(boxes)
      /\ boxes'[b] = row /\ \A c \in 1..Len(boxes) : c # b => boxes'[c] = boxes[c]
  BY <1>4, <1>5, <1>6 DEF ToolboxInv, BoxesTyped
<1>10. \A c : Current(c)' <=> Current(c)
  BY <1>2, <1>9 DEF Current
<1>11. BoxesTyped'
  BY <1>2, <1>7, <1>8, <1>9 DEF ToolboxInv, BoxesTyped
<1>12. HoldersKnow'
  BY <1>7, <1>8, <1>10 DEF ToolboxInv, BoxesTyped, HoldersKnow, b
<1>13. Mounted'
  <2> SUFFICES ASSUME NEW o \in offered'
               PROVE  o[1] \in ToolName /\ Current(o[3]) /\ boxes'[o[3]][o[1]] = {o[2]}
    BY <1>10 DEF Mounted
  <2>1. CASE o = <<n, from, b>>
    BY <2>1, <1>3, <1>5, <1>9
  <2>2. CASE o \in offered /\ (o[1] # n \/ o[3] # b)
    <3>1. o[1] \in ToolName /\ Current(o[3]) /\ boxes[o[3]][o[1]] = {o[2]}
      BY <2>2 DEF ToolboxInv, Mounted
    <3>2. CASE o[3] = b
      BY <1>5, <1>9, <2>2, <3>1, <3>2
    <3>3. CASE o[3] # b
      BY <1>9, <3>1, <3>3 DEF Current
    <3> QED BY <3>2, <3>3
  <2> QED BY <1>1, <2>1, <2>2
<1>14. CallsCounted'
  BY <1>2 DEF callVars, ToolboxInv, CallsCounted, Running
<1> QED BY <1>11, <1>12, <1>13, <1>14 DEF ToolboxInv

LEMMA InsertKeepsToolbox ==
  ASSUME ToolboxInv, NEW u \in User, InsertExecutor(u)
  PROVE  ToolboxInv'
<1>0. PICK k \in Nat : k = Len(boxes) + 1 /\ Len(boxes) \in Nat
  BY DEF ToolboxInv, BoxesTyped
<1> DEFINE fresh == [n \in ToolName |-> IF n \in NativeName THEN {Native} ELSE {}]
           r == [user[u] EXCEPT !.step = "mount", !.box = k]
<1>1. /\ user[u].step = "create" /\ boxes' = Append(boxes, fresh) /\ executor' = k
      /\ raced' = raced \cup {b \in {executor} : b # 0 /\ user[u].seen = 0}
      /\ user' = [user EXCEPT ![u] = r] /\ UNCHANGED <<mcpRegistry, offered, callVars>>
  BY <1>0 DEF InsertExecutor, Has
<1>2. Len(boxes) \in Nat /\ boxes \in Seq([ToolName -> SUBSET Origin])
      /\ fresh \in [ToolName -> SUBSET Origin] /\ user \in [User -> UserRow(Len(boxes))]
      /\ executor \in 0..Len(boxes) /\ raced \subseteq 1..Len(boxes)
  BY DEF ToolboxInv, BoxesTyped, Origin
<1> HIDE DEF fresh
<1>3. /\ boxes' \in Seq([ToolName -> SUBSET Origin]) /\ Len(boxes') = k
      /\ \A c \in 1..Len(boxes) : boxes'[c] = boxes[c]
  BY <1>0, <1>1, <1>2
<1>4. UserRow(Len(boxes)) \subseteq UserRow(k) /\ r \in UserRow(k) /\ r.step = "mount" /\ r.box = k
  <2>1. 0..Len(boxes) \subseteq 0..k /\ k \in 0..k
    BY <1>0
  <2>2. UserRow(Len(boxes)) \subseteq UserRow(k)
    BY <2>1 DEF UserRow
  <2>3. user[u] \in UserRow(k)
    BY <1>2, <2>2
  <2> QED BY <2>1, <2>2, <2>3 DEF UserRow
<1> HIDE DEF r
<1>5. user[u].seen = 0
  BY <1>1 DEF ToolboxInv, HoldersKnow
<1>6. \A c : Current(c) => Current(c)' /\ c \in 1..Len(boxes)
  BY <1>1, <1>2, <1>3, <1>5 DEF Current
<1>7. BoxesTyped'
  <2>1. user' \in [User -> UserRow(k)]
    BY <1>1, <1>2, <1>4
  <2>2. raced' \subseteq 1..k /\ executor' \in 0..k
    <3>1. 1..Len(boxes) \subseteq 1..k /\ k \in 0..k
      BY <1>0
    <3>2. \A x \in raced' : x \in raced \/ (x = executor /\ x # 0)
      BY <1>1
    <3>3. raced' \subseteq 1..Len(boxes)
      <4>1. executor # 0 => executor \in 1..Len(boxes)
        BY <1>0, <1>2
      <4> QED BY <1>2, <3>2, <4>1, Zenon
    <3> QED BY <1>1, <3>1, <3>3
  <2> QED BY <1>3, <2>1, <2>2 DEF BoxesTyped
<1>8. HoldersKnow'
  <2>1. Current(k)'
    BY <1>0, <1>1, <1>3 DEF Current
  <2>2. user'[u] = r /\ \A v \in User \ {u} : user'[v] = user[v]
    BY <1>1, <1>2
  <2> QED BY <1>4, <1>6, <2>1, <2>2 DEF ToolboxInv, HoldersKnow
<1>9. Mounted'
  BY <1>1, <1>3, <1>6 DEF ToolboxInv, Mounted
<1>10. CallsCounted'
  BY <1>1 DEF callVars, ToolboxInv, CallsCounted, Running
<1> QED BY <1>7, <1>8, <1>9, <1>10 DEF ToolboxInv

LEMMA ForgetKeepsToolbox ==
  ASSUME ToolboxInv, ForgetExecutor
  PROVE  ToolboxInv'
<1>1. BoxesTyped'
  BY DEF ForgetExecutor, ToolboxInv, BoxesTyped
<1>2. \A c : Current(c) => Current(c)'
  BY DEF ForgetExecutor, Current
<1>3. HoldersKnow' /\ Mounted'
  BY <1>2 DEF ForgetExecutor, ToolboxInv, HoldersKnow, Mounted
<1>4. CallsCounted'
  BY DEF ForgetExecutor, callVars, ToolboxInv, CallsCounted, Running
<1> QED BY <1>1, <1>3, <1>4 DEF ToolboxInv

(* A mounted tool is the one the project runs, for any tasks, servers and  *)
(* tools; the executors that are excepted are those a race or a deletion   *)
(* of the project replaced.                                                *)
THEOREM MountedToolsAreServed == ToolboxSpec => [](ToolboxTypeOK /\ MountedToolsStay)
<1>1. ToolboxInv /\ [ToolboxNext]_toolVars => ToolboxInv'
  <2> SUFFICES ASSUME ToolboxInv, [ToolboxNext]_toolVars PROVE ToolboxInv'
    OBVIOUS
  <2>1. CASE UNCHANGED toolVars
    BY <2>1 DEF toolVars, ToolboxInv, BoxesTyped, HoldersKnow, Mounted, CallsCounted, Current, Running
  <2>2. CASE ToolboxNext
    BY <2>2, CallKeepsToolbox, MoveKeepsToolbox, RegisterKeepsToolbox, InsertKeepsToolbox,
       ForgetKeepsToolbox DEF ToolboxNext
  <2> QED BY <2>1, <2>2
<1> QED BY <1>1, ToolboxInitInv, ToolboxFollows, PTL DEF ToolboxSpec

---------------------------------------------------------------------------
(* Browser.  While a snapshot is being restored nothing need be where it   *)
(* was; the restoration that ends makes up for all of it, because what was *)
(* due in a snapshot is in its content or forfeited (SnapshotsHold), and   *)
(* because no browser is lost: each that was launched is the one of the    *)
(* space or displaced, since who launches one had seen none (VisitsKnow).  *)
VisitRow(n, m) ==
  [at : {"away", "launch", "page", "acting", "navigated", "asking", "close", "closing",
         "clear", "copy"},
   browser : 0..n, first : BOOLEAN, snap : 0..m]

SnapRow(d) == [there : BOOLEAN, content : SUBSET (1..d), due : SUBSET (1..d)]

SpaceTyped ==
  /\ deeds \in Nat /\ profile \subseteq 1..deeds /\ forfeited \subseteq 1..deeds
  /\ keeps \in Seq(SUBSET (1..deeds)) /\ snapshots \in Seq(SnapRow(deeds))
  /\ sessions \in 0..Len(keeps)
  /\ closed \subseteq 1..Len(keeps) /\ displaced \subseteq 1..Len(keeps)
  /\ visit \in [Visitor -> VisitRow(Len(keeps), Len(snapshots))]

NoneIsLost == 1..Len(keeps) \subseteq {sessions} \cup displaced

Knows(v) ==
  /\ v.at \in {"page", "acting", "closing"} => v.browser # 0
  /\ v.at = "launch" => v.first
  /\ v.at = "copy" => v.snap # 0

VisitsKnow == \A c \in Visitor : Knows(visit[c])

SnapshotsHold == \A k \in 1..Len(snapshots) : snapshots[k].due \subseteq snapshots[k].content \cup forfeited

DeedsThere == ~Restoring => 1..deeds \subseteq profile \cup forfeited \cup InMemory

BrowserInv == SpaceTyped /\ NoneIsLost /\ VisitsKnow /\ SnapshotsHold /\ DeedsThere

LEMMA BrowserFollows == BrowserInv => BrowserTypeOK /\ DeedsAreKept
<1> SUFFICES ASSUME BrowserInv PROVE BrowserTypeOK /\ DeedsAreKept
  OBVIOUS
<1>1. DOMAIN keeps = 1..Len(keeps) /\ DOMAIN snapshots = 1..Len(snapshots)
      /\ Len(keeps) \in Nat /\ Len(snapshots) \in Nat
  BY DEF BrowserInv, SpaceTyped
<1>2. 0..Len(keeps) = {0} \cup DOMAIN keeps /\ 0..Len(snapshots) = {0} \cup DOMAIN snapshots
  BY <1>1
<1>3. BrowserTypeOK
  BY <1>1, <1>2 DEF BrowserInv, SpaceTyped, VisitRow, SnapRow, BrowserTypeOK
<1>4. DeedsAreKept
  <2> SUFFICES ASSUME ~Restoring, NEW d \in 1..deeds, d \notin profile \cup forfeited
               PROVE  \E b \in {sessions} \cup displaced : b # 0 /\ d \in keeps[b]
    BY DEF DeedsAreKept
  <2>1. PICK b \in DOMAIN keeps : d \in keeps[b]
    BY DEF BrowserInv, DeedsThere, InMemory
  <2>2. b # 0 /\ b \in {sessions} \cup displaced
    BY <1>1 DEF BrowserInv, NoneIsLost
  <2> QED BY <2>1, <2>2
<1> QED BY <1>3, <1>4

LEMMA BrowserInitInv == BrowserInit => BrowserInv
BY DEF BrowserInit, BrowserInv, SpaceTyped, VisitRow, SnapRow, NoneIsLost, VisitsKnow, Knows,
     SnapshotsHold, DeedsThere, Away

(* Where a visitor is after a step: none begins or ends a copy. *)
LEMMA VisitMoves ==
  ASSUME NEW c \in Visitor, NEW r, NEW n \in Nat, NEW m \in Nat,
         SpaceTyped, VisitsKnow, Len(keeps) <= n, Len(snapshots) <= m,
         r \in VisitRow(n, m), Knows(r), visit' = [visit EXCEPT ![c] = r]
  PROVE  /\ visit' \in [Visitor -> VisitRow(n, m)] /\ VisitsKnow'
         /\ (visit[c].at = "copy" <=> r.at = "copy") => (Restoring' <=> Restoring)
<1>1. VisitRow(Len(keeps), Len(snapshots)) \subseteq VisitRow(n, m)
  <2>1. 0..Len(keeps) \subseteq 0..n /\ 0..Len(snapshots) \subseteq 0..m
    BY DEF SpaceTyped
  <2> QED BY <2>1 DEF VisitRow
<1>2. visit \in [Visitor -> VisitRow(n, m)]
  BY <1>1 DEF SpaceTyped
<1>3. visit' \in [Visitor -> VisitRow(n, m)] /\ visit'[c] = r
      /\ \A d \in Visitor \ {c} : visit'[d] = visit[d]
  BY <1>2
<1>4. VisitsKnow'
  BY <1>3 DEF VisitsKnow
<1> QED BY <1>3, <1>4 DEF Restoring

LEMMA VisitKeepsBrowser ==
  ASSUME BrowserInv, NEW c \in Visitor, NEW r \in VisitRow(Len(keeps), Len(snapshots)),
         Knows(r), visit' = [visit EXCEPT ![c] = r], visit[c].at = "copy" <=> r.at = "copy",
         UNCHANGED <<profile, sessions, keeps, closed, snapshots, deeds, displaced, forfeited>>
  PROVE  BrowserInv'
<1>1. PICK n \in Nat, m \in Nat : n = Len(keeps) /\ m = Len(snapshots)
  BY DEF BrowserInv, SpaceTyped
<1>2. r \in VisitRow(n, m) /\ Len(keeps) <= n /\ Len(snapshots) <= m
  BY <1>1
<1>3. /\ visit' \in [Visitor -> VisitRow(n, m)] /\ VisitsKnow'
      /\ Restoring' <=> Restoring
  BY <1>2, VisitMoves DEF BrowserInv
<1> QED BY <1>1, <1>3 DEF BrowserInv, SpaceTyped, NoneIsLost, SnapshotsHold, DeedsThere, InMemory

LEMMA CallKeepsBrowser ==
  ASSUME BrowserInv, NEW c \in Visitor,
         BeginVisit(c) \/ LockPage(c) \/ Leave(c) \/ BeginRollback(c)
  PROVE  BrowserInv'
<1>1. /\ visit[c] \in VisitRow(Len(keeps), Len(snapshots)) /\ Knows(visit[c])
      /\ Away \in VisitRow(Len(keeps), Len(snapshots)) /\ Knows(Away) /\ Away.at # "copy"
      /\ Len(keeps) \in Nat /\ Len(snapshots) \in Nat /\ sessions \in 0..Len(keeps)
      /\ visit \in [Visitor -> VisitRow(Len(keeps), Len(snapshots))]
  BY DEF BrowserInv, SpaceTyped, VisitsKnow, Knows, VisitRow, Away
<1>2. UNCHANGED <<profile, sessions, keeps, closed, snapshots, deeds, displaced, forfeited>>
  BY DEF BeginVisit, LockPage, Leave, BeginRollback
<1>3. CASE BeginVisit(c)
  <2> DEFINE r == [at |-> Where, first |-> sessions = 0, snap |-> 0,
                   browser |-> IF Where = "page" THEN sessions ELSE 0]
  <2>1. visit' = [visit EXCEPT ![c] = r] /\ visit[c].at # "copy"
    BY <1>3 DEF BeginVisit
  <2>2. r \in VisitRow(Len(keeps), Len(snapshots)) /\ Knows(r) /\ r.at # "copy"
    <3>1. CASE sessions = 0
      <4>1. r = [at |-> "launch", first |-> TRUE, snap |-> 0, browser |-> 0]
        BY <3>1 DEF Where
      <4> QED BY <1>1, <4>1 DEF VisitRow, Knows
    <3>2. CASE sessions # 0
      <4>1. r = [at |-> "page", first |-> FALSE, snap |-> 0, browser |-> sessions]
        BY <3>2 DEF Where
      <4> QED BY <1>1, <3>2, <4>1 DEF VisitRow, Knows
    <3> QED BY <3>1, <3>2
  <2> HIDE DEF r
  <2> QED BY <1>2, <2>1, <2>2, VisitKeepsBrowser
<1>4. CASE LockPage(c)
  <2> DEFINE r == [visit[c] EXCEPT !.at = "acting"]
  <2>1. visit' = [visit EXCEPT ![c] = r] /\ visit[c].at = "page"
    BY <1>1, <1>4 DEF LockPage
  <2>2. r \in VisitRow(Len(keeps), Len(snapshots)) /\ Knows(r) /\ r.at # "copy"
    BY <1>1, <2>1 DEF VisitRow, Knows
  <2> HIDE DEF r
  <2> QED BY <1>2, <2>1, <2>2, VisitKeepsBrowser
<1>5. CASE Leave(c)
  <2>1. visit' = [visit EXCEPT ![c] = Away] /\ visit[c].at # "copy"
    BY <1>5 DEF Leave
  <2> QED BY <1>1, <1>2, <2>1, VisitKeepsBrowser
<1>6. CASE BeginRollback(c)
  <2>1. PICK k \in 0..Len(snapshots) :
          visit' = [visit EXCEPT ![c] = [visit[c] EXCEPT !.at = "close", !.snap = k]]
    <3>1. CASE visit' = [visit EXCEPT ![c].at = "close"]
      <4>1. visit[c].snap \in 0..Len(snapshots)
        BY <1>1 DEF VisitRow
      <4>2. [visit[c] EXCEPT !.at = "close"] = [visit[c] EXCEPT !.at = "close", !.snap = visit[c].snap]
        BY <1>1 DEF VisitRow
      <4>3. visit' = [visit EXCEPT ![c] = [visit[c] EXCEPT !.at = "close"]]
        BY <1>1, <3>1
      <4> QED BY <4>1, <4>2, <4>3
    <3>2. ASSUME NEW k \in {0} \cup DOMAIN snapshots,
                 visit' = [visit EXCEPT ![c].at = "close", ![c].snap = k]
          PROVE  /\ k \in 0..Len(snapshots)
                 /\ visit' = [visit EXCEPT ![c] = [visit[c] EXCEPT !.at = "close", !.snap = k]]
      <4>1. k \in 0..Len(snapshots)
        BY DEF BrowserInv, SpaceTyped
      <4> QED BY <1>1, <3>2, <4>1
    <3> QED BY <1>6, <3>1, <3>2 DEF BeginRollback
  <2> DEFINE r == [visit[c] EXCEPT !.at = "close", !.snap = k]
  <2>2. visit[c].at # "copy"
    BY <1>6 DEF BeginRollback
  <2>3. r \in VisitRow(Len(keeps), Len(snapshots)) /\ Knows(r) /\ r.at # "copy"
    BY <1>1 DEF VisitRow, Knows
  <2>4. visit' = [visit EXCEPT ![c] = r]
    BY <2>1
  <2> HIDE DEF r
  <2> QED BY <1>2, <2>2, <2>3, <2>4, VisitKeepsBrowser
<1> QED BY <1>3, <1>4, <1>5, <1>6

LEMMA LaunchKeepsBrowser ==
  ASSUME BrowserInv, NEW c \in Visitor, Launch(c)
  PROVE  BrowserInv'
<1>1. PICK n \in Nat, m \in Nat : n = Len(keeps) /\ m = Len(snapshots)
  BY DEF BrowserInv, SpaceTyped
<1> DEFINE r == [visit[c] EXCEPT !.at = "page", !.browser = n + 1]
<1>2. /\ visit[c].at = "launch" /\ keeps' = Append(keeps, {}) /\ sessions' = n + 1
      /\ visit' = [visit EXCEPT ![c] = r] /\ visit[c].first
      /\ displaced' = displaced \cup ({sessions} \ {0})
      /\ UNCHANGED <<profile, closed, snapshots, deeds, forfeited>>
  BY <1>1 DEF Launch, BrowserInv, SpaceTyped, VisitsKnow, Knows
<1>3. r \in VisitRow(n + 1, m) /\ Knows(r) /\ r.at # "copy"
  <2>1. visit[c] \in VisitRow(n, m)
    BY <1>1 DEF BrowserInv, SpaceTyped
  <2>2. 0..n \subseteq 0..(n + 1) /\ n + 1 \in 0..(n + 1) /\ n + 1 # 0
    OBVIOUS
  <2> QED BY <2>1, <2>2 DEF VisitRow, Knows
<1> HIDE DEF r
<1>4. /\ visit' \in [Visitor -> VisitRow(n + 1, m)] /\ VisitsKnow' /\ (Restoring' <=> Restoring)
  <2>1. PICK k \in Nat : k = n + 1
    OBVIOUS
  <2>2. Len(keeps) <= k /\ Len(snapshots) <= m /\ r \in VisitRow(k, m)
    BY <1>1, <1>3, <2>1
  <2> QED BY <1>2, <1>3, <2>1, <2>2, VisitMoves DEF BrowserInv
<1>5. /\ Len(keeps') = n + 1 /\ keeps' \in Seq(SUBSET (1..deeds)) /\ InMemory' = InMemory
  <2>1. {} \in SUBSET (1..deeds) /\ keeps \in Seq(SUBSET (1..deeds))
    BY DEF BrowserInv, SpaceTyped
  <2>2. /\ Len(keeps') = n + 1 /\ keeps' \in Seq(SUBSET (1..deeds))
        /\ keeps'[n + 1] = {} /\ \A b \in DOMAIN keeps : keeps'[b] = keeps[b]
        /\ DOMAIN keeps' = DOMAIN keeps \cup {n + 1}
    BY <1>1, <1>2, <2>1
  <2> QED BY <2>2 DEF InMemory
<1>6. SpaceTyped'
  <2>1. /\ sessions' \in 0..(n + 1) /\ closed' \subseteq 1..(n + 1) /\ displaced' \subseteq 1..(n + 1)
    <3>1. 1..n \subseteq 1..(n + 1) /\ (sessions # 0 => sessions \in 1..n)
      BY <1>1 DEF BrowserInv, SpaceTyped
    <3> QED BY <1>1, <1>2, <3>1 DEF BrowserInv, SpaceTyped
  <2> QED BY <1>1, <1>2, <1>4, <1>5, <2>1 DEF BrowserInv, SpaceTyped
<1>7. NoneIsLost'
  BY <1>1, <1>2, <1>5 DEF BrowserInv, NoneIsLost
<1> QED BY <1>2, <1>4, <1>5, <1>6, <1>7 DEF BrowserInv, SnapshotsHold, DeedsThere

LEMMA PerformKeepsBrowser ==
  ASSUME BrowserInv, NEW c \in Visitor, Perform(c)
  PROVE  BrowserInv'
<1>1. PICK n \in Nat, m \in Nat : n = Len(keeps) /\ m = Len(snapshots)
  BY DEF BrowserInv, SpaceTyped
<1>2. PICK b \in 1..n : b = visit[c].browser
  BY <1>1 DEF BrowserInv, SpaceTyped, VisitsKnow, Knows, VisitRow, Perform
<1>3. PICK r \in {Away, [Away EXCEPT !.at = "navigated"]} :
        /\ visit[c].at = "acting" /\ deeds' = deeds + 1
        /\ keeps' = [keeps EXCEPT ![b] = @ \cup {deeds + 1}]
        /\ visit' = [visit EXCEPT ![c] = r]
        /\ UNCHANGED <<profile, sessions, closed, snapshots, displaced, forfeited>>
  BY <1>2 DEF Perform
<1>4. r \in VisitRow(n, m) /\ Knows(r) /\ r.at # "copy"
  <2>1. PICK at \in {"away", "navigated"} :
          r = [at |-> at, browser |-> 0, first |-> FALSE, snap |-> 0]
    BY DEF Away
  <2>2. 0 \in 0..n /\ 0 \in 0..m
    OBVIOUS
  <2> QED BY <2>1, <2>2 DEF VisitRow, Knows
<1>5. /\ visit' \in [Visitor -> VisitRow(n, m)] /\ VisitsKnow' /\ (Restoring' <=> Restoring)
  <2>1. Len(keeps) <= n /\ Len(snapshots) <= m
    BY <1>1
  <2> QED BY <1>3, <1>4, <2>1, VisitMoves DEF BrowserInv
<1>6. 1..deeds \subseteq 1..deeds' /\ deeds' \in 1..deeds' /\ deeds' \in Nat
      /\ 1..deeds' = 1..deeds \cup {deeds'}
  BY <1>3 DEF BrowserInv, SpaceTyped
<1>7. /\ Len(keeps') = n /\ keeps' \in Seq(SUBSET (1..deeds')) /\ InMemory \cup {deeds'} \subseteq InMemory'
  <2>1. keeps \in Seq(SUBSET (1..deeds')) /\ b \in DOMAIN keeps /\ keeps[b] \cup {deeds'} \subseteq 1..deeds'
    <3>1. SUBSET (1..deeds) \subseteq SUBSET (1..deeds')
      BY <1>6
    <3>2. keeps \in Seq(SUBSET (1..deeds)) /\ b \in DOMAIN keeps /\ keeps[b] \in SUBSET (1..deeds)
      BY <1>1 DEF BrowserInv, SpaceTyped
    <3> HIDE DEF BrowserInv
    <3> QED BY <1>6, <3>1, <3>2
  <2>2. keeps' = [keeps EXCEPT ![b] = keeps[b] \cup {deeds'}]
    BY <1>3
  <2> DEFINE kept == keeps[b] \cup {deeds'}
  <2>3. /\ Len(keeps') = n /\ keeps' \in Seq(SUBSET (1..deeds')) /\ DOMAIN keeps' = DOMAIN keeps
        /\ keeps'[b] = kept /\ \A a \in DOMAIN keeps : a # b => keeps'[a] = keeps[a]
    <3> HIDE DEF kept
    <3> QED BY <1>1, <2>1, <2>2 DEF kept
  <2> QED BY <2>1, <2>3 DEF InMemory
<1>8. snapshots' \in Seq(SnapRow(deeds'))
  <2>1. SnapRow(deeds) \subseteq SnapRow(deeds')
    BY <1>6 DEF SnapRow
  <2> QED BY <1>3, <2>1 DEF BrowserInv, SpaceTyped
<1>9. SpaceTyped'
  BY <1>1, <1>3, <1>5, <1>6, <1>7, <1>8 DEF BrowserInv, SpaceTyped
<1>10. DeedsThere'
  BY <1>3, <1>5, <1>6, <1>7 DEF BrowserInv, DeedsThere
<1> QED BY <1>1, <1>3, <1>5, <1>7, <1>9, <1>10 DEF BrowserInv, NoneIsLost, SnapshotsHold

LEMMA SnapshotKeepsBrowser ==
  ASSUME BrowserInv, NEW c \in Visitor, TakeSnapshot(c)
  PROVE  BrowserInv'
<1>1. PICK n \in Nat, m \in Nat : n = Len(keeps) /\ m = Len(snapshots)
  BY DEF BrowserInv, SpaceTyped
<1>2. PICK s \in Snapshot : snapshots' = Append(snapshots, s)
  BY DEF TakeSnapshot
<1>3. UNCHANGED <<profile, sessions, keeps, closed, deeds, displaced, forfeited>>
  BY DEF TakeSnapshot
<1>4. s \in SnapRow(deeds) /\ s.due \subseteq s.content \cup forfeited
  <2>1. profile \subseteq 1..deeds
    BY DEF BrowserInv, SpaceTyped
  <2>2. CASE s = [there |-> TRUE, content |-> profile,
                  due |-> IF Restoring THEN {} ELSE (1 .. deeds) \ InMemory]
    <3>1. PICK due \in SUBSET (1..deeds) :
            /\ due = IF Restoring THEN {} ELSE (1 .. deeds) \ InMemory
            /\ s = [there |-> TRUE, content |-> profile, due |-> due]
      BY <2>2
    <3>2. due \subseteq profile \cup forfeited
      BY <3>1 DEF BrowserInv, DeedsThere
    <3> QED BY <2>1, <3>1, <3>2 DEF SnapRow
  <2>3. CASE \E part \in SUBSET profile : s = [there |-> TRUE, content |-> part, due |-> {}]
    BY <2>1, <2>3 DEF SnapRow
  <2>4. CASE s = [there |-> FALSE, content |-> {}, due |-> {}]
    BY <2>4 DEF SnapRow
  <2> QED BY <2>2, <2>3, <2>4 DEF Snapshot
<1>5. /\ snapshots' \in Seq(SnapRow(deeds)) /\ Len(snapshots') = m + 1 /\ snapshots'[m + 1] = s
      /\ \A k \in 1..m : snapshots'[k] = snapshots[k]
  <2>1. snapshots \in Seq(SnapRow(deeds))
    BY DEF BrowserInv, SpaceTyped
  <2> QED BY <1>1, <1>2, <1>4, <2>1
<1>6. PICK k \in Nat : k = m + 1
  OBVIOUS
<1>7. PICK r : /\ visit' = [visit EXCEPT ![c] = r] /\ r \in VisitRow(n, k) /\ Knows(r)
               /\ r.at # "copy" /\ visit[c].at # "copy"
  <2>1. visit[c] \in VisitRow(n, m) /\ 0..m \subseteq 0..k /\ k \in 0..k
        /\ visit \in [Visitor -> VisitRow(n, m)]
    BY <1>1, <1>6 DEF BrowserInv, SpaceTyped
  <2>2. CASE visit[c].at = "navigated" /\ visit' = [visit EXCEPT ![c] = Away]
    <3>1. Away \in VisitRow(n, k) /\ Knows(Away) /\ Away.at # "copy"
      BY DEF Away, VisitRow, Knows
    <3> QED BY <2>2, <3>1
  <2>3. CASE visit[c].at = "away"
             /\ visit' = [visit EXCEPT ![c].at = "asking", ![c].snap = Len(snapshots) + 1]
    <3> DEFINE r == [visit[c] EXCEPT !.at = "asking", !.snap = k]
    <3>1. visit' = [visit EXCEPT ![c] = r]
      BY <1>1, <1>6, <2>1, <2>3
    <3>2. r \in VisitRow(n, k) /\ Knows(r) /\ r.at # "copy"
      BY <2>1 DEF VisitRow, Knows
    <3> HIDE DEF r
    <3> QED BY <2>3, <3>1, <3>2
  <2> QED BY <2>2, <2>3 DEF TakeSnapshot
<1>8. /\ visit' \in [Visitor -> VisitRow(n, k)] /\ VisitsKnow' /\ (Restoring' <=> Restoring)
  <2>1. Len(keeps) <= n /\ Len(snapshots) <= k
    BY <1>1, <1>6
  <2> QED BY <1>7, <2>1, VisitMoves DEF BrowserInv
<1>9. SpaceTyped'
  BY <1>1, <1>3, <1>5, <1>6, <1>8 DEF BrowserInv, SpaceTyped
<1>10. SnapshotsHold'
  <2> SUFFICES ASSUME NEW j \in 1..(m + 1) PROVE snapshots'[j].due \subseteq snapshots'[j].content \cup forfeited
    BY <1>3, <1>5 DEF SnapshotsHold
  <2>1. CASE j = m + 1
    BY <1>4, <1>5, <2>1
  <2>2. CASE j # m + 1
    <3>1. j \in 1..m
      BY <2>2
    <3> QED BY <1>1, <1>5, <3>1 DEF BrowserInv, SnapshotsHold
  <2> QED BY <2>1, <2>2
<1> QED BY <1>3, <1>8, <1>9, <1>10 DEF BrowserInv, NoneIsLost, DeedsThere, InMemory

(* What a browser has in memory goes to the profile. *)
LEMMA WritesKeepDeeds ==
  ASSUME BrowserInv, NEW b \in 1..Len(keeps),
         profile' = profile \cup keeps[b], keeps' = [keeps EXCEPT ![b] = {}]
  PROVE  /\ Len(keeps') = Len(keeps) /\ keeps' \in Seq(SUBSET (1..deeds))
         /\ profile' \subseteq 1..deeds /\ profile \subseteq profile'
         /\ InMemory \subseteq InMemory' \cup profile'
<1>1. keeps \in Seq(SUBSET (1..deeds)) /\ {} \in SUBSET (1..deeds) /\ profile \subseteq 1..deeds
  BY DEF BrowserInv, SpaceTyped
<1>2. /\ Len(keeps') = Len(keeps) /\ keeps' \in Seq(SUBSET (1..deeds)) /\ DOMAIN keeps' = DOMAIN keeps
      /\ \A a \in DOMAIN keeps : a # b => keeps'[a] = keeps[a]
  BY <1>1
<1>3. keeps[b] \subseteq 1..deeds
  BY <1>1
<1> QED BY <1>1, <1>2, <1>3 DEF InMemory

LEMMA FlushKeepsBrowser ==
  ASSUME BrowserInv, NEW b \in DOMAIN keeps, Flush(b)
  PROVE  BrowserInv'
<1>1. b \in 1..Len(keeps) /\ Len(keeps) \in Nat
  BY DEF BrowserInv, SpaceTyped
<1>2. profile' = profile \cup keeps[b] /\ keeps' = [keeps EXCEPT ![b] = {}]
      /\ UNCHANGED <<sessions, closed, visit, snapshots, deeds, displaced, forfeited>>
  BY DEF Flush
<1>3. /\ Len(keeps') = Len(keeps) /\ keeps' \in Seq(SUBSET (1..deeds))
      /\ profile' \subseteq 1..deeds /\ profile \subseteq profile'
      /\ InMemory \subseteq InMemory' \cup profile'
  BY <1>1, <1>2, WritesKeepDeeds
<1>4. Restoring' <=> Restoring
  BY <1>2 DEF Restoring
<1> QED BY <1>2, <1>3, <1>4 DEF BrowserInv, SpaceTyped, NoneIsLost, VisitsKnow, Knows, SnapshotsHold, DeedsThere

LEMMA CloseSpaceKeepsBrowser ==
  ASSUME BrowserInv, NEW c \in Visitor, CloseSpace(c)
  PROVE  BrowserInv'
<1>1. PICK n \in Nat, m \in Nat : n = Len(keeps) /\ m = Len(snapshots)
  BY DEF BrowserInv, SpaceTyped
<1> DEFINE at == IF sessions = 0 THEN "clear" ELSE "closing"
           r == [visit[c] EXCEPT !.at = at, !.browser = sessions]
<1>2. /\ visit[c].at = "close" /\ visit' = [visit EXCEPT ![c] = r]
      /\ sessions' = 0 /\ displaced' = displaced \cup ({sessions} \ {0})
      /\ UNCHANGED <<profile, keeps, closed, snapshots, deeds, forfeited>>
  BY DEF CloseSpace, BrowserInv, SpaceTyped
<1>3. r \in VisitRow(n, m) /\ Knows(r) /\ r.at # "copy"
  <2>1. visit[c] \in VisitRow(n, m) /\ sessions \in 0..n
    BY <1>1 DEF BrowserInv, SpaceTyped
  <2>2. at \in {"clear", "closing"} /\ (at = "closing" => sessions # 0)
    OBVIOUS
  <2> HIDE DEF at
  <2> QED BY <2>1, <2>2 DEF VisitRow, Knows
<1> HIDE DEF r
<1>4. /\ visit' \in [Visitor -> VisitRow(n, m)] /\ VisitsKnow' /\ (Restoring' <=> Restoring)
  <2>1. Len(keeps) <= n /\ Len(snapshots) <= m
    BY <1>1
  <2> QED BY <1>2, <1>3, <2>1, VisitMoves DEF BrowserInv
<1>5. SpaceTyped' /\ NoneIsLost'
  <2>1. displaced' \subseteq 1..n
    BY <1>1, <1>2 DEF BrowserInv, SpaceTyped
  <2> QED BY <1>1, <1>2, <1>4, <2>1 DEF BrowserInv, SpaceTyped, NoneIsLost
<1> QED BY <1>2, <1>4, <1>5 DEF BrowserInv, SnapshotsHold, DeedsThere, InMemory

LEMMA CloseEndsKeepsBrowser ==
  ASSUME BrowserInv, NEW c \in Visitor, CloseEnds(c)
  PROVE  BrowserInv'
<1>1. PICK n \in Nat, m \in Nat : n = Len(keeps) /\ m = Len(snapshots)
  BY DEF BrowserInv, SpaceTyped
<1>2. PICK b \in 1..n : b = visit[c].browser
  BY <1>1 DEF BrowserInv, SpaceTyped, VisitsKnow, Knows, VisitRow, CloseEnds
<1> DEFINE r == [visit[c] EXCEPT !.at = "clear", !.browser = 0]
<1>3. /\ visit[c].at = "closing" /\ visit' = [visit EXCEPT ![c] = r]
      /\ UNCHANGED <<sessions, snapshots, deeds, displaced, forfeited>>
  BY DEF CloseEnds, BrowserInv, SpaceTyped
<1>4. \/ closed' = closed \cup {b} /\ profile' = profile \cup keeps[b] /\ keeps' = [keeps EXCEPT ![b] = {}]
      \/ UNCHANGED <<profile, keeps, closed>>
  BY <1>2 DEF CloseEnds
<1>5. r \in VisitRow(n, m) /\ Knows(r) /\ r.at # "copy"
  <2>1. visit[c] \in VisitRow(n, m) /\ 0 \in 0..n
    BY <1>1 DEF BrowserInv, SpaceTyped
  <2> QED BY <2>1 DEF VisitRow, Knows
<1> HIDE DEF r
<1>6. /\ visit' \in [Visitor -> VisitRow(n, m)] /\ VisitsKnow' /\ (Restoring' <=> Restoring)
  <2>1. Len(keeps) <= n /\ Len(snapshots) <= m
    BY <1>1
  <2> QED BY <1>3, <1>5, <2>1, VisitMoves DEF BrowserInv
<1>7. /\ Len(keeps') = Len(keeps) /\ keeps' \in Seq(SUBSET (1..deeds)) /\ closed' \subseteq 1..n
      /\ profile' \subseteq 1..deeds /\ profile \subseteq profile'
      /\ InMemory \subseteq InMemory' \cup profile'
  <2>1. CASE UNCHANGED <<profile, keeps, closed>>
    BY <1>1, <2>1 DEF BrowserInv, SpaceTyped, InMemory
  <2>2. CASE closed' = closed \cup {b} /\ profile' = profile \cup keeps[b] /\ keeps' = [keeps EXCEPT ![b] = {}]
    <3>1. closed' \subseteq 1..n /\ b \in 1..Len(keeps)
      BY <1>1, <2>2 DEF BrowserInv, SpaceTyped
    <3> QED BY <2>2, <3>1, WritesKeepDeeds
  <2> QED BY <1>4, <2>1, <2>2
<1>8. SpaceTyped' /\ NoneIsLost'
  BY <1>1, <1>3, <1>6, <1>7 DEF BrowserInv, SpaceTyped, NoneIsLost
<1> QED BY <1>3, <1>6, <1>7, <1>8 DEF BrowserInv, SnapshotsHold, DeedsThere

LEMMA LapsedIsTyped ==
  ASSUME BrowserInv, NEW k \in 1..Len(snapshots)
  PROVE  /\ Lapsed(k) \subseteq 1..deeds /\ forfeited \subseteq Lapsed(k)
         /\ snapshots[k].content \subseteq 1..deeds
         /\ 1..deeds \subseteq Lapsed(k) \cup snapshots[k].content
<1>1. snapshots[k] \in SnapRow(deeds) /\ forfeited \subseteq 1..deeds
  BY DEF BrowserInv, SpaceTyped
<1>2. snapshots[k].due \subseteq snapshots[k].content \cup forfeited
  BY DEF BrowserInv, SnapshotsHold
<1> QED BY <1>1, <1>2 DEF Lapsed, SnapRow

LEMMA ClearKeepsBrowser ==
  ASSUME BrowserInv, NEW c \in Visitor, ClearProfile(c)
  PROVE  BrowserInv'
<1>1. /\ visit[c].at = "clear" /\ visit[c] \in VisitRow(Len(keeps), Len(snapshots))
      /\ UNCHANGED <<sessions, keeps, closed, snapshots, deeds, displaced>>
      /\ Len(keeps) \in Nat /\ Len(snapshots) \in Nat
      /\ visit \in [Visitor -> VisitRow(Len(keeps), Len(snapshots))]
  BY DEF ClearProfile, BrowserInv, SpaceTyped
<1>2. CASE visit' = [visit EXCEPT ![c] = Away] /\ UNCHANGED <<profile, forfeited>>
  <2>1. Away \in VisitRow(Len(keeps), Len(snapshots)) /\ Knows(Away) /\ Away.at # "copy"
    BY <1>1 DEF Away, VisitRow, Knows
  <2> QED BY <1>1, <1>2, <2>1, VisitKeepsBrowser
<1>3. CASE /\ visit[c].snap # 0 /\ visit' = [visit EXCEPT ![c].at = "copy"]
           /\ profile' \in SUBSET profile /\ forfeited' = Lapsed(visit[c].snap)
  <2>1. PICK n \in Nat, m \in Nat : n = Len(keeps) /\ m = Len(snapshots)
    BY <1>1
  <2> DEFINE r == [visit[c] EXCEPT !.at = "copy"]
  <2>2. visit' = [visit EXCEPT ![c] = r] /\ r \in VisitRow(n, m) /\ Knows(r) /\ r.at = "copy"
    BY <1>1, <1>3, <2>1 DEF VisitRow, Knows
  <2> HIDE DEF r
  <2>3. visit' \in [Visitor -> VisitRow(n, m)] /\ VisitsKnow'
    <3>1. Len(keeps) <= n /\ Len(snapshots) <= m
      BY <2>1
    <3> QED BY <2>2, <3>1, VisitMoves DEF BrowserInv
  <2>4. Restoring'
    BY <1>1, <2>2 DEF Restoring
  <2>5. PICK k \in 1..Len(snapshots) : k = visit[c].snap
    BY <1>1, <1>3 DEF VisitRow
  <2>6. forfeited' \subseteq 1..deeds /\ forfeited \subseteq forfeited'
    BY <1>3, <2>5, LapsedIsTyped
  <2>7. SpaceTyped'
    BY <1>1, <1>3, <2>1, <2>3, <2>6 DEF BrowserInv, SpaceTyped
  <2> QED BY <1>1, <2>3, <2>4, <2>6, <2>7 DEF BrowserInv, NoneIsLost, SnapshotsHold, DeedsThere
<1> QED BY <1>2, <1>3 DEF ClearProfile

LEMMA CopyKeepsBrowser ==
  ASSUME BrowserInv, NEW c \in Visitor, CopySnapshot(c)
  PROVE  BrowserInv'
<1>1. PICK n \in Nat, m \in Nat : n = Len(keeps) /\ m = Len(snapshots)
  BY DEF BrowserInv, SpaceTyped
<1>2. PICK k \in 1..Len(snapshots) : k = visit[c].snap
  <2>1. visit[c].at = "copy" /\ visit[c] \in VisitRow(n, m) /\ Knows(visit[c])
    BY <1>1 DEF CopySnapshot, BrowserInv, SpaceTyped, VisitsKnow
  <2> QED BY <1>1, <2>1 DEF VisitRow, Knows
<1>3. /\ visit' = [visit EXCEPT ![c] = Away]
      /\ UNCHANGED <<sessions, keeps, closed, snapshots, deeds, displaced>>
      /\ \/ /\ \E kept \in SUBSET profile : profile' = kept \cup snapshots[k].content
            /\ forfeited' = Lapsed(k)
         \/ UNCHANGED profile /\ forfeited' = 1 .. deeds
  BY <1>2 DEF CopySnapshot
<1>4. visit' \in [Visitor -> VisitRow(n, m)] /\ VisitsKnow'
  <2>1. Away \in VisitRow(n, m) /\ Knows(Away)
    BY DEF Away, VisitRow, Knows
  <2>2. Len(keeps) <= n /\ Len(snapshots) <= m
    BY <1>1
  <2> QED BY <1>3, <2>1, <2>2, VisitMoves DEF BrowserInv
<1>5. /\ profile' \subseteq 1..deeds /\ forfeited' \subseteq 1..deeds /\ forfeited \subseteq forfeited'
      /\ 1..deeds \subseteq profile' \cup forfeited'
  <2>1. profile \subseteq 1..deeds /\ forfeited \subseteq 1..deeds
    BY DEF BrowserInv, SpaceTyped
  <2>2. /\ Lapsed(k) \subseteq 1..deeds /\ forfeited \subseteq Lapsed(k)
        /\ snapshots[k].content \subseteq 1..deeds
        /\ 1..deeds \subseteq Lapsed(k) \cup snapshots[k].content
    BY LapsedIsTyped
  <2> QED BY <1>3, <2>1, <2>2
<1>6. SpaceTyped'
  BY <1>1, <1>3, <1>4, <1>5 DEF BrowserInv, SpaceTyped
<1>7. SnapshotsHold' /\ DeedsThere' /\ NoneIsLost'
  BY <1>3, <1>5 DEF BrowserInv, SnapshotsHold, DeedsThere, NoneIsLost
<1> QED BY <1>4, <1>6, <1>7 DEF BrowserInv

LEMMA DeathKeepsBrowser ==
  ASSUME BrowserInv, ProgramDies
  PROVE  BrowserInv'
<1>1. /\ visit' = [c \in Visitor |-> Away] /\ sessions' = 0 /\ displaced' = DOMAIN keeps
      /\ forfeited' = IF Restoring THEN 1 .. deeds ELSE forfeited
      /\ UNCHANGED <<profile, keeps, closed, snapshots, deeds>>
  BY DEF ProgramDies
<1>2. visit' \in [Visitor -> VisitRow(Len(keeps), Len(snapshots))] /\ VisitsKnow' /\ ~Restoring'
  <2>1. Away \in VisitRow(Len(keeps), Len(snapshots)) /\ Knows(Away) /\ Away.at # "copy"
    <3>1. Len(keeps) \in Nat /\ Len(snapshots) \in Nat
      BY DEF BrowserInv, SpaceTyped
    <3> QED BY <3>1 DEF Away, VisitRow, Knows
  <2> QED BY <1>1, <2>1 DEF VisitsKnow, Restoring
<1>3. forfeited' \subseteq 1..deeds /\ forfeited \subseteq forfeited' /\ (Restoring => forfeited' = 1..deeds)
  BY <1>1 DEF BrowserInv, SpaceTyped
<1>4. SpaceTyped' /\ NoneIsLost'
  BY <1>1, <1>2, <1>3 DEF BrowserInv, SpaceTyped, NoneIsLost
<1>5. DeedsThere'
  BY <1>1, <1>3 DEF BrowserInv, DeedsThere, InMemory
<1>6. SnapshotsHold'
  BY <1>1, <1>3 DEF BrowserInv, SnapshotsHold
<1> QED BY <1>2, <1>4, <1>5, <1>6 DEF BrowserInv

(* What was done in a space is kept, for any number of runs that share it, *)
(* whenever its Chrome writes, is closed, or dies with the program.        *)
THEOREM DeedsAreNotLost == BrowserSpec => [](BrowserTypeOK /\ DeedsAreKept)
<1>1. BrowserInv /\ [BrowserNext]_browserVars => BrowserInv'
  <2> SUFFICES ASSUME BrowserInv, [BrowserNext]_browserVars PROVE BrowserInv'
    OBVIOUS
  <2>1. CASE UNCHANGED browserVars
    BY <2>1 DEF browserVars, BrowserInv, SpaceTyped, NoneIsLost, VisitsKnow, Knows, SnapshotsHold,
         DeedsThere, Restoring, InMemory
  <2>2. CASE BrowserNext
    BY <2>2, CallKeepsBrowser, LaunchKeepsBrowser, PerformKeepsBrowser, SnapshotKeepsBrowser,
       CloseSpaceKeepsBrowser, CloseEndsKeepsBrowser, ClearKeepsBrowser, CopyKeepsBrowser,
       FlushKeepsBrowser, DeathKeepsBrowser DEF BrowserNext
  <2> QED BY <2>1, <2>2
<1> QED BY <1>1, BrowserInitInv, BrowserFollows, PTL DEF BrowserSpec

---------------------------------------------------------------------------
(* Review.  What the policies answer is a function of the call, so that it *)
(* is settled for every manifest and every table of rows at once.          *)
LEMMA DecidedByCase ==
  ASSUME NEW d \in BOOLEAN, NEW a \in BOOLEAN, NEW y \in BOOLEAN, NEW z,
         ~(d /\ y), ~(a /\ y),
         z = CASE d -> "Deny" [] ~d /\ a -> "Ask" [] y -> "Allow" [] OTHER -> "Ask"
  PROVE  /\ z = "Deny" <=> d
         /\ z = "Allow" <=> ~d /\ ~a /\ y
         /\ z \in Outcome
<1>1. CASE d
  <2>1. z = "Deny"
    BY <1>1
  <2> QED BY <1>1, <2>1 DEF Outcome
<1>2. CASE ~d /\ a
  <2>1. z = "Ask"
    BY <1>2
  <2> QED BY <1>2, <2>1 DEF Outcome
<1>3. CASE ~d /\ ~a /\ y
  <2>1. z = "Allow"
    BY <1>3
  <2> QED BY <1>3, <2>1 DEF Outcome
<1>4. CASE ~d /\ ~a /\ ~y
  <2>1. z = "Ask"
    BY <1>4
  <2> QED BY <1>4, <2>1 DEF Outcome
<1> QED BY <1>1, <1>2, <1>3, <1>4

(* The answer for one capability. *)
LEMMA DecidedByLayers ==
  ASSUME NEW layers \in [Layer -> LayerValue]
  PROVE  /\ EvaluateCapability(layers) = "Deny" <=> \E l \in Layer : layers[l] = "Deny"
         /\ EvaluateCapability(layers) = "Allow" =>
              /\ \E l \in Layer : layers[l] = "Allow"
              /\ \A l \in Layer : layers[l] # "Ask"
         /\ EvaluateCapability(layers) \in Outcome
<1> DEFINE values == {layers[l] : l \in Layer}
           d == "Deny" \in values
           a == "Ask" \in values
           y == values \intersect Outcome = {"Allow"}
<1>1. EvaluateCapability(layers) =
        CASE d -> "Deny" [] ~d /\ a -> "Ask" [] y -> "Allow" [] OTHER -> "Ask"
  BY DEF EvaluateCapability
<1>2. ~(d /\ y) /\ ~(a /\ y)
  BY DEF Outcome
<1>3. y => \E l \in Layer : layers[l] = "Allow"
  OBVIOUS
<1>4. /\ d <=> \E l \in Layer : layers[l] = "Deny"
      /\ ~a => \A l \in Layer : layers[l] # "Ask"
  OBVIOUS
<1>5. d \in BOOLEAN /\ a \in BOOLEAN /\ y \in BOOLEAN
  OBVIOUS
<1> HIDE DEF values, d, a, y
<1> QED BY <1>1, <1>2, <1>3, <1>4, <1>5, DecidedByCase

(* What goes ahead by the policies: each capability is allowed, and the    *)
(* call is a read or of low risk.                                          *)
Harmless(t) ==
  \/ t.effect = "ReadOnly"
  \/ t.risk \in {"Safe", "Low"} /\ t.effect \in {"IdempotentMutation", "NonIdempotentMutation"}

LEMMA DecidedByPolicy ==
  ASSUME NEW t \in ToolCall
  PROVE  /\ Evaluate(t) = "Deny" <=>
              ~t.known \/ \E c \in t.caps : EvaluateCapability(t.policy[c]) = "Deny"
         /\ Evaluate(t) = "Allow" <=>
              /\ t.known /\ Harmless(t)
              /\ \A c \in t.caps : EvaluateCapability(t.policy[c]) = "Allow"
         /\ Evaluate(t) \in Outcome
<1> DEFINE outcomes == {EvaluateCapability(t.policy[c]) : c \in t.caps}
           d == ~t.known \/ "Deny" \in outcomes
           a == "Ask" \in outcomes
           y == outcomes \subseteq {"Allow"} /\ Harmless(t)
<1>1. outcomes \subseteq Outcome
  <2> SUFFICES ASSUME NEW c \in t.caps PROVE EvaluateCapability(t.policy[c]) \in Outcome
    OBVIOUS
  <2>1. t.policy[c] \in [Layer -> LayerValue]
    BY DEF ToolCall
  <2> QED BY <2>1, DecidedByLayers
<1>2. Evaluate(t) =
        CASE d -> "Deny"
          [] t.known /\ "Deny" \notin outcomes /\ a -> "Ask"
          [] t.known /\ outcomes \subseteq {"Allow"} /\ t.effect = "ReadOnly" -> "Allow"
          [] t.known /\ outcomes \subseteq {"Allow"} /\ t.risk \in {"Safe", "Low"}
               /\ t.effect \in {"IdempotentMutation", "NonIdempotentMutation"} -> "Allow"
          [] OTHER -> "Ask"
  BY DEF Evaluate
<1>3. t.known \in BOOLEAN
  BY DEF ToolCall
<1>4. /\ "Deny" \in outcomes <=> \E c \in t.caps : EvaluateCapability(t.policy[c]) = "Deny"
      /\ (t.known /\ ~d /\ ~a => outcomes \subseteq {"Allow"})
      /\ (outcomes \subseteq {"Allow"} => "Deny" \notin outcomes /\ ~a)
      /\ outcomes \subseteq {"Allow"} <=>
           \A c \in t.caps : EvaluateCapability(t.policy[c]) = "Allow"
  BY <1>1 DEF Outcome
<1> HIDE DEF outcomes
<1>5. CASE d
  BY <1>2, <1>4, <1>5 DEF Outcome
<1>6. CASE ~d /\ a
  BY <1>2, <1>4, <1>6 DEF Outcome
<1>7. CASE ~d /\ ~a
  <2>1. t.known /\ outcomes \subseteq {"Allow"} /\ "Deny" \notin outcomes
    BY <1>3, <1>4, <1>7
  <2>2. CASE Harmless(t)
    <3>1. Evaluate(t) = "Allow"
      BY <1>2, <1>7, <2>1, <2>2 DEF Harmless
    <3> QED BY <3>1, <2>1, <2>2, <1>4, <1>7 DEF Outcome
  <2>3. CASE ~Harmless(t)
    <3>1. Evaluate(t) = "Ask"
      BY <1>2, <1>7, <2>1, <2>3 DEF Harmless
    <3> QED BY <3>1, <2>1, <2>3, <1>4, <1>7 DEF Outcome
  <2> QED BY <2>2, <2>3
<1> QED BY <1>5, <1>6, <1>7

(* A row that asks or denies, where there was none or one no stricter, does *)
(* not make the answer for its capability more permissive.                 *)
LEMMA StricterLayer ==
  ASSUME NEW layers \in [Layer -> LayerValue], NEW l \in Layer, NEW o \in {"Ask", "Deny"},
         Strictness(layers[l]) <= Strictness(o)
  PROVE  LET after == EvaluateCapability([layers EXCEPT ![l] = o])
         IN /\ after # "Allow"
            /\ EvaluateCapability(layers) = "Deny" => after = "Deny"
<1> DEFINE new == [layers EXCEPT ![l] = o]
<1>1. new \in [Layer -> LayerValue] /\ new[l] = o /\ \A k \in Layer \ {l} : new[k] = layers[k]
  BY DEF LayerValue, Outcome
<1>2. EvaluateCapability(new) # "Allow"
  BY <1>1, DecidedByLayers
<1>3. ASSUME NEW k \in Layer, layers[k] = "Deny" PROVE new[k] = "Deny"
  <2>1. Strictness("Deny") = 2 /\ Strictness("Ask") = 1
    BY DEF Strictness
  <2>2. layers[l] = "Deny" => o = "Deny"
    BY <2>1
  <2> QED BY <1>1, <1>3, <2>2
<1> HIDE DEF new
<1>4. EvaluateCapability(layers) = "Deny" => EvaluateCapability(new) = "Deny"
  BY <1>1, <1>3, DecidedByLayers
<1> QED BY <1>2, <1>4 DEF new

LEMMA StricterPolicy ==
  ASSUME NEW t \in ToolCall, NEW c \in ToolCapability, NEW l \in Layer,
         NEW o \in {"Ask", "Deny"}, Strictness(t.policy[c][l]) <= Strictness(o)
  PROVE  LET stricter == [t EXCEPT !.policy[c][l] = o]
         IN Strictness(Evaluate(t)) <= Strictness(Evaluate(stricter))
<1> DEFINE u == [t EXCEPT !.policy[c][l] = o]
           row == [t.policy[c] EXCEPT ![l] = o]
<1>1. t.policy \in [ToolCapability -> [Layer -> LayerValue]]
  BY DEF ToolCall
<1>2. t.policy[c] \in [Layer -> LayerValue]
  BY <1>1
<1>3. row \in [Layer -> LayerValue]
  BY <1>2 DEF LayerValue, Outcome
<1>4. /\ EvaluateCapability(row) # "Allow"
      /\ EvaluateCapability(t.policy[c]) = "Deny" => EvaluateCapability(row) = "Deny"
  BY <1>2, StricterLayer
<1>5. u.policy = [t.policy EXCEPT ![c] = row]
  BY DEF ToolCall
<1>6. /\ u \in ToolCall
      /\ u.known = t.known /\ u.caps = t.caps /\ u.effect = t.effect /\ u.risk = t.risk
  BY <1>1, <1>3, <1>5 DEF ToolCall
<1>7. ASSUME NEW k \in t.caps
      PROVE  /\ EvaluateCapability(u.policy[k]) = "Allow" =>
                  EvaluateCapability(t.policy[k]) = "Allow"
             /\ EvaluateCapability(t.policy[k]) = "Deny" =>
                  EvaluateCapability(u.policy[k]) = "Deny"
  <2>1. k \in ToolCapability
    BY DEF ToolCall
  <2>2. CASE k = c
    <3>1. u.policy[k] = row
      BY <1>1, <1>5, <2>1, <2>2
    <3> QED BY <1>4, <2>2, <3>1
  <2>3. CASE k # c
    <3>1. u.policy[k] = t.policy[k]
      BY <1>1, <1>5, <2>1, <2>3
    <3> QED BY <3>1
  <2> QED BY <2>2, <2>3
<1> HIDE DEF u, row
<1>8. Evaluate(u) = "Allow" => Evaluate(t) = "Allow"
  BY <1>6, <1>7, DecidedByPolicy DEF Harmless
<1>9. Evaluate(t) = "Deny" => Evaluate(u) = "Deny"
  BY <1>6, <1>7, DecidedByPolicy
<1>10. Evaluate(t) \in Outcome /\ Evaluate(u) \in Outcome
  BY <1>6, DecidedByPolicy
<1>11. Strictness("Allow") = 0 /\ Strictness("Ask") = 1 /\ Strictness("Deny") = 2
  BY DEF Strictness
<1>12. Strictness(Evaluate(t)) <= Strictness(Evaluate(u))
  BY <1>8, <1>9, <1>10, <1>11 DEF Outcome
<1> QED BY <1>12 DEF u

(* Whatever the manifest, the rows of the layers and the capability: a     *)
(* denial wins, a question is never answered without a person, only what   *)
(* is allowed and harmless goes ahead, and a stricter row never loosens.   *)
THEOREM ThePolicyIsStrict == ReviewSpec => []PolicyIsStrict
<1> DEFINE Asked == tool \in ToolCall
<1>1. ReviewInit => Asked
  BY DEF ReviewInit, NoTool, ToolCall, Effect, Risk, Kind, LayerValue
<1>2. Asked /\ [ReviewNext]_reviewVars => Asked'
  BY DEF ReviewNext, AskTool, AskEdit, reviewVars
<1>3. Asked => PolicyIsStrict
  <2> SUFFICES ASSUME tool \in ToolCall PROVE PolicyIsStrict
    OBVIOUS
  <2>1. ASSUME NEW c \in tool.caps
        PROVE  c \in ToolCapability /\ tool.policy[c] \in [Layer -> LayerValue]
    BY DEF ToolCall
  <2>2. LayerSays(tool, "Deny") => Evaluate(tool) = "Deny"
    BY <2>1, DecidedByLayers, DecidedByPolicy DEF LayerSays
  <2>3. LayerSays(tool, "Ask") => Evaluate(tool) # "Allow"
    BY <2>1, DecidedByLayers, DecidedByPolicy DEF LayerSays
  <2>4. Evaluate(tool) = "Allow" =>
          /\ \A c \in tool.caps : \E l \in Layer : tool.policy[c][l] = "Allow"
          /\ tool.known /\ (tool.effect = "ReadOnly" \/ tool.risk \in {"Safe", "Low"})
    BY <2>1, DecidedByLayers, DecidedByPolicy DEF Harmless
  <2>5. \A c \in ToolCapability, l \in Layer, o \in {"Ask", "Deny"} :
          Strictness(tool.policy[c][l]) <= Strictness(o) =>
            LET stricter == [tool EXCEPT !.policy[c][l] = o]
            IN Strictness(Evaluate(tool)) <= Strictness(Evaluate(stricter))
    BY StricterPolicy
  <2> QED BY <2>2, <2>3, <2>4, <2>5 DEF PolicyIsStrict
<1> HIDE DEF Asked
<1> QED BY <1>1, <1>2, <1>3, PTL DEF ReviewSpec

---------------------------------------------------------------------------
(*************************************************************************)
(* The hunk of a proposed change, for files of any length.  The table and  *)
(* the walk are recursive functions of a cell of two line numbers; a cell  *)
(* depends on cells of a smaller sum, which gives their existence and the  *)
(* induction.  The table holds at each cell the most lines that the files  *)
(* up to there have in common, and the walk up to a cell makes the two     *)
(* files up to there with as few changed lines as the table allows.        *)
(*************************************************************************)

LEMMA MaxOfTwo ==
  ASSUME NEW a \in Int, NEW b \in Int
  PROVE  Max({a, b}) = IF a >= b THEN a ELSE b
<1> DEFINE c == IF a >= b THEN a ELSE b
<1>1. c \in {a, b} /\ \A y \in {a, b} : c >= y
  OBVIOUS
<1>2. \A x \in {a, b} : (\A y \in {a, b} : x >= y) => x = c
  OBVIOUS
<1> HIDE DEF c
<1>3. Max({a, b}) \in {a, b} /\ \A y \in {a, b} : Max({a, b}) >= y
  BY <1>1 DEF Max
<1> QED BY <1>2, <1>3 DEF c

(* A choice of three, by cases that exclude each other. *)
LEMMA ThreeCases ==
  ASSUME NEW p \in BOOLEAN, NEW q \in BOOLEAN, ~(p /\ q), NEW a, NEW b, NEW c, NEW v,
         v = CASE p -> a [] q -> b [] OTHER -> c
  PROVE  /\ p => v = a
         /\ q => v = b
         /\ ~p /\ ~q => v = c
<1>1. CASE p
  BY <1>1
<1>2. CASE q
  BY <1>2
<1>3. CASE ~p /\ ~q
  BY <1>3
<1> QED BY <1>1, <1>2, <1>3

Same(old, new, i, j) == i > 0 /\ j > 0 /\ old[i] = new[j]

(* What the table of common lengths is: a number for each cell. *)
IsTable(dp, old, new) ==
  /\ dp \in [(0..Len(old)) \X (0..Len(new)) -> Nat]
  /\ \A i \in 0..Len(old), j \in 0..Len(new) :
       /\ i = 0 \/ j = 0 => dp[<<i, j>>] = 0
       /\ Same(old, new, i, j) => dp[<<i, j>>] = dp[<<i-1, j-1>>] + 1
       /\ i > 0 /\ j > 0 /\ ~Same(old, new, i, j) =>
            dp[<<i, j>>] = IF dp[<<i-1, j>>] >= dp[<<i, j-1>>] THEN dp[<<i-1, j>>]
                           ELSE dp[<<i, j-1>>]

LEMMA TableOfLengths ==
  ASSUME NEW old \in Seq(TextLine), NEW new \in Seq(TextLine)
  PROVE  IsTable(CommonLength(old, new), old, new)
<1> DEFINE m == Len(old)
           n == Len(new)
           D == (0..m) \X (0..n)
           Rec(dp) == [c \in D |->
             LET i == c[1]
                 j == c[2]
             IN CASE i = 0 \/ j = 0 -> 0
                  [] i > 0 /\ j > 0 /\ old[i] = new[j] -> dp[<<i - 1, j - 1>>] + 1
                  [] OTHER -> Max({dp[<<i - 1, j>>], dp[<<i, j - 1>>]})]
           table == CHOOSE dp : dp = Rec(dp)
           Case(dp, i, j) == CASE i = 0 \/ j = 0 -> 0
             [] i > 0 /\ j > 0 /\ old[i] = new[j] -> dp[<<i - 1, j - 1>>] + 1
             [] OTHER -> Max({dp[<<i - 1, j>>], dp[<<i, j - 1>>]})
           Entry(i, j, x, y, z) == IF i = 0 \/ j = 0 THEN 0
                                   ELSE IF old[i] = new[j] THEN x + 1 ELSE Max({y, z})
           rule == [q \in (0..m) \X (0..n) \X Nat \X Nat \X Nat |->
                      Entry(q[1], q[2], q[3], q[4], q[5])]
<1>1. m \in Nat /\ n \in Nat
  OBVIOUS
<1> HIDE DEF m, n
<1>2. ASSUME NEW i \in 0..m, NEW j \in 0..n, NEW x \in Nat, NEW y \in Nat, NEW z \in Nat
      PROVE  Entry(i, j, x, y, z) \in Nat
  <2>1. Max({y, z}) \in Nat
    BY MaxOfTwo
  <2> QED BY <2>1
<1>3. rule \in [(0..m) \X (0..n) \X Nat \X Nat \X Nat -> Nat]
  <2> HIDE DEF Entry
  <2> QED BY <1>2
<1>4. PICK g \in [D -> Nat] :
        \A i \in 0..m, j \in 0..n : CellFollows(g, m, n, 0, rule, i, j)
  <2> HIDE DEF rule
  <2>1. PICK V : V = Nat
    OBVIOUS
  <2>2. 0 \in V /\ rule \in [(0..m) \X (0..n) \X V \X V \X V -> V]
    BY <1>3, <2>1
  <2>3. \E g \in [(0..m) \X (0..n) -> V] :
           \A i \in 0..m, j \in 0..n : CellFollows(g, m, n, 0, rule, i, j)
    BY <1>1, <2>2, TableExists
  <2> QED BY <2>1, <2>3
<1>5. ASSUME NEW i \in 0..m, NEW j \in 0..n
      PROVE  g[<<i, j>>] = Case(g, i, j)
  <2> DEFINE x == CellAt(g, m, n, 0, i-1, j-1)
             y == CellAt(g, m, n, 0, i-1, j)
             z == CellAt(g, m, n, 0, i, j-1)
  <2>1. x \in Nat /\ y \in Nat /\ z \in Nat
    BY DEF CellAt
  <2>2. g[<<i, j>>] = rule[<<i, j, x, y, z>>]
    BY <1>4 DEF CellFollows
  <2> HIDE DEF x, y, z
  <2>3. g[<<i, j>>] = Entry(i, j, x, y, z)
    <3> HIDE DEF Entry
    <3> QED BY <2>1, <2>2
  <2>4. CASE i = 0 \/ j = 0
    BY <2>3, <2>4
  <2>5. CASE i > 0 /\ j > 0
    <3>1. x = g[<<i - 1, j - 1>>] /\ y = g[<<i - 1, j>>] /\ z = g[<<i, j - 1>>]
      <4>1. i - 1 \in 0..m /\ j - 1 \in 0..n
        BY <1>1, <2>5
      <4> QED BY <4>1 DEF x, y, z, CellAt
    <3> QED BY <2>3, <2>5, <3>1
  <2> QED BY <2>4, <2>5
<1>50. ASSUME NEW dp, NEW i \in 0..m, NEW j \in 0..n
       PROVE  Rec(dp)[<<i, j>>] = Case(dp, i, j)
  <2>1. <<i, j>> \in D /\ <<i, j>>[1] = i /\ <<i, j>>[2] = j
    OBVIOUS
  <2> QED BY <2>1
<1>6. g = Rec(g)
  <2>1. g = [c \in D |-> g[c]]
    OBVIOUS
  <2>2. ASSUME NEW c \in D PROVE g[c] = Rec(g)[c]
    <3>1. PICK i \in 0..m, j \in 0..n : c = <<i, j>>
      OBVIOUS
    <3> HIDE DEF Rec, Case
    <3> QED BY <1>5, <1>50, <3>1
  <2> HIDE DEF Rec
  <2>3. Rec(g) = [c \in D |-> Rec(g)[c]]
    BY DEF Rec
  <2> QED BY <2>1, <2>2, <2>3
<1>7. table = Rec(table)
  <2> HIDE DEF Rec
  <2> QED BY <1>6
<1> HIDE DEF table, Rec
<1>8. ASSUME NEW i \in 0..m, NEW j \in 0..n
       PROVE  /\ i = 0 \/ j = 0 => table[<<i, j>>] = 0
              /\ Same(old, new, i, j) => table[<<i, j>>] = table[<<i - 1, j - 1>>] + 1
              /\ i > 0 /\ j > 0 /\ ~Same(old, new, i, j) =>
                    table[<<i, j>>] = Max({table[<<i - 1, j>>], table[<<i, j - 1>>]})
  <2> DEFINE none == i = 0 \/ j = 0
             same == i > 0 /\ j > 0 /\ old[i] = new[j]
             least == 0
             one == table[<<i - 1, j - 1>>] + 1
             most == Max({table[<<i - 1, j>>], table[<<i, j - 1>>]})
             v == table[<<i, j>>]
  <2>1. v = CASE none -> least [] same -> one [] OTHER -> most
    <3>1. v = Case(table, i, j)
      <4> HIDE DEF Case
      <4> QED BY <1>50, <1>7
    <3> QED BY <3>1
  <2>2. ~(none /\ same)
    BY <1>1
  <2>3. none \in BOOLEAN /\ same \in BOOLEAN
    OBVIOUS
  <2>4. i > 0 /\ j > 0 => ~none
    OBVIOUS
  <2>5. same <=> Same(old, new, i, j)
    BY DEF Same
  <2> HIDE DEF none, same, least, one, most, v
  <2>6. /\ none => v = least
        /\ same => v = one
        /\ ~none /\ ~same => v = most
    BY <2>1, <2>2, <2>3, ThreeCases
  <2>7. /\ none => v = least
        /\ Same(old, new, i, j) => v = one
        /\ i > 0 /\ j > 0 /\ ~Same(old, new, i, j) => v = most
    BY <2>4, <2>5, <2>6
  <2> QED BY <2>7 DEF none, least, one, most, v
<1> DEFINE S == {c \in D : table[c] \in Nat}
<1>9. \A i \in 0..m, j \in 0..n : <<i, j>> \in S
  <2> SUFFICES ASSUME NEW i \in 0..m, NEW j \in 0..n,
                      \A k \in 0..m, l \in 0..n : k + l < i + j => <<k, l>> \in S
               PROVE  <<i, j>> \in S
    <3> HIDE DEF S
    <3> QED BY <1>1, CellInduction
  <2> HIDE DEF table
  <2>1. ASSUME NEW k \in 0..m, NEW l \in 0..n, k + l < i + j PROVE table[<<k, l>>] \in Nat
    BY <2>1
  <2>2. CASE i = 0 \/ j = 0
    <3>1. table[<<i, j>>] = 0
      BY <1>8, <2>2
    <3> QED BY <3>1
  <2>3. CASE i > 0 /\ j > 0
    <3>1. i - 1 \in 0..m /\ j - 1 \in 0..n /\ (i - 1) + (j - 1) < i + j
          /\ (i - 1) + j < i + j /\ i + (j - 1) < i + j
      BY <1>1, <2>3
    <3>2. table[<<i - 1, j - 1>>] \in Nat /\ table[<<i - 1, j>>] \in Nat
          /\ table[<<i, j - 1>>] \in Nat
      BY <2>1, <3>1
    <3>3. Max({table[<<i - 1, j>>], table[<<i, j - 1>>]}) \in Nat
      <4> DEFINE y == table[<<i - 1, j>>]
                 z == table[<<i, j - 1>>]
      <4>1. y \in Nat /\ z \in Nat /\ y \in Int /\ z \in Int
        BY <3>2
      <4> HIDE DEF y, z
      <4>2. Max({y, z}) = IF y >= z THEN y ELSE z
        BY <4>1, MaxOfTwo
      <4>3. Max({y, z}) \in Nat
        BY <4>1, <4>2
      <4> QED BY <4>3 DEF y, z
    <3>4. table[<<i, j>>] \in Nat
      <4>1. CASE Same(old, new, i, j)
        <5>1. table[<<i, j>>] = table[<<i - 1, j - 1>>] + 1
          BY <1>8, <4>1
        <5> QED BY <3>2, <5>1
      <4>2. CASE ~Same(old, new, i, j)
        <5>1. table[<<i, j>>] = Max({table[<<i - 1, j>>], table[<<i, j - 1>>]})
          BY <1>8, <2>3, <4>2
        <5> QED BY <3>3, <5>1
      <4> QED BY <4>1, <4>2
    <3> QED BY <3>4
  <2> QED BY <2>2, <2>3
<1>10. table \in [D -> Nat]
  <2>1. table = [c \in D |-> table[c]]
    <3>1. Rec(table) = [c \in D |-> Rec(table)[c]]
      BY DEF Rec
    <3> QED BY <1>7, <3>1
  <2>2. \A c \in D : table[c] \in Nat
    <3>1. ASSUME NEW c \in D PROVE c \in S
      <4>1. c[1] \in 0..m /\ c[2] \in 0..n /\ c = <<c[1], c[2]>>
        OBVIOUS
      <4> HIDE DEF S
      <4> QED BY <1>9, <4>1
    <3> HIDE DEF table
    <3> QED BY <3>1
  <2> HIDE DEF table
  <2> QED BY <2>1, <2>2
<1>11. CommonLength(old, new) = table
  BY DEF CommonLength, m, n, table, Rec
<1> HIDE DEF table
<1>12. ASSUME NEW i \in 0..m, NEW j \in 0..n, i > 0, j > 0
       PROVE  Max({table[<<i - 1, j>>], table[<<i, j - 1>>]})
                = IF table[<<i - 1, j>>] >= table[<<i, j - 1>>] THEN table[<<i - 1, j>>]
                  ELSE table[<<i, j - 1>>]
  <2>1. table[<<i - 1, j>>] \in Int /\ table[<<i, j - 1>>] \in Int
    <3>1. i - 1 \in 0..m /\ j - 1 \in 0..n
      BY <1>1, <1>12
    <3>2. table[<<i - 1, j>>] \in Nat /\ table[<<i, j - 1>>] \in Nat
      BY <1>10, <3>1
    <3> QED BY <3>2
  <2> QED BY <2>1, MaxOfTwo
<1>13. IsTable(table, old, new)
  <2>1. \A i \in 0..m, j \in 0..n :
          /\ i = 0 \/ j = 0 => table[<<i, j>>] = 0
          /\ Same(old, new, i, j) => table[<<i, j>>] = table[<<i-1, j-1>>] + 1
          /\ i > 0 /\ j > 0 /\ ~Same(old, new, i, j) =>
               table[<<i, j>>] = IF table[<<i-1, j>>] >= table[<<i, j-1>>]
                                 THEN table[<<i-1, j>>] ELSE table[<<i, j-1>>]
    BY <1>8, <1>12 DEF Same
  <2> QED BY <1>10, <2>1 DEF IsTable, m, n
<1> QED BY <1>11, <1>13

-----------------------------------------------------------------------------
Agrees(old, new, M) ==
  /\ \A p \in M : old[p[1]] = new[p[2]]
  /\ \A p, q \in M : p[1] < q[1] <=> p[2] < q[2]

(* What the files up to the lines i and j have in common. *)
PartsTo(old, new, i, j) == {M \in SUBSET ((1..i) \X (1..j)) : Agrees(old, new, M)}

LEMMA PartIsFinite ==
  ASSUME NEW old, NEW new, NEW i \in Nat, NEW j \in Nat, NEW M \in PartsTo(old, new, i, j)
  PROVE  IsFiniteSet(M) /\ Cardinality(M) \in Nat
<1>1. IsFiniteSet(1..i) /\ IsFiniteSet(1..j)
  BY FS_Interval
<1>2. IsFiniteSet((1..i) \X (1..j))
  BY <1>1, FS_Product
<1>3. M \subseteq (1..i) \X (1..j)
  BY DEF PartsTo
<1>4. IsFiniteSet(M)
  BY <1>2, <1>3, FS_Subset
<1> QED BY <1>4, FS_CardinalityType

(* A part without its last pair ends before both lines. *)
LEMMA PartLoses ==
  ASSUME NEW old, NEW new, NEW i \in Nat, NEW j \in Nat, i > 0, j > 0,
         NEW M \in PartsTo(old, new, i, j)
  PROVE  \E p : M \ {p} \in PartsTo(old, new, i-1, j-1)
<1>1. M \subseteq (1..i) \X (1..j) /\ Agrees(old, new, M)
  BY DEF PartsTo
<1>2. \A q \in M : q[1] \in 1..i /\ q[2] \in 1..j /\ q = <<q[1], q[2]>>
  BY <1>1
<1>3. ASSUME NEW p, \A q \in M \ {p} : q[1] # i /\ q[2] # j
      PROVE  M \ {p} \in PartsTo(old, new, i-1, j-1)
  <2>1. ASSUME NEW q \in M \ {p} PROVE q \in (1..i-1) \X (1..j-1)
    <3>1. q[1] # i /\ q[2] # j /\ q[1] \in 1..i /\ q[2] \in 1..j /\ q = <<q[1], q[2]>>
      BY <1>2, <1>3
    <3>2. q[1] \in 1..i-1 /\ q[2] \in 1..j-1
      BY <3>1
    <3> QED BY <3>1, <3>2
  <2>2. Agrees(old, new, M \ {p})
    BY <1>1 DEF Agrees
  <2> QED BY <2>1, <2>2 DEF PartsTo
<1>4. ASSUME NEW p \in M, p[1] = i \/ p[2] = j, NEW q \in M \ {p}
      PROVE  q[1] # i /\ q[2] # j
  <2>1. /\ p[1] \in 1..i /\ p[2] \in 1..j /\ p = <<p[1], p[2]>>
        /\ q[1] \in 1..i /\ q[2] \in 1..j /\ q = <<q[1], q[2]>>
    BY <1>2
  <2>2. (p[1] < q[1] <=> p[2] < q[2]) /\ (q[1] < p[1] <=> q[2] < p[2])
    BY <1>1 DEF Agrees
  <2>3. ~(p[1] = q[1] /\ p[2] = q[2])
    BY <2>1
  <2>4. ~(p[1] < q[1])
    <3>1. CASE p[1] = i
      BY <2>1, <3>1
    <3>2. CASE p[2] = j
      BY <2>1, <2>2, <3>2
    <3> QED BY <1>4, <3>1, <3>2
  <2>5. ~(p[2] < q[2])
    BY <2>2, <2>4
  <2>6. q[1] < p[1] /\ q[2] < p[2]
    BY <2>1, <2>2, <2>3, <2>4, <2>5
  <2> QED BY <2>1, <2>6
<1>5. CASE \E p \in M : p[1] = i \/ p[2] = j
  BY <1>3, <1>4, <1>5
<1>6. CASE \A p \in M : p[1] # i /\ p[2] # j
  <2>1. \A q \in M \ {0} : q[1] # i /\ q[2] # j
    BY <1>6
  <2> QED BY <1>3, <2>1
<1> QED BY <1>5, <1>6

(* A part without the pair of both lines does without one of the lines.    *)
LEMMA PartAvoids ==
  ASSUME NEW old, NEW new, NEW i \in Nat, NEW j \in Nat, i > 0, j > 0,
         NEW M \in PartsTo(old, new, i, j), old[i] # new[j]
  PROVE  M \in PartsTo(old, new, i-1, j) \/ M \in PartsTo(old, new, i, j-1)
<1>1. M \subseteq (1..i) \X (1..j) /\ Agrees(old, new, M)
  BY DEF PartsTo
<1>2. \A q \in M : q[1] \in 1..i /\ q[2] \in 1..j /\ q = <<q[1], q[2]>>
  BY <1>1
<1>3. CASE \A q \in M : q[1] # i
  <2>1. ASSUME NEW q \in M PROVE q \in (1..i-1) \X (1..j)
    <3>1. q[1] \in 1..i-1 /\ q[2] \in 1..j /\ q = <<q[1], q[2]>>
      <4>1. q[1] \in 1..i /\ q[1] # i
        BY <1>2, <1>3
      <4> QED BY <1>2, <4>1
    <3> QED BY <3>1
  <2> QED BY <1>1, <2>1 DEF PartsTo
<1>4. CASE \E p \in M : p[1] = i
  <2>1. PICK p \in M : p[1] = i
    BY <1>4
  <2>2. p[2] # j
    <3>1. old[p[1]] = new[p[2]]
      BY <1>1 DEF Agrees
    <3> QED BY <2>1, <3>1
  <2>3. ASSUME NEW q \in M PROVE q \in (1..i) \X (1..j-1)
    <3>1. /\ p[1] \in 1..i /\ p[2] \in 1..j
          /\ q[1] \in 1..i /\ q[2] \in 1..j /\ q = <<q[1], q[2]>>
      BY <1>2
    <3>2. p[1] < q[1] <=> p[2] < q[2]
      BY <1>1 DEF Agrees
    <3>3. q[2] \in 1..j-1
      BY <2>1, <2>2, <3>1, <3>2
    <3> QED BY <3>1, <3>3
  <2> QED BY <1>1, <2>3 DEF PartsTo
<1> QED BY <1>3, <1>4

LEMMA PartGrows ==
  ASSUME NEW old, NEW new, NEW i \in Nat, NEW j \in Nat, i > 0, j > 0
  PROVE  /\ PartsTo(old, new, i-1, j) \subseteq PartsTo(old, new, i, j)
         /\ PartsTo(old, new, i, j-1) \subseteq PartsTo(old, new, i, j)
         /\ \A M \in PartsTo(old, new, i-1, j-1) : old[i] = new[j] =>
              /\ M \cup {<<i, j>>} \in PartsTo(old, new, i, j)
              /\ <<i, j>> \notin M
<1>1. 1..i-1 \subseteq 1..i /\ 1..j-1 \subseteq 1..j /\ i \in 1..i /\ j \in 1..j
  OBVIOUS
<1>2. /\ PartsTo(old, new, i-1, j) \subseteq PartsTo(old, new, i, j)
      /\ PartsTo(old, new, i, j-1) \subseteq PartsTo(old, new, i, j)
  <2>1. /\ (1..i-1) \X (1..j) \subseteq (1..i) \X (1..j)
        /\ (1..i) \X (1..j-1) \subseteq (1..i) \X (1..j)
    BY <1>1
  <2> QED BY <2>1, Zenon DEF PartsTo
<1>3. ASSUME NEW M \in PartsTo(old, new, i-1, j-1), old[i] = new[j]
      PROVE  M \cup {<<i, j>>} \in PartsTo(old, new, i, j) /\ <<i, j>> \notin M
  <2>1. M \subseteq (1..i-1) \X (1..j-1) /\ Agrees(old, new, M)
    BY DEF PartsTo
  <2>2. \A q \in M : q[1] \in 1..i-1 /\ q[2] \in 1..j-1 /\ q = <<q[1], q[2]>>
    BY <2>1
  <2>3. \A q \in M : q[1] < i /\ q[2] < j /\ ~(i < q[1]) /\ ~(j < q[2])
    BY <2>2
  <2>4. <<i, j>> \notin M
    BY <2>3
  <2> DEFINE N == M \cup {<<i, j>>}
             e == <<i, j>>
  <2>5. e[1] = i /\ e[2] = j
    OBVIOUS
  <2>6. N \subseteq (1..i) \X (1..j)
    BY <1>1, <2>1
  <2>7. ASSUME NEW p \in N PROVE old[p[1]] = new[p[2]]
    BY <1>3, <2>1, <2>5 DEF Agrees
  <2>8. ASSUME NEW p \in N, NEW q \in N PROVE p[1] < q[1] <=> p[2] < q[2]
    <3> HIDE DEF e
    <3>1. (p \in M \/ p = e) /\ (q \in M \/ q = e)
      BY DEF e
    <3>2. CASE p \in M /\ q \in M
      BY <2>1, <3>2 DEF Agrees
    <3>3. CASE p \in M /\ q = e
      BY <2>3, <2>5, <3>3
    <3>4. CASE p = e /\ q \in M
      BY <2>3, <2>5, <3>4
    <3>5. CASE p = e /\ q = e
      BY <2>5, <3>5
    <3> QED BY <3>1, <3>2, <3>3, <3>4, <3>5
  <2>9. Agrees(old, new, N)
    BY <2>7, <2>8 DEF Agrees
  <2> QED BY <2>4, <2>6, <2>9 DEF PartsTo
<1> QED BY <1>2, <1>3

(* Each cell of the table is the most that the files have in common there. *)
Longest(dp, old, new, i, j) ==
  /\ \A M \in PartsTo(old, new, i, j) : Cardinality(M) <= dp[<<i, j>>]
  /\ \E M \in PartsTo(old, new, i, j) : Cardinality(M) = dp[<<i, j>>]

LEMMA LongestSame ==
  ASSUME NEW dp, NEW old, NEW new, NEW i \in Nat, NEW j \in Nat, i > 0, j > 0,
         Same(old, new, i, j), dp[<<i-1, j-1>>] \in Nat,
         dp[<<i, j>>] = dp[<<i-1, j-1>>] + 1, Longest(dp, old, new, i-1, j-1)
  PROVE  Longest(dp, old, new, i, j)
<1> DEFINE d == dp[<<i-1, j-1>>]
<1>0. old[i] = new[j] /\ i - 1 \in Nat /\ j - 1 \in Nat
  BY DEF Same
<1>1. ASSUME NEW M \in PartsTo(old, new, i, j) PROVE Cardinality(M) <= d + 1
  <2>1. PICK p : M \ {p} \in PartsTo(old, new, i-1, j-1)
    BY PartLoses
  <2>2. IsFiniteSet(M) /\ Cardinality(M) \in Nat
    BY PartIsFinite
  <2>3. Cardinality(M \ {p}) <= d /\ Cardinality(M \ {p}) \in Nat
    BY <1>0, <2>1, PartIsFinite DEF Longest
  <2>4. CASE p \in M
    <3>1. Cardinality(M \ {p}) = Cardinality(M) - 1
      BY <2>2, <2>4, FS_RemoveElement
    <3> QED BY <2>2, <2>3, <3>1
  <2>5. CASE p \notin M
    <3>1. M \ {p} = M
      BY <2>5
    <3> QED BY <2>2, <2>3, <3>1
  <2> QED BY <2>4, <2>5
<1>2. \E M \in PartsTo(old, new, i, j) : Cardinality(M) = d + 1
  <2>1. PICK M \in PartsTo(old, new, i-1, j-1) : Cardinality(M) = d
    BY DEF Longest
  <2>2. M \cup {<<i, j>>} \in PartsTo(old, new, i, j) /\ <<i, j>> \notin M
    BY <1>0, PartGrows
  <2>3. IsFiniteSet(M)
    BY <1>0, PartIsFinite
  <2>4. Cardinality(M \cup {<<i, j>>}) = Cardinality(M) + 1
    BY <2>2, <2>3, FS_AddElement
  <2> QED BY <2>1, <2>2, <2>4
<1> HIDE DEF d
<1>3. dp[<<i, j>>] = d + 1
  BY DEF d
<1> QED BY <1>1, <1>2, <1>3 DEF Longest

LEMMA LongestOther ==
  ASSUME NEW dp, NEW old, NEW new, NEW i \in Nat, NEW j \in Nat, i > 0, j > 0,
         ~Same(old, new, i, j), dp[<<i-1, j>>] \in Nat, dp[<<i, j-1>>] \in Nat,
         dp[<<i, j>>] = IF dp[<<i-1, j>>] >= dp[<<i, j-1>>] THEN dp[<<i-1, j>>]
                        ELSE dp[<<i, j-1>>],
         Longest(dp, old, new, i-1, j), Longest(dp, old, new, i, j-1)
  PROVE  Longest(dp, old, new, i, j)
<1> DEFINE y == dp[<<i-1, j>>]
           z == dp[<<i, j-1>>]
           v == dp[<<i, j>>]
<1>0. old[i] # new[j] /\ i - 1 \in Nat /\ j - 1 \in Nat
  BY DEF Same
<1>1. y \in Nat /\ z \in Nat /\ v = IF y >= z THEN y ELSE z
  OBVIOUS
<1>2. /\ \A M \in PartsTo(old, new, i-1, j) : Cardinality(M) <= y
      /\ \A M \in PartsTo(old, new, i, j-1) : Cardinality(M) <= z
      /\ \E M \in PartsTo(old, new, i-1, j) : Cardinality(M) = y
      /\ \E M \in PartsTo(old, new, i, j-1) : Cardinality(M) = z
  BY DEF Longest
<1> HIDE DEF y, z, v
<1>3. ASSUME NEW M \in PartsTo(old, new, i, j) PROVE Cardinality(M) <= v
  <2>1. Cardinality(M) \in Nat
    BY PartIsFinite
  <2>2. M \in PartsTo(old, new, i-1, j) \/ M \in PartsTo(old, new, i, j-1)
    BY <1>0, PartAvoids
  <2>3. Cardinality(M) <= y \/ Cardinality(M) <= z
    BY <1>2, <2>2
  <2> QED BY <1>1, <2>1, <2>3
<1>4. \E M \in PartsTo(old, new, i, j) : Cardinality(M) = v
  <2>1. v = y \/ v = z
    BY <1>1
  <2> QED BY <1>2, <2>1, PartGrows
<1> QED BY <1>3, <1>4 DEF Longest, v

LEMMA LongestEdge ==
  ASSUME NEW dp, NEW old, NEW new, NEW i \in Nat, NEW j \in Nat, i = 0 \/ j = 0,
         dp[<<i, j>>] = 0
  PROVE  Longest(dp, old, new, i, j)
<1>1. (1..i) \X (1..j) = {}
  OBVIOUS
<1>2. PartsTo(old, new, i, j) = {{}}
  BY <1>1 DEF PartsTo, Agrees
<1>3. Cardinality({}) = 0
  BY FS_EmptySet
<1> QED BY <1>2, <1>3 DEF Longest

LEMMA TableIsLongest ==
  ASSUME NEW old \in Seq(TextLine), NEW new \in Seq(TextLine), NEW dp,
         IsTable(dp, old, new)
  PROVE  \A i \in 0..Len(old), j \in 0..Len(new) : Longest(dp, old, new, i, j)
<1> DEFINE m == Len(old)
           n == Len(new)
           S == {c \in (0..m) \X (0..n) : Longest(dp, old, new, c[1], c[2])}
<1>1. m \in Nat /\ n \in Nat
  OBVIOUS
<1>2. \A i \in 0..m, j \in 0..n : <<i, j>> \in S <=> Longest(dp, old, new, i, j)
  OBVIOUS
<1>3. ASSUME NEW i \in 0..m, NEW j \in 0..n,
             \A k \in 0..m, l \in 0..n : k + l < i + j => <<k, l>> \in S
      PROVE  <<i, j>> \in S
  <2>1. CASE i = 0 \/ j = 0
    <3>1. dp[<<i, j>>] = 0
      BY <2>1 DEF IsTable
    <3>2. i \in Nat /\ j \in Nat
      BY <1>1
    <3> HIDE DEF S
    <3> QED BY <1>2, <2>1, <3>1, <3>2, LongestEdge
  <2>2. CASE i > 0 /\ j > 0
    <3> HIDE DEF m, n, S
    <3>1. /\ i - 1 \in 0..m /\ j - 1 \in 0..n /\ i \in Nat /\ j \in Nat
          /\ (i - 1) + (j - 1) < i + j /\ (i - 1) + j < i + j /\ i + (j - 1) < i + j
      BY <1>1, <2>2
    <3>2. /\ <<i-1, j-1>> \in S
          /\ <<i-1, j>> \in S
          /\ <<i, j-1>> \in S
      BY <1>3, <3>1
    <3>3. /\ Longest(dp, old, new, i-1, j-1)
          /\ Longest(dp, old, new, i-1, j)
          /\ Longest(dp, old, new, i, j-1)
      BY <1>2, <3>1, <3>2
    <3>4. /\ dp[<<i-1, j-1>>] \in Nat
          /\ dp[<<i-1, j>>] \in Nat
          /\ dp[<<i, j-1>>] \in Nat
      BY <3>1 DEF IsTable, m, n
    <3>5. CASE Same(old, new, i, j)
      <4>1. dp[<<i, j>>] = dp[<<i-1, j-1>>] + 1
        BY <3>5 DEF IsTable, m, n
      <4> QED BY <1>2, <2>2, <3>1, <3>3, <3>4, <3>5, <4>1, LongestSame
    <3>6. CASE ~Same(old, new, i, j)
      <4>1. dp[<<i, j>>] = IF dp[<<i-1, j>>] >= dp[<<i, j-1>>] THEN dp[<<i-1, j>>]
                           ELSE dp[<<i, j-1>>]
        BY <2>2, <3>6 DEF IsTable, m, n
      <4> QED BY <1>2, <2>2, <3>1, <3>3, <3>4, <3>6, <4>1, LongestOther
    <3> QED BY <3>5, <3>6
  <2> QED BY <1>1, <2>1, <2>2
<1> HIDE DEF S
<1>4. \A i \in 0..m, j \in 0..n : <<i, j>> \in S
  <2> HIDE DEF m, n
  <2> QED BY <1>1, <1>3, CellInduction
<1> QED BY <1>2, <1>4

(* So the last cell is the most that the two files have in common.         *)
LEMMA MostInCommon ==
  ASSUME NEW old \in Seq(TextLine), NEW new \in Seq(TextLine), NEW dp,
         IsTable(dp, old, new)
  PROVE  Max({Cardinality(M) : M \in CommonParts(old, new)}) = dp[<<Len(old), Len(new)>>]
<1> DEFINE m == Len(old)
           n == Len(new)
           C == {Cardinality(M) : M \in CommonParts(old, new)}
           d == dp[<<m, n>>]
<1>1. m \in Nat /\ n \in Nat /\ m \in 0..m /\ n \in 0..n
  OBVIOUS
<1>2. CommonParts(old, new) = PartsTo(old, new, m, n)
  BY DEF CommonParts, PartsTo, Agrees
<1>3. Longest(dp, old, new, m, n)
  <2>1. \A i \in 0..m, j \in 0..n : Longest(dp, old, new, i, j)
    BY TableIsLongest
  <2> HIDE DEF m, n
  <2> QED BY <1>1, <2>1
<1>4. d \in Nat
  BY <1>1 DEF IsTable
<1>5. \A x \in C : x \in Nat /\ x <= d
  <2> HIDE DEF m, n
  <2>1. \A M \in PartsTo(old, new, m, n) : Cardinality(M) \in Nat
    BY <1>1, PartIsFinite
  <2> QED BY <1>2, <1>3, <2>1 DEF Longest
<1>6. d \in C
  <2> HIDE DEF m, n
  <2> QED BY <1>2, <1>3 DEF Longest
<1> HIDE DEF C, d
<1>7. d \in C /\ \A y \in C : d >= y
  BY <1>4, <1>5, <1>6
<1>8. Max(C) \in C /\ \A y \in C : Max(C) >= y
  BY <1>7 DEF Max
<1>9. Max(C) = d
  <2>1. Max(C) \in Nat /\ Max(C) <= d
    BY <1>5, <1>8
  <2>2. Max(C) >= d
    BY <1>6, <1>8
  <2> QED BY <1>4, <2>1, <2>2
<1> QED BY <1>9 DEF C, d

-----------------------------------------------------------------------------
Marked == [mark: {"kept", "deleted", "added"}, line: TextLine]

(* s is what is left, up to each place of the hunk w, without one mark. *)
LeavesOut(s, w, drop) ==
  /\ s \in [0..Len(w) -> Seq(TextLine)] /\ s[0] = <<>>
  /\ \A k \in 1..Len(w) :
       s[k] = IF w[k].mark # drop THEN Append(s[k-1], w[k].line) ELSE s[k-1]

LEMMA SidesExist ==
  ASSUME NEW w \in Seq(Marked), NEW drop
  PROVE  \E s : LeavesOut(s, w, drop) /\ Sides(w, drop) = s[Len(w)]
<1> DEFINE n == Len(w)
           next(k, s) == IF w[k].mark # drop THEN Append(s, w[k].line) ELSE s
           step == [p \in (1..n) \X Seq(TextLine) |-> next(p[1], p[2])]
           Rec(s) == [k \in 0..n |->
             IF k = 0 THEN <<>>
             ELSE IF w[k].mark # drop THEN Append(s[k-1], w[k].line) ELSE s[k-1]]
           side == CHOOSE s : s = Rec(s)
<1>0. n \in Nat
  OBVIOUS
<1>1. ASSUME NEW k \in 1..n, NEW s \in Seq(TextLine) PROVE next(k, s) \in Seq(TextLine)
  <2>1. w[k] \in Marked
    OBVIOUS
  <2>2. w[k].line \in TextLine
    BY <2>1 DEF Marked
  <2> QED BY <2>2
<1> HIDE DEF n
<1>2. step \in [(1..n) \X Seq(TextLine) -> Seq(TextLine)] /\ <<>> \in Seq(TextLine)
  <2> HIDE DEF next
  <2> QED BY <1>1
<1>3. PICK g : Recursive(g, n, Seq(TextLine), <<>>, step)
  <2> HIDE DEF step
  <2>1. PICK T : T = Seq(TextLine)
    OBVIOUS
  <2>2. step \in [(1..n) \X T -> T] /\ <<>> \in T
    BY <1>2, <2>1
  <2>3. \E g : Recursive(g, n, T, <<>>, step)
    BY <1>0, <2>2, RecursionExists
  <2> QED BY <2>1, <2>3
<1>4. g \in [0..n -> Seq(TextLine)] /\ g[0] = <<>>
      /\ \A k \in 1..n : g[k] = step[<<k, g[k-1]>>]
  BY <1>3 DEF Recursive
<1>5. ASSUME NEW k \in 1..n PROVE g[k] = next(k, g[k-1])
  <2>1. k - 1 \in 0..n
    BY <1>0
  <2>2. <<k, g[k-1]>> \in (1..n) \X Seq(TextLine)
    BY <1>4, <2>1
  <2>3. step[<<k, g[k-1]>>] = next(k, g[k-1])
    <3> HIDE DEF next
    <3> QED BY <2>2
  <2> QED BY <1>4, <2>3
<1>6. g = Rec(g)
  <2>1. g = [k \in 0..n |-> g[k]]
    BY <1>4
  <2>2. ASSUME NEW k \in 0..n
        PROVE  g[k] = IF k = 0 THEN <<>>
                      ELSE IF w[k].mark # drop THEN Append(g[k-1], w[k].line) ELSE g[k-1]
    <3>1. CASE k = 0
      BY <1>4, <3>1
    <3>2. CASE k # 0
      <4>1. k \in 1..n
        BY <1>0, <3>2
      <4> QED BY <1>5, <3>2, <4>1
    <3> QED BY <3>1, <3>2
  <2> QED BY <2>1, <2>2
<1>7. side = Rec(side)
  <2> HIDE DEF Rec
  <2> QED BY <1>6
<1>8. side[0] = <<>> /\ \A k \in 1..n : side[k] = next(k, side[k-1])
  <2>1. \A k \in 0..n : side[k] = IF k = 0 THEN <<>>
                                  ELSE IF w[k].mark # drop THEN Append(side[k-1], w[k].line)
                                  ELSE side[k-1]
    <3> HIDE DEF side
    <3> QED BY <1>7
  <2> HIDE DEF side
  <2>2. 0 \in 0..n /\ \A k \in 1..n : k \in 0..n /\ k # 0
    BY <1>0
  <2> QED BY <2>1, <2>2
<1>9. side = [k \in 0..n |-> side[k]]
  <2>1. Rec(side) = [k \in 0..n |-> Rec(side)[k]]
    <3> HIDE DEF side
    <3> QED OBVIOUS
  <2> HIDE DEF side, Rec
  <2> QED BY <1>7, <2>1
<1>10. Sides(w, drop) = side[n]
  BY DEF Sides, n
<1> HIDE DEF side, next
<1> DEFINE S == {k \in Nat : k <= n => side[k] \in Seq(TextLine)}
<1>11. 0 \in S /\ \A k \in Nat : k \in S => k + 1 \in S
  <2>0. side[0] \in Seq(TextLine)
    BY <1>2, <1>8
  <2>1. 0 \in S
    BY <2>0
  <2>2. ASSUME NEW k \in Nat, k \in S PROVE k + 1 \in S
    <3> SUFFICES ASSUME k + 1 <= n PROVE side[k+1] \in Seq(TextLine)
      OBVIOUS
    <3>1. k + 1 \in 1..n /\ (k + 1) - 1 = k /\ k <= n
      BY <1>0
    <3>2. side[k] \in Seq(TextLine)
      BY <2>2, <3>1
    <3> QED BY <1>1, <1>8, <3>1, <3>2
  <2> HIDE DEF S
  <2> QED BY <2>1, <2>2
<1>12. Nat \subseteq S
  <2> HIDE DEF S
  <2> QED BY <1>11, SetInduction
<1>13. side \in [0..n -> Seq(TextLine)]
  BY <1>0, <1>9, <1>12
<1>14. LeavesOut(side, w, drop)
  BY <1>8, <1>13 DEF LeavesOut, n, next
<1> QED BY <1>10, <1>14 DEF n

(* One line more at the end of a hunk. *)
LEMMA SidesAppend ==
  ASSUME NEW w \in Seq(Marked), NEW x \in Marked, NEW drop
  PROVE  /\ Sides(w, drop) \in Seq(TextLine)
         /\ x.mark # drop => Sides(Append(w, x), drop) = Append(Sides(w, drop), x.line)
         /\ x.mark = drop => Sides(Append(w, x), drop) = Sides(w, drop)
<1> DEFINE n == Len(w)
           v == Append(w, x)
<1>1. n \in Nat /\ v \in Seq(Marked) /\ Len(v) = n + 1 /\ v[n+1] = x
      /\ \A k \in 1..n : v[k] = w[k]
  OBVIOUS
<1>2. PICK s : LeavesOut(s, w, drop) /\ Sides(w, drop) = s[n]
  BY SidesExist
<1> HIDE DEF v
<1>3. PICK r : LeavesOut(r, v, drop) /\ Sides(v, drop) = r[n+1]
  <2>1. \E r : LeavesOut(r, v, drop) /\ Sides(v, drop) = r[Len(v)]
    BY <1>1, SidesExist
  <2> QED BY <1>1, <2>1
<1> HIDE DEF n
<1>4. s \in [0..n -> Seq(TextLine)] /\ s[0] = <<>>
      /\ \A k \in 1..n : s[k] = IF w[k].mark # drop THEN Append(s[k-1], w[k].line) ELSE s[k-1]
  BY <1>2 DEF LeavesOut, n
<1>5. r[0] = <<>>
      /\ \A k \in 1..n+1 : r[k] = IF v[k].mark # drop THEN Append(r[k-1], v[k].line)
                                   ELSE r[k-1]
  BY <1>1, <1>3 DEF LeavesOut
<1> DEFINE S == {k \in Nat : k <= n => r[k] = s[k]}
<1>6. 0 \in S /\ \A k \in Nat : k \in S => k + 1 \in S
  <2>0. r[0] = s[0]
    BY <1>4, <1>5
  <2>1. 0 \in S
    BY <2>0
  <2>2. ASSUME NEW k \in Nat, k \in S PROVE k + 1 \in S
    <3> SUFFICES ASSUME k + 1 <= n PROVE r[k+1] = s[k+1]
      OBVIOUS
    <3>1. k + 1 \in 1..n /\ k + 1 \in 1..n+1 /\ (k + 1) - 1 = k /\ k <= n
      BY <1>1
    <3>2. r[k] = s[k] /\ v[k+1] = w[k+1]
      BY <1>1, <2>2, <3>1
    <3>3. r[k+1] = IF v[k+1].mark # drop THEN Append(r[k], v[k+1].line) ELSE r[k]
      <4>1. r[k+1] = IF v[k+1].mark # drop THEN Append(r[(k+1)-1], v[k+1].line)
                     ELSE r[(k+1)-1]
        BY <1>5, <3>1, Zenon
      <4> QED BY <3>1, <4>1, Zenon
    <3>4. s[k+1] = IF w[k+1].mark # drop THEN Append(s[k], w[k+1].line) ELSE s[k]
      <4>1. s[k+1] = IF w[k+1].mark # drop THEN Append(s[(k+1)-1], w[k+1].line)
                     ELSE s[(k+1)-1]
        BY <1>4, <3>1, Zenon
      <4> QED BY <3>1, <4>1, Zenon
    <3> QED BY <3>2, <3>3, <3>4, Zenon
  <2> HIDE DEF S
  <2> QED BY <2>1, <2>2
<1>7. Nat \subseteq S
  <2> HIDE DEF S
  <2> QED BY <1>6, SetInduction
<1>8. r[n] = s[n]
  BY <1>1, <1>7
<1>9. n + 1 \in 1..n+1 /\ (n + 1) - 1 = n /\ n \in 0..n
  BY <1>1
<1>10. r[n+1] = IF x.mark # drop THEN Append(s[n], x.line) ELSE s[n]
  BY <1>1, <1>5, <1>8, <1>9
<1> QED BY <1>2, <1>3, <1>4, <1>9, <1>10 DEF v

Changes(w) == {k \in DOMAIN w : w[k].mark # "kept"}

LEMMA ChangesAppend ==
  ASSUME NEW w \in Seq(Marked), NEW x \in Marked
  PROVE  /\ Cardinality(Changes(w)) \in Nat
         /\ Cardinality(Changes(Append(w, x))) =
              IF x.mark # "kept" THEN Cardinality(Changes(w)) + 1 ELSE Cardinality(Changes(w))
<1> DEFINE n == Len(w)
           v == Append(w, x)
<1>1. n \in Nat /\ DOMAIN w = 1..n /\ DOMAIN v = 1..n+1 /\ v[n+1] = x
      /\ \A k \in 1..n : v[k] = w[k]
  OBVIOUS
<1> HIDE DEF n, v
<1>2. IsFiniteSet(Changes(w)) /\ Cardinality(Changes(w)) \in Nat
  <2>1. IsFiniteSet(1..n)
    BY <1>1, FS_Interval
  <2>2. Changes(w) \subseteq 1..n
    BY <1>1 DEF Changes
  <2>3. IsFiniteSet(Changes(w))
    BY <2>1, <2>2, FS_Subset
  <2> QED BY <2>3, FS_CardinalityType
<1>3. n + 1 \notin Changes(w)
  BY <1>1 DEF Changes
<1>4. \A k : k \in 1..n+1 <=> k \in 1..n \/ k = n + 1
  BY <1>1
<1>5. CASE x.mark # "kept"
  <2>1. Changes(v) = Changes(w) \cup {n + 1}
    BY <1>1, <1>4, <1>5 DEF Changes
  <2>2. Cardinality(Changes(w) \cup {n + 1}) = Cardinality(Changes(w)) + 1
    BY <1>2, <1>3, FS_AddElement
  <2> QED BY <1>2, <1>5, <2>1, <2>2 DEF v
<1>6. CASE x.mark = "kept"
  <2>1. Changes(v) = Changes(w)
    BY <1>1, <1>4, <1>6 DEF Changes
  <2> QED BY <1>2, <1>6, <2>1 DEF v
<1> QED BY <1>5, <1>6

-----------------------------------------------------------------------------
Deletes(dp, old, new, i, j) ==
  ~Same(old, new, i, j) /\ i > 0 /\ (j = 0 \/ dp[<<i-1, j>>] >= dp[<<i, j-1>>])
Additional(dp, old, new, i, j) ==
  ~Same(old, new, i, j) /\ ~Deletes(dp, old, new, i, j) /\ (i > 0 \/ j > 0)

IsWalk(walk, dp, old, new) ==
  \A i \in 0..Len(old), j \in 0..Len(new) :
    /\ i = 0 /\ j = 0 => walk[<<i, j>>] = <<>>
    /\ Same(old, new, i, j) =>
         walk[<<i, j>>] = Append(walk[<<i-1, j-1>>], Mark("kept", old[i]))
    /\ Deletes(dp, old, new, i, j) =>
         walk[<<i, j>>] = Append(walk[<<i-1, j>>], Mark("deleted", old[i]))
    /\ Additional(dp, old, new, i, j) =>
         walk[<<i, j>>] = Append(walk[<<i, j-1>>], Mark("added", new[j]))

LEMMA FourCases ==
  ASSUME NEW p \in BOOLEAN, NEW q \in BOOLEAN, NEW r \in BOOLEAN, ~(p /\ q), ~(p /\ r),
         ~(q /\ r), NEW a, NEW b, NEW c, NEW d, NEW v,
         v = CASE p -> a [] q -> b [] r -> c [] OTHER -> d
  PROVE  /\ p => v = a
         /\ q => v = b
         /\ r => v = c
         /\ ~p /\ ~q /\ ~r => v = d
<1>1. CASE p
  BY <1>1
<1>2. CASE q
  BY <1>2
<1>3. CASE r
  BY <1>3
<1>4. CASE ~p /\ ~q /\ ~r
  BY <1>4
<1> QED BY <1>1, <1>2, <1>3, <1>4

LEMMA WalkOfHunk ==
  ASSUME NEW old \in Seq(TextLine), NEW new \in Seq(TextLine)
  PROVE  \E dp, walk : /\ IsTable(dp, old, new)
                       /\ IsWalk(walk, dp, old, new)
                       /\ HunkLines(old, new) = walk[<<Len(old), Len(new)>>]
<1> DEFINE m == Len(old)
           n == Len(new)
           D == (0..m) \X (0..n)
           dp == CommonLength(old, new)
           Rec(walk) == [c \in D |->
             LET i == c[1]
                 j == c[2]
                 same == i > 0 /\ j > 0 /\ old[i] = new[j]
                 deletes == ~same /\ i > 0 /\ (j = 0 \/ dp[<<i - 1, j>>] >= dp[<<i, j - 1>>])
             IN CASE i = 0 /\ j = 0 -> <<>>
                  [] same -> Append(walk[<<i - 1, j - 1>>], Mark("kept", old[i]))
                  [] deletes -> Append(walk[<<i - 1, j>>], Mark("deleted", old[i]))
                  [] OTHER -> Append(walk[<<i, j - 1>>], Mark("added", new[j]))]
           table == CHOOSE walk : walk = Rec(walk)
           Entry(i, j, x, y, z) ==
             IF i = 0 /\ j = 0 THEN <<>>
             ELSE IF Same(old, new, i, j) THEN Append(x, Mark("kept", old[i]))
             ELSE IF Deletes(dp, old, new, i, j) THEN Append(y, Mark("deleted", old[i]))
             ELSE Append(z, Mark("added", new[j]))
           rule == [q \in (0..m) \X (0..n) \X Seq(Marked) \X Seq(Marked) \X Seq(Marked) |->
                      Entry(q[1], q[2], q[3], q[4], q[5])]
           Case(walk, i, j) ==
             CASE i = 0 /\ j = 0 -> <<>>
               [] Same(old, new, i, j) -> Append(walk[<<i - 1, j - 1>>], Mark("kept", old[i]))
               [] Deletes(dp, old, new, i, j) ->
                    Append(walk[<<i - 1, j>>], Mark("deleted", old[i]))
               [] OTHER -> Append(walk[<<i, j - 1>>], Mark("added", new[j]))
<1>0. IsTable(dp, old, new)
  BY TableOfLengths
<1>01. HunkLines(old, new) = table[<<m, n>>]
  BY DEF HunkLines
<1> HIDE DEF dp
<1>1. m \in Nat /\ n \in Nat /\ (\A i \in 1..m : old[i] \in TextLine)
      /\ (\A j \in 1..n : new[j] \in TextLine)
  OBVIOUS
<1> HIDE DEF m, n
<1>2. ASSUME NEW i \in 0..m, NEW j \in 0..n, NEW x \in Seq(Marked), NEW y \in Seq(Marked),
             NEW z \in Seq(Marked)
      PROVE  Entry(i, j, x, y, z) \in Seq(Marked)
  <2>1. CASE i = 0 /\ j = 0
    BY <2>1
  <2>2. CASE ~(i = 0 /\ j = 0) /\ Same(old, new, i, j)
    <3>1. i \in 1..m
      BY <1>1, <2>2 DEF Same
    <3>2. Mark("kept", old[i]) \in Marked
      BY <1>1, <3>1 DEF Mark, Marked
    <3> HIDE DEF Entry
    <3>3. Append(x, Mark("kept", old[i])) \in Seq(Marked)
      BY <3>2
    <3> QED BY <2>2, <3>3 DEF Entry
  <2>3. CASE ~(i = 0 /\ j = 0) /\ ~Same(old, new, i, j) /\ Deletes(dp, old, new, i, j)
    <3>1. i \in 1..m
      BY <1>1, <2>3 DEF Deletes
    <3>2. Mark("deleted", old[i]) \in Marked
      BY <1>1, <3>1 DEF Mark, Marked
    <3>3. Append(y, Mark("deleted", old[i])) \in Seq(Marked)
      BY <3>2
    <3> QED BY <2>3, <3>3
  <2>4. CASE ~(i = 0 /\ j = 0) /\ ~Same(old, new, i, j) /\ ~Deletes(dp, old, new, i, j)
    <3>1. j \in 1..n
      BY <1>1, <2>4 DEF Deletes
    <3>2. Mark("added", new[j]) \in Marked
      BY <1>1, <3>1 DEF Mark, Marked
    <3>3. Append(z, Mark("added", new[j])) \in Seq(Marked)
      BY <3>2
    <3> QED BY <2>4, <3>3
  <2> QED BY <2>1, <2>2, <2>3, <2>4
<1>3. rule \in [(0..m) \X (0..n) \X Seq(Marked) \X Seq(Marked) \X Seq(Marked) -> Seq(Marked)]
  <2> HIDE DEF Entry
  <2> QED BY <1>2
<1>4. PICK g \in [D -> Seq(Marked)] :
        \A i \in 0..m, j \in 0..n : CellFollows(g, m, n, <<>>, rule, i, j)
  <2> HIDE DEF rule
  <2>1. PICK V : V = Seq(Marked)
    OBVIOUS
  <2>2. <<>> \in V /\ rule \in [(0..m) \X (0..n) \X V \X V \X V -> V]
    BY <1>3, <2>1
  <2>3. \E g \in [(0..m) \X (0..n) -> V] :
           \A i \in 0..m, j \in 0..n : CellFollows(g, m, n, <<>>, rule, i, j)
    BY <1>1, <2>2, TableExists
  <2> QED BY <2>1, <2>3
<1>5. ASSUME NEW i \in 0..m, NEW j \in 0..n
      PROVE  g[<<i, j>>] = Case(g, i, j)
  <2> DEFINE x == CellAt(g, m, n, <<>>, i-1, j-1)
             y == CellAt(g, m, n, <<>>, i-1, j)
             z == CellAt(g, m, n, <<>>, i, j-1)
  <2>1. x \in Seq(Marked) /\ y \in Seq(Marked) /\ z \in Seq(Marked)
    BY DEF CellAt
  <2>2. g[<<i, j>>] = rule[<<i, j, x, y, z>>]
    BY <1>4 DEF CellFollows
  <2>3. /\ Same(old, new, i, j) => x = g[<<i-1, j-1>>]
        /\ Deletes(dp, old, new, i, j) => y = g[<<i-1, j>>]
        /\ Additional(dp, old, new, i, j) => z = g[<<i, j-1>>]
    <3>1. Same(old, new, i, j) => i - 1 \in 0..m /\ j - 1 \in 0..n
      BY <1>1 DEF Same
    <3>2. Deletes(dp, old, new, i, j) => i - 1 \in 0..m
      BY <1>1 DEF Deletes
    <3>3. Additional(dp, old, new, i, j) => j - 1 \in 0..n
      BY <1>1 DEF Additional, Deletes
    <3> QED BY <3>1, <3>2, <3>3 DEF CellAt
  <2> HIDE DEF x, y, z
  <2>4. g[<<i, j>>] = Entry(i, j, x, y, z)
    <3> HIDE DEF Entry
    <3> QED BY <2>1, <2>2
  <2>5. CASE i = 0 /\ j = 0
    <3>1. ~Same(old, new, i, j) /\ ~Deletes(dp, old, new, i, j)
      BY <2>5 DEF Same, Deletes
    <3>2. Entry(i, j, x, y, z) = <<>>
      BY <2>5, Zenon
    <3>3. Case(g, i, j) = <<>>
      <4>1. ASSUME NEW v, v = Case(g, i, j) PROVE v = <<>>
        <5> DEFINE b == Append(g[<<i - 1, j - 1>>], Mark("kept", old[i]))
                   c == Append(g[<<i - 1, j>>], Mark("deleted", old[i]))
                   d == Append(g[<<i, j - 1>>], Mark("added", new[j]))
                   none == i = 0 /\ j = 0
                   same == Same(old, new, i, j)
                   deletes == Deletes(dp, old, new, i, j)
        <5>1. v = CASE none -> <<>> [] same -> b [] deletes -> c [] OTHER -> d
          BY <4>1
        <5>2. none /\ none \in BOOLEAN /\ same \in BOOLEAN /\ deletes \in BOOLEAN
              /\ ~same /\ ~deletes
          BY <2>5, <3>1 DEF Same, Deletes
        <5> HIDE DEF b, c, d, none, same, deletes
        <5> QED BY <5>1, <5>2, FourCases
      <4> QED BY <4>1
    <3> QED BY <2>4, <3>2, <3>3, Zenon
  <2>6. CASE ~(i = 0 /\ j = 0) /\ Same(old, new, i, j)
    BY <2>3, <2>4, <2>6 DEF Deletes
  <2>7. CASE ~(i = 0 /\ j = 0) /\ ~Same(old, new, i, j) /\ Deletes(dp, old, new, i, j)
    BY <2>3, <2>4, <2>7
  <2>8. CASE ~(i = 0 /\ j = 0) /\ ~Same(old, new, i, j) /\ ~Deletes(dp, old, new, i, j)
    <3>1. Additional(dp, old, new, i, j)
      BY <1>1, <2>8 DEF Additional
    <3> QED BY <2>3, <2>4, <2>8, <3>1
  <2> QED BY <2>5, <2>6, <2>7, <2>8
<1>6. ASSUME NEW walk, NEW i \in 0..m, NEW j \in 0..n
      PROVE  Rec(walk)[<<i, j>>] = Case(walk, i, j)
  <2>1. <<i, j>> \in D /\ <<i, j>>[1] = i /\ <<i, j>>[2] = j
    OBVIOUS
  <2> QED BY <2>1 DEF Same, Deletes
<1>7. g = Rec(g)
  <2>1. g = [c \in D |-> g[c]]
    OBVIOUS
  <2>2. ASSUME NEW c \in D PROVE g[c] = Rec(g)[c]
    <3>1. PICK i \in 0..m, j \in 0..n : c = <<i, j>>
      OBVIOUS
    <3> HIDE DEF Rec, Case
    <3> QED BY <1>5, <1>6, <3>1
  <2>3. Rec(g) = [c \in D |-> Rec(g)[c]]
    BY DEF Rec
  <2> HIDE DEF Rec
  <2> QED BY <2>1, <2>2, <2>3
<1>8. table = Rec(table)
  <2> HIDE DEF Rec
  <2> QED BY <1>7
<1> HIDE DEF table, Rec
<1>9. ASSUME NEW i \in 0..m, NEW j \in 0..n
      PROVE  /\ i = 0 /\ j = 0 => table[<<i, j>>] = <<>>
             /\ Same(old, new, i, j) =>
                  table[<<i, j>>] = Append(table[<<i-1, j-1>>], Mark("kept", old[i]))
             /\ Deletes(dp, old, new, i, j) =>
                  table[<<i, j>>] = Append(table[<<i-1, j>>], Mark("deleted", old[i]))
             /\ Additional(dp, old, new, i, j) =>
                  table[<<i, j>>] = Append(table[<<i, j-1>>], Mark("added", new[j]))
  <2> DEFINE none == i = 0 /\ j = 0
             same == Same(old, new, i, j)
             deletes == Deletes(dp, old, new, i, j)
             a == <<>>
             b == Append(table[<<i - 1, j - 1>>], Mark("kept", old[i]))
             c == Append(table[<<i - 1, j>>], Mark("deleted", old[i]))
             d == Append(table[<<i, j - 1>>], Mark("added", new[j]))
             v == table[<<i, j>>]
  <2>1. v = CASE none -> a [] same -> b [] deletes -> c [] OTHER -> d
    BY <1>6, <1>8
  <2>2. ~(none /\ same) /\ ~(none /\ deletes) /\ ~(same /\ deletes)
    BY <1>1 DEF Same, Deletes
  <2>3. none \in BOOLEAN /\ same \in BOOLEAN /\ deletes \in BOOLEAN
    BY DEF Same, Deletes
  <2>4. Additional(dp, old, new, i, j) => ~none /\ ~same /\ ~deletes
    BY <1>1 DEF Additional
  <2> HIDE DEF none, same, deletes, a, b, c, d, v
  <2>5. /\ none => v = a
        /\ same => v = b
        /\ deletes => v = c
        /\ ~none /\ ~same /\ ~deletes => v = d
    BY <2>1, <2>2, <2>3, FourCases
  <2>6. /\ none => v = a
        /\ same => v = b
        /\ deletes => v = c
        /\ Additional(dp, old, new, i, j) => v = d
    BY <2>4, <2>5
  <2> QED BY <2>6 DEF none, same, deletes, a, b, c, d, v
<1>10. IsWalk(table, dp, old, new)
  BY <1>9 DEF IsWalk, m, n
<1> QED BY <1>0, <1>01, <1>10 DEF m, n

(* The first lines of a file. *)
Upto(s, n) == [k \in 1..n |-> s[k]]

LEMMA UptoNext ==
  ASSUME NEW s \in Seq(TextLine), NEW n \in 1..Len(s)
  PROVE  Append(Upto(s, n-1), s[n]) = Upto(s, n)
<1>1. n - 1 \in Nat /\ (\A k \in 1..n : s[k] \in TextLine)
  OBVIOUS
<1> DEFINE u == Upto(s, n-1)
           v == Append(u, s[n])
<1>2. u \in Seq(TextLine) /\ Len(u) = n - 1 /\ (\A k \in 1..n-1 : u[k] = s[k])
  BY <1>1 DEF Upto
<1> HIDE DEF u
<1>3. v = [k \in 1..n |-> v[k]] /\ (\A k \in 1..n-1 : v[k] = u[k]) /\ v[n] = s[n]
  BY <1>1, <1>2
<1> HIDE DEF v
<1>4. ASSUME NEW k \in 1..n PROVE v[k] = s[k]
  <2>1. CASE k = n
    BY <1>3, <2>1
  <2>2. CASE k # n
    <3>1. k \in 1..n-1
      BY <2>2
    <3> QED BY <1>2, <1>3, <3>1
  <2> QED BY <2>1, <2>2
<1>5. v = Upto(s, n)
  BY <1>3, <1>4 DEF Upto
<1> QED BY <1>5 DEF u, v

(* The walk to a cell: the files up to there, and what its table saves.    *)
Right(dp, w, old, new, i, j) ==
  /\ w \in Seq(Marked)
  /\ Sides(w, "added") = Upto(old, i) /\ Sides(w, "deleted") = Upto(new, j)
  /\ Cardinality(Changes(w)) = i + j - 2 * dp[<<i, j>>]

LEMMA RightNone ==
  ASSUME NEW dp, NEW old, NEW new, dp[<<0, 0>>] = 0
  PROVE  Right(dp, <<>>, old, new, 0, 0)
<1>1. <<>> \in Seq(Marked) /\ Len(<<>>) = 0
  OBVIOUS
<1>2. ASSUME NEW drop PROVE Sides(<<>>, drop) = <<>>
  <2>1. PICK s : LeavesOut(s, <<>>, drop) /\ Sides(<<>>, drop) = s[Len(<<>>)]
    BY <1>1, SidesExist
  <2> QED BY <1>1, <2>1 DEF LeavesOut
<1>3. Upto(old, 0) = <<>> /\ Upto(new, 0) = <<>>
  BY DEF Upto
<1>4. Cardinality(Changes(<<>>)) = 0
  <2>1. Changes(<<>>) = {}
    BY DEF Changes
  <2> QED BY <2>1, FS_EmptySet
<1>5. 0 = 0 + 0 - 2 * dp[<<0, 0>>]
  OBVIOUS
<1> QED BY <1>1, <1>2, <1>3, <1>4, <1>5 DEF Right

LEMMA RightKept ==
  ASSUME NEW dp, NEW old \in Seq(TextLine), NEW new \in Seq(TextLine),
         NEW i \in 1..Len(old), NEW j \in 1..Len(new), old[i] = new[j], NEW w,
         Right(dp, w, old, new, i-1, j-1), dp[<<i-1, j-1>>] \in Nat,
         dp[<<i, j>>] = dp[<<i-1, j-1>>] + 1
  PROVE  Right(dp, Append(w, Mark("kept", old[i])), old, new, i, j)
<1> DEFINE x == Mark("kept", old[i])
<1>1. x \in Marked /\ x.mark = "kept" /\ x.line = old[i]
  BY DEF Mark, Marked
<1>2. w \in Seq(Marked) /\ Sides(w, "added") = Upto(old, i-1)
      /\ Sides(w, "deleted") = Upto(new, j-1)
      /\ Cardinality(Changes(w)) = (i - 1) + (j - 1) - 2 * dp[<<i-1, j-1>>]
  BY DEF Right
<1> HIDE DEF x
<1>3. Append(w, x) \in Seq(Marked)
  BY <1>1, <1>2
<1>4. Sides(Append(w, x), "added") = Upto(old, i)
  <2>1. Sides(Append(w, x), "added") = Append(Upto(old, i-1), old[i])
    BY <1>1, <1>2, SidesAppend, Zenon
  <2> QED BY <2>1, UptoNext
<1>5. Sides(Append(w, x), "deleted") = Upto(new, j)
  <2>1. Sides(Append(w, x), "deleted") = Append(Upto(new, j-1), new[j])
    BY <1>1, <1>2, SidesAppend, Zenon
  <2> QED BY <2>1, UptoNext
<1>6. Cardinality(Changes(Append(w, x))) = i + j - 2 * dp[<<i, j>>]
  <2>1. Cardinality(Changes(Append(w, x))) = Cardinality(Changes(w))
    BY <1>1, <1>2, ChangesAppend
  <2> QED BY <1>2, <2>1
<1> QED BY <1>3, <1>4, <1>5, <1>6 DEF Right, x

LEMMA RightDeleted ==
  ASSUME NEW dp, NEW old \in Seq(TextLine), NEW new \in Seq(TextLine),
         NEW i \in 1..Len(old), NEW j \in 0..Len(new), NEW w,
         Right(dp, w, old, new, i-1, j), dp[<<i-1, j>>] \in Nat,
         dp[<<i, j>>] = dp[<<i-1, j>>]
  PROVE  Right(dp, Append(w, Mark("deleted", old[i])), old, new, i, j)
<1> DEFINE x == Mark("deleted", old[i])
<1>1. x \in Marked /\ x.mark = "deleted" /\ x.line = old[i]
  BY DEF Mark, Marked
<1>2. w \in Seq(Marked) /\ Sides(w, "added") = Upto(old, i-1)
      /\ Sides(w, "deleted") = Upto(new, j)
      /\ Cardinality(Changes(w)) = (i - 1) + j - 2 * dp[<<i-1, j>>]
  BY DEF Right
<1> HIDE DEF x
<1>3. Append(w, x) \in Seq(Marked)
  BY <1>1, <1>2
<1>4. Sides(Append(w, x), "added") = Upto(old, i)
  <2>1. Sides(Append(w, x), "added") = Append(Upto(old, i-1), old[i])
    BY <1>1, <1>2, SidesAppend, Zenon
  <2> QED BY <2>1, UptoNext
<1>5. Sides(Append(w, x), "deleted") = Upto(new, j)
  BY <1>1, <1>2, SidesAppend, Zenon
<1>6. Cardinality(Changes(Append(w, x))) = i + j - 2 * dp[<<i, j>>]
  <2>1. Cardinality(Changes(Append(w, x))) = Cardinality(Changes(w)) + 1
    BY <1>1, <1>2, ChangesAppend
  <2> QED BY <1>2, <2>1
<1> QED BY <1>3, <1>4, <1>5, <1>6 DEF Right, x

LEMMA RightAdded ==
  ASSUME NEW dp, NEW old \in Seq(TextLine), NEW new \in Seq(TextLine),
         NEW i \in 0..Len(old), NEW j \in 1..Len(new), NEW w,
         Right(dp, w, old, new, i, j-1), dp[<<i, j-1>>] \in Nat,
         dp[<<i, j>>] = dp[<<i, j-1>>]
  PROVE  Right(dp, Append(w, Mark("added", new[j])), old, new, i, j)
<1> DEFINE x == Mark("added", new[j])
<1>1. x \in Marked /\ x.mark = "added" /\ x.line = new[j]
  BY DEF Mark, Marked
<1>2. w \in Seq(Marked) /\ Sides(w, "added") = Upto(old, i)
      /\ Sides(w, "deleted") = Upto(new, j-1)
      /\ Cardinality(Changes(w)) = i + (j - 1) - 2 * dp[<<i, j-1>>]
  BY DEF Right
<1> HIDE DEF x
<1>3. Append(w, x) \in Seq(Marked)
  BY <1>1, <1>2
<1>4. Sides(Append(w, x), "added") = Upto(old, i)
  BY <1>1, <1>2, SidesAppend, Zenon
<1>5. Sides(Append(w, x), "deleted") = Upto(new, j)
  <2>1. Sides(Append(w, x), "deleted") = Append(Upto(new, j-1), new[j])
    BY <1>1, <1>2, SidesAppend, Zenon
  <2> QED BY <2>1, UptoNext
<1>6. Cardinality(Changes(Append(w, x))) = i + j - 2 * dp[<<i, j>>]
  <2>1. Cardinality(Changes(Append(w, x))) = Cardinality(Changes(w)) + 1
    BY <1>1, <1>2, ChangesAppend
  <2> QED BY <1>2, <2>1
<1> QED BY <1>3, <1>4, <1>5, <1>6 DEF Right, x

LEMMA WalkIsRight ==
  ASSUME NEW old \in Seq(TextLine), NEW new \in Seq(TextLine), NEW dp, NEW walk,
         IsTable(dp, old, new), IsWalk(walk, dp, old, new)
  PROVE  \A i \in 0..Len(old), j \in 0..Len(new) : Right(dp, walk[<<i, j>>], old, new, i, j)
<1> DEFINE m == Len(old)
           n == Len(new)
           S == {c \in (0..m) \X (0..n) : Right(dp, walk[c], old, new, c[1], c[2])}
<1>1. m \in Nat /\ n \in Nat
  OBVIOUS
<1>2. \A i \in 0..m, j \in 0..n :
        <<i, j>> \in S <=> Right(dp, walk[<<i, j>>], old, new, i, j)
  OBVIOUS
<1> HIDE DEF m, n, S
<1>3. ASSUME NEW i \in 0..m, NEW j \in 0..n,
             \A k \in 0..m, l \in 0..n : k + l < i + j => <<k, l>> \in S
      PROVE  <<i, j>> \in S
  <2>0. i \in Nat /\ j \in Nat
    BY <1>1
  <2>1. ASSUME NEW k \in 0..m, NEW l \in 0..n, k + l < i + j
        PROVE  Right(dp, walk[<<k, l>>], old, new, k, l) /\ dp[<<k, l>>] \in Nat
    <3>1. <<k, l>> \in S
      BY <1>3, <2>1
    <3>2. dp[<<k, l>>] \in Nat
      BY DEF IsTable, m, n
    <3> QED BY <1>2, <3>1, <3>2
  <2>2. CASE i = 0 /\ j = 0
    <3>1. walk[<<i, j>>] = <<>>
      BY <2>2 DEF IsWalk, m, n
    <3>2. dp[<<i, j>>] = 0
      BY <2>2 DEF IsTable, m, n
    <3>3. Right(dp, <<>>, old, new, 0, 0)
      BY <2>2, <3>2, RightNone
    <3> QED BY <1>2, <2>2, <3>1, <3>3
  <2>3. CASE Same(old, new, i, j)
    <3>1. i \in 1..m /\ j \in 1..n /\ i - 1 \in 0..m /\ j - 1 \in 0..n
          /\ (i - 1) + (j - 1) < i + j /\ old[i] = new[j]
      BY <1>1, <2>0, <2>3 DEF Same
    <3>2. Right(dp, walk[<<i-1, j-1>>], old, new, i-1, j-1) /\ dp[<<i-1, j-1>>] \in Nat
      BY <2>1, <3>1
    <3>3. dp[<<i, j>>] = dp[<<i-1, j-1>>] + 1
      BY <2>3 DEF IsTable, m, n
    <3>4. walk[<<i, j>>] = Append(walk[<<i-1, j-1>>], Mark("kept", old[i]))
      BY <2>3 DEF IsWalk, m, n
    <3>5. Right(dp, Append(walk[<<i-1, j-1>>], Mark("kept", old[i])), old, new, i, j)
      BY <3>1, <3>2, <3>3, RightKept DEF m, n
    <3> QED BY <1>2, <3>4, <3>5
  <2>4. CASE Deletes(dp, old, new, i, j)
    <3>1. i \in 1..m /\ i - 1 \in 0..m /\ (i - 1) + j < i + j /\ ~Same(old, new, i, j)
          /\ (j = 0 \/ dp[<<i-1, j>>] >= dp[<<i, j-1>>])
      BY <1>1, <2>0, <2>4 DEF Deletes
    <3>2. Right(dp, walk[<<i-1, j>>], old, new, i-1, j) /\ dp[<<i-1, j>>] \in Nat
      BY <2>1, <3>1
    <3>3. dp[<<i, j>>] = dp[<<i-1, j>>]
      <4>1. CASE j = 0
        <5>1. dp[<<i, j>>] = 0 /\ dp[<<i-1, j>>] = 0
          BY <3>1, <4>1 DEF IsTable, m, n
        <5> QED BY <5>1
      <4>2. CASE j # 0
        <5>1. i > 0 /\ j > 0
          BY <2>0, <3>1, <4>2
        <5> QED BY <3>1, <4>2, <5>1 DEF IsTable, m, n
      <4> QED BY <4>1, <4>2
    <3>4. walk[<<i, j>>] = Append(walk[<<i-1, j>>], Mark("deleted", old[i]))
      BY <2>4 DEF IsWalk, m, n
    <3>5. Right(dp, Append(walk[<<i-1, j>>], Mark("deleted", old[i])), old, new, i, j)
      BY <3>1, <3>2, <3>3, RightDeleted DEF m, n
    <3> QED BY <1>2, <3>4, <3>5
  <2>5. CASE Additional(dp, old, new, i, j)
    <3>1. j \in 1..n /\ j - 1 \in 0..n /\ i + (j - 1) < i + j /\ ~Same(old, new, i, j)
          /\ (i = 0 \/ ~(dp[<<i-1, j>>] >= dp[<<i, j-1>>]))
      BY <1>1, <2>0, <2>5 DEF Additional, Deletes
    <3>2. Right(dp, walk[<<i, j-1>>], old, new, i, j-1) /\ dp[<<i, j-1>>] \in Nat
      BY <2>1, <3>1
    <3>3. dp[<<i, j>>] = dp[<<i, j-1>>]
      <4>1. CASE i = 0
        <5>1. dp[<<i, j>>] = 0 /\ dp[<<i, j-1>>] = 0
          BY <3>1, <4>1 DEF IsTable, m, n
        <5> QED BY <5>1
      <4>2. CASE i # 0
        <5>1. i > 0 /\ j > 0
          BY <2>0, <3>1, <4>2
        <5> QED BY <3>1, <4>2, <5>1 DEF IsTable, m, n
      <4> QED BY <4>1, <4>2
    <3>4. walk[<<i, j>>] = Append(walk[<<i, j-1>>], Mark("added", new[j]))
      BY <2>5 DEF IsWalk, m, n
    <3>5. Right(dp, Append(walk[<<i, j-1>>], Mark("added", new[j])), old, new, i, j)
      BY <3>1, <3>2, <3>3, RightAdded DEF m, n
    <3> QED BY <1>2, <3>4, <3>5
  <2>6. \/ i = 0 /\ j = 0
        \/ Same(old, new, i, j)
        \/ Deletes(dp, old, new, i, j)
        \/ Additional(dp, old, new, i, j)
    BY <2>0 DEF Additional
  <2> QED BY <2>2, <2>3, <2>4, <2>5, <2>6
<1>4. \A i \in 0..m, j \in 0..n : <<i, j>> \in S
  BY <1>1, <1>3, CellInduction
<1> QED BY <1>2, <1>4 DEF m, n

LEMMA HunkOfEdit == ReviewTypeOK => HunkIsTheChange
<1> SUFFICES ASSUME ReviewTypeOK PROVE HunkIsTheChange
  OBVIOUS
<1>1. PICK old \in Seq(TextLine), new \in Seq(TextLine) : old = edit.old /\ new = edit.new
  BY DEF ReviewTypeOK
<1> DEFINE h == HunkLines(old, new)
           m == Len(old)
           n == Len(new)
<1>2. PICK dp, walk : /\ IsTable(dp, old, new)
                      /\ IsWalk(walk, dp, old, new)
                      /\ h = walk[<<m, n>>]
  BY WalkOfHunk
<1>3. \A i \in 0..m, j \in 0..n : Right(dp, walk[<<i, j>>], old, new, i, j)
  BY <1>2, WalkIsRight
<1>4. m \in 0..m /\ n \in 0..n
  OBVIOUS
<1>5. Upto(old, m) = old /\ Upto(new, n) = new
  BY DEF Upto
<1>6. Max({Cardinality(M) : M \in CommonParts(old, new)}) = dp[<<m, n>>]
  BY <1>2, MostInCommon
<1> HIDE DEF h
<1>7. Right(dp, h, old, new, m, n)
  <2> HIDE DEF m, n
  <2> QED BY <1>2, <1>3, <1>4
<1>8. /\ Sides(h, "added") = old /\ Sides(h, "deleted") = new
      /\ Cardinality({k \in DOMAIN h : h[k].mark # "kept"})
           = m + n - 2 * Max({Cardinality(M) : M \in CommonParts(old, new)})
  <2> HIDE DEF m, n
  <2> QED BY <1>5, <1>6, <1>7 DEF Right, Changes
<1> QED BY <1>1, <1>8 DEF HunkIsTheChange, h, m, n

(* Whatever files are compared, the hunk is the change: it holds the old   *)
(* file and the new one, and no hunk of fewer changed lines does.          *)
THEOREM HunksAreTheChange == ReviewSpec => [](ReviewTypeOK /\ HunkIsTheChange)
<1>1. ReviewInit => ReviewTypeOK
  <2>1. NoTool \in ToolCall
    <3>1. [c \in ToolCapability |-> [l \in Layer |-> "Unset"]]
            \in [ToolCapability -> [Layer -> LayerValue]]
      BY DEF LayerValue
    <3> QED BY <3>1 DEF NoTool, ToolCall, Effect, Risk, Kind
  <2>2. NoEdit \in [old: Seq(TextLine), new: Seq(TextLine)]
    BY DEF NoEdit
  <2> QED BY <2>1, <2>2 DEF ReviewInit, ReviewTypeOK
<1>2. ReviewTypeOK /\ [ReviewNext]_reviewVars => ReviewTypeOK'
  <2> SUFFICES ASSUME ReviewTypeOK, [ReviewNext]_reviewVars PROVE ReviewTypeOK'
    OBVIOUS
  <2>1. CASE AskEdit
    <3>1. PICK old \in BoundedSeq(TextLine, MaxLines), new \in BoundedSeq(TextLine, MaxLines) :
            edit' = [old |-> old, new |-> new]
      BY <2>1 DEF AskEdit
    <3>2. ASSUME NEW s \in BoundedSeq(TextLine, MaxLines) PROVE s \in Seq(TextLine)
      <4>1. PICK k \in 0..MaxLines : s \in [1..k -> TextLine]
        BY DEF BoundedSeq, SeqOf
      <4>2. k \in Nat
        BY ReviewAssumption
      <4> QED BY <4>1, <4>2
    <3>3. edit' \in [old: Seq(TextLine), new: Seq(TextLine)]
      BY <3>1, <3>2
    <3> QED BY <2>1, <3>3 DEF ReviewTypeOK, AskEdit
  <2>2. CASE \E t \in ToolCall : AskTool(t)
    BY <2>2 DEF ReviewTypeOK, AskTool
  <2>3. CASE UNCHANGED reviewVars
    BY <2>3 DEF ReviewTypeOK, reviewVars
  <2> QED BY <2>1, <2>2, <2>3 DEF ReviewNext
<1> QED BY <1>1, <1>2, HunkOfEdit, PTL DEF ReviewSpec

---------------------------------------------------------------------------
(*************************************************************************)
(* Proofs about Streaming, for every provider, every set of lines and any  *)
(* number of attempts.  While a reply is read, every text line cut off the *)
(* buffer so far is collected, in order and for this attempt, unless its   *)
(* line held something the loop looks for first; and when the loop awaits  *)
(* bytes although lines are buffered, the last line it took was silent.    *)
(*************************************************************************)

Ascends(s) == \A k, l \in DOMAIN s : k < l => s[k] < s[l]

(* s lists, in order, the lines of r that hold what, up to the line n.     *)
ListsTo(s, r, what, n) ==
  /\ s \in Seq(Nat) /\ \A k \in DOMAIN s : s[k] \in 1..n
  /\ Ascends(s)
  /\ \A i \in 1..n : what \in r.lines[i] => \E k \in DOMAIN s : s[k] = i

(* What has been collected is of this attempt and in order. *)
AnswerOf(a, n) ==
  /\ a \in Seq(Nat \X Nat)
  /\ \A k \in DOMAIN a : a[k][1] = n
  /\ \A k, l \in DOMAIN a : k < l => a[k][2] < a[l][2]

Collected(i) == \E k \in DOMAIN answer : answer[k][2] = i

Reading ==
  /\ provider \in Streamer
  /\ reply.lines \in Seq(LineOf[provider])
  /\ arrived \in 0..Len(reply.lines) /\ cutOff \in 0..arrived
  /\ AnswerOf(answer, attempt)
  /\ \A k \in DOMAIN answer : answer[k][2] \in 1..cutOff
  /\ \A i \in 1..cutOff : "text" \in reply.lines[i] => Collected(i) \/ Hidden(reply.lines[i])
  /\ stalled => cutOff > 0 /\ Silent(reply.lines[cutOff])

StreamInv ==
  /\ provider \in Streamer \cup {"google"} /\ attempt \in Nat
  /\ phase = "reading" => Reading
  /\ ReplyIsWhole

-----------------------------------------------------------------------------
LEMMA ListStep ==
  ASSUME NEW s, NEW r, NEW what, NEW n \in Nat, ListsTo(s, r, what, n)
  PROVE  ListsTo(IF what \in r.lines[n+1] THEN Append(s, n+1) ELSE s, r, what, n+1)
<1> USE DEF ListsTo
<1> DEFINE t == Append(s, n+1)
<1>1. CASE what \in r.lines[n+1]
  <2>0. s \in Seq(Nat) /\ n + 1 \in Nat /\ Len(s) \in Nat /\ DOMAIN s = 1..Len(s)
    OBVIOUS
  <2>1. t \in Seq(Nat) /\ DOMAIN t = 1..Len(s)+1 /\ t[Len(s)+1] = n+1
        /\ \A k \in 1..Len(s) : t[k] = s[k]
    BY <2>0
  <2> HIDE DEF t
  <2>2. \A k \in DOMAIN s : s[k] \in 1..n
    OBVIOUS
  <2>3. ASSUME NEW k \in DOMAIN t PROVE t[k] \in 1..n+1
    <3>1. CASE k = Len(s) + 1
      BY <2>1, <3>1
    <3>2. CASE k # Len(s) + 1
      <4>1. k \in 1..Len(s) /\ k \in DOMAIN s
        BY <2>0, <2>1, <3>2
      <4>2. t[k] = s[k] /\ s[k] \in 1..n
        BY <2>1, <2>2, <4>1
      <4> QED BY <4>2
    <3> QED BY <3>1, <3>2
  <2>4. ASSUME NEW k \in DOMAIN t, NEW l \in DOMAIN t, k < l PROVE t[k] < t[l]
    <3>1. k \in 1..Len(s) /\ k \in DOMAIN s /\ t[k] = s[k] /\ s[k] \in 1..n
      <4>1. k \in 1..Len(s)
        BY <2>0, <2>1, <2>4
      <4> QED BY <2>0, <2>1, <2>2, <4>1
    <3>2. CASE l = Len(s) + 1
      BY <2>1, <3>1, <3>2
    <3>3. CASE l # Len(s) + 1
      <4>1. l \in 1..Len(s) /\ l \in DOMAIN s
        BY <2>0, <2>1, <3>3
      <4>2. t[l] = s[l] /\ s[k] < s[l]
        BY <2>1, <2>4, <3>1, <4>1 DEF Ascends
      <4> QED BY <3>1, <4>2
    <3> QED BY <3>2, <3>3
  <2>5. ASSUME NEW i \in 1..n+1, what \in r.lines[i] PROVE \E k \in DOMAIN t : t[k] = i
    <3>1. CASE i = n + 1
      <4>1. Len(s) + 1 \in DOMAIN t
        BY <2>0, <2>1
      <4> QED BY <2>1, <3>1, <4>1
    <3>2. CASE i # n + 1
      <4>1. i \in 1..n
        BY <3>2
      <4>2. PICK k \in DOMAIN s : s[k] = i
        BY <2>5, <4>1
      <4>3. k \in DOMAIN t /\ t[k] = i
        BY <2>0, <2>1, <4>2
      <4> QED BY <4>3
    <3> QED BY <3>1, <3>2
  <2>6. ListsTo(t, r, what, n+1)
    BY <2>1, <2>3, <2>4, <2>5 DEF Ascends
  <2> QED BY <1>1, <2>6 DEF t
<1>2. CASE what \notin r.lines[n+1]
  <2>1. \A k \in DOMAIN s : s[k] \in 1..n+1
    <3>1. \A k \in DOMAIN s : s[k] \in 1..n
      OBVIOUS
    <3>2. \A x \in 1..n : x \in 1..n+1
      OBVIOUS
    <3> QED BY <3>1, <3>2
  <2>2. ASSUME NEW i \in 1..n+1, what \in r.lines[i] PROVE \E k \in DOMAIN s : s[k] = i
    <3>1. i \in 1..n
      BY <1>2, <2>2
    <3> QED BY <2>2, <3>1
  <2>3. ListsTo(s, r, what, n+1)
    BY <2>1, <2>2
  <2> QED BY <1>2, <2>3
<1> QED BY <1>1, <1>2

(* Places lists the lines that hold what. *)
LEMMA PlacesListed ==
  ASSUME NEW r, NEW what, Len(r.lines) \in Nat
  PROVE  ListsTo(Places(r, what), r, what, Len(r.lines))
<1> DEFINE n == Len(r.lines)
           next(s, k) == IF what \in r.lines[k] THEN Append(s, k) ELSE s
           step == [p \in (1..n) \X Seq(Nat) |-> next(p[2], p[1])]
           Rec(g) == [k \in 0..n |-> IF k = 0 THEN <<>>
                                     ELSE IF what \in r.lines[k] THEN Append(g[k-1], k)
                                     ELSE g[k-1]]
           found == CHOOSE g : g = Rec(g)
<1>0. n \in Nat
  OBVIOUS
<1>1. step \in [(1..n) \X Seq(Nat) -> Seq(Nat)] /\ <<>> \in Seq(Nat)
  <2>1. ASSUME NEW k \in 1..n, NEW s \in Seq(Nat) PROVE next(s, k) \in Seq(Nat)
    <3>1. k \in Nat
      BY <1>0
    <3>2. Append(s, k) \in Seq(Nat)
      BY <3>1
    <3> QED BY <3>2
  <2> HIDE DEF next
  <2> QED BY <2>1
<1>2. PICK g : Recursive(g, n, Seq(Nat), <<>>, step)
  <2> HIDE DEF step, n
  <2>1. PICK T : T = Seq(Nat)
    OBVIOUS
  <2>2. step \in [(1..n) \X T -> T] /\ <<>> \in T
    BY <1>1, <2>1
  <2>3. \E g : Recursive(g, n, T, <<>>, step)
    BY <1>0, <2>2, RecursionExists
  <2> QED BY <2>1, <2>3
<1>3. g \in [0..n -> Seq(Nat)] /\ g[0] = <<>> /\ \A k \in 1..n : g[k] = step[<<k, g[k-1]>>]
  BY <1>2 DEF Recursive
<1>4. ASSUME NEW k \in 1..n PROVE g[k] = next(g[k-1], k)
  <2>1. k - 1 \in 0..n
    BY <1>0
  <2>2. <<k, g[k-1]>> \in (1..n) \X Seq(Nat)
    BY <1>3, <2>1
  <2>3. step[<<k, g[k-1]>>] = next(g[k-1], k)
    <3> HIDE DEF next
    <3> QED BY <2>2
  <2> QED BY <1>3, <2>3
<1>5. g = Rec(g)
  <2>1. g = [k \in 0..n |-> g[k]]
    BY <1>3
  <2>2. ASSUME NEW k \in 0..n
        PROVE  g[k] = IF k = 0 THEN <<>>
                      ELSE IF what \in r.lines[k] THEN Append(g[k-1], k) ELSE g[k-1]
    <3>1. CASE k = 0
      BY <1>3, <3>1
    <3>2. CASE k # 0
      <4>1. k \in 1..n
        BY <1>0, <3>2
      <4> QED BY <1>4, <3>2, <4>1
    <3> QED BY <3>1, <3>2
  <2> QED BY <2>1, <2>2
<1>6. found = Rec(found)
  <2> HIDE DEF Rec
  <2> QED BY <1>5
<1>7. found[0] = <<>> /\ \A k \in 1..n : found[k] = next(found[k-1], k)
  <2>1. \A k \in 0..n : found[k] = IF k = 0 THEN <<>>
                                   ELSE IF what \in r.lines[k] THEN Append(found[k-1], k)
                                   ELSE found[k-1]
    <3> HIDE DEF found
    <3> QED BY <1>6
  <2> HIDE DEF found
  <2>2. 0 \in 0..n /\ \A k \in 1..n : k \in 0..n /\ k # 0
    BY <1>0
  <2> QED BY <2>1, <2>2
<1> HIDE DEF found, next
<1>8. ListsTo(found[0], r, what, 0)
  BY <1>7 DEF ListsTo, Ascends
<1>9. ASSUME NEW k \in Nat, k + 1 <= n, ListsTo(found[k], r, what, k)
      PROVE  ListsTo(found[k+1], r, what, k+1)
  <2>1. ListsTo(IF what \in r.lines[k+1] THEN Append(found[k], k+1) ELSE found[k],
                r, what, k+1)
    BY <1>9, ListStep
  <2>2. k + 1 \in 1..n /\ (k + 1) - 1 = k
    BY <1>0, <1>9
  <2>3. found[k+1] = next(found[k], k+1)
    BY <1>7, <2>2
  <2> QED BY <2>1, <2>3 DEF next
<1> DEFINE S == {k \in Nat : k <= n => ListsTo(found[k], r, what, k)}
<1>10. 0 \in S /\ \A k \in Nat : k \in S => k + 1 \in S
  <2> HIDE DEF n
  <2>1. 0 \in S
    BY <1>8
  <2>2. ASSUME NEW k \in Nat, k \in S, k + 1 <= n
        PROVE  ListsTo(found[k+1], r, what, k+1)
    <3>1. k <= n
      BY <1>0, <2>2
    <3>2. ListsTo(found[k], r, what, k)
      BY <2>2, <3>1
    <3> QED BY <1>9, <2>2, <3>2
  <2> QED BY <2>1, <2>2
<1>11. Nat \subseteq S
  <2> HIDE DEF S
  <2> QED BY <1>10, SetInduction
<1>12. ListsTo(found[n], r, what, n)
  <2> HIDE DEF n
  <2> QED BY <1>0, <1>11
<1>13. Places(r, what) = found[n]
  BY DEF Places, found
<1> QED BY <1>12, <1>13

(* A reply considered is a finite sequence of the provider's lines. *)
LEMMA ReplyLines ==
  ASSUME NEW p, NEW r \in Reply(p)
  PROVE  r.lines \in Seq(LineOf[p]) /\ Len(r.lines) \in Nat
<1> USE StreamingAssumption
<1>1. r.lines \in BoundedSeq(LineOf[p], MaxReply)
  BY DEF Reply
<1>2. PICK m \in 0..MaxReply : r.lines \in [1..m -> LineOf[p]]
  BY <1>1 DEF BoundedSeq, SeqOf
<1>3. m \in Nat
  BY <1>2
<1>4. r.lines \in Seq(LineOf[p])
  BY <1>2, <1>3
<1> QED BY <1>4

(* One delta more is collected in order if it comes from further on. *)
LEMMA CollectKeepsOrder ==
  ASSUME AnswerOf(answer, attempt), attempt \in Nat, NEW what, NEW place \in Nat,
         \A k \in DOMAIN answer : answer[k][2] < place,
         Collect(what, place)
  PROVE  /\ AnswerOf(answer', attempt)
         /\ what = "text" => \E k \in DOMAIN answer' : answer'[k][2] = place
         /\ \A i : Collected(i) => Collected(i)'
         /\ \A k \in DOMAIN answer' : \/ answer'[k][2] = place
                                      \/ \E l \in DOMAIN answer : answer'[k][2] = answer[l][2]
<1>1. CASE what = "text"
  <2>1. answer' = Append(answer, <<attempt, place>>)
    BY <1>1 DEF Collect
  <2> DEFINE n == Len(answer)
             new == <<attempt, place>>
  <2>2. answer \in Seq(Nat \X Nat) /\ n \in Nat /\ DOMAIN answer = 1..n /\ new \in Nat \X Nat
    BY DEF AnswerOf
  <2>3. new[1] = attempt /\ new[2] = place
    OBVIOUS
  <2> HIDE DEF new
  <2>4. answer' \in Seq(Nat \X Nat) /\ DOMAIN answer' = 1..n+1 /\ answer'[n+1] = new
        /\ \A k \in 1..n : answer'[k] = answer[k]
    BY <2>1, <2>2 DEF new
  <2> HIDE DEF n
  <2>5. \A k \in DOMAIN answer' : k = n + 1 \/ k \in DOMAIN answer
    BY <2>2, <2>4
  <2>6. ASSUME NEW k \in DOMAIN answer' PROVE answer'[k][1] = attempt
    <3>1. CASE k = n + 1
      BY <2>3, <2>4, <3>1
    <3>2. CASE k \in DOMAIN answer
      <4>1. answer'[k] = answer[k] /\ answer[k][1] = attempt
        BY <2>2, <2>4, <3>2 DEF AnswerOf
      <4> QED BY <4>1
    <3> QED BY <2>5, <3>1, <3>2
  <2>7. ASSUME NEW k \in DOMAIN answer', NEW l \in DOMAIN answer', k < l
        PROVE  answer'[k][2] < answer'[l][2]
    <3>1. k \in DOMAIN answer
      BY <2>2, <2>4, <2>7
    <3>2. answer'[k] = answer[k]
      BY <2>2, <2>4, <3>1
    <3>3. CASE l = n + 1
      <4>1. answer[k][2] < place /\ answer'[l][2] = place
        BY <2>3, <2>4, <3>1, <3>3
      <4> QED BY <3>2, <4>1
    <3>4. CASE l \in DOMAIN answer
      <4>1. answer'[l] = answer[l] /\ answer[k][2] < answer[l][2]
        BY <2>2, <2>4, <2>7, <3>1, <3>4 DEF AnswerOf
      <4> QED BY <3>2, <4>1
    <3> QED BY <2>5, <3>3, <3>4
  <2>8. AnswerOf(answer', attempt)
    BY <2>4, <2>6, <2>7 DEF AnswerOf
  <2>9. n + 1 \in DOMAIN answer' /\ answer'[n+1][2] = place
    BY <2>2, <2>3, <2>4
  <2>10. ASSUME NEW i, Collected(i) PROVE Collected(i)'
    <3>1. PICK k \in DOMAIN answer : answer[k][2] = i
      BY <2>10 DEF Collected
    <3>2. k \in DOMAIN answer' /\ answer'[k] = answer[k]
      BY <2>2, <2>4, <3>1
    <3> QED BY <3>1, <3>2 DEF Collected
  <2>11. ASSUME NEW k \in DOMAIN answer'
         PROVE  \/ answer'[k][2] = place
                \/ \E l \in DOMAIN answer : answer'[k][2] = answer[l][2]
    <3>1. CASE k = n + 1
      BY <2>9, <3>1
    <3>2. CASE k \in DOMAIN answer
      BY <2>2, <2>4, <3>2
    <3> QED BY <2>5, <3>1, <3>2
  <2> QED BY <2>8, <2>9, <2>10, <2>11
<1>2. CASE what # "text"
  <2>1. answer' = answer
    BY <1>2 DEF Collect
  <2> QED BY <1>2, <2>1 DEF Collected
<1> QED BY <1>1, <1>2

(* A line with text is collected, or shares its line with something else.  *)
LEMMA TextIsYielded ==
  ASSUME NEW line, provider \in Streamer, "text" \in line, Yields(provider, line) # "text"
  PROVE  Hidden(line)
<1>1. CASE provider = "openai"
  BY <1>1 DEF Yields, OpenAIYields, Hidden
<1>2. CASE provider = "anthropic"
  BY <1>2 DEF Yields, AnthropicYields
<1>3. CASE provider = "ollama"
  <2>1. "end" \in line \/ "call" \in line
    BY <1>3 DEF Yields, OllamaYields
  <2>2. line \cap {"call", "end"} # {}
    BY <2>1
  <2> QED BY <1>3, <2>2 DEF Hidden
<1> QED BY <1>1, <1>2, <1>3 DEF Streamer

LEMMA EndingLine ==
  ASSUME NEW line, provider \in Streamer, Yields(provider, line) \in {"end", "done"}
  PROVE  "end" \in line
<1>1. CASE provider = "openai"
  BY <1>1 DEF Yields, OpenAIYields
<1>2. CASE provider = "anthropic"
  BY <1>2 DEF Yields, AnthropicYields
<1>3. CASE provider = "ollama"
  BY <1>3 DEF Yields, OllamaYields
<1> QED BY <1>1, <1>2, <1>3 DEF Streamer

-----------------------------------------------------------------------------
LEMMA ConnectKeepsReply ==
  ASSUME StreamInv, NEW prompt, NEW r \in Reply(provider), ConnectProvider(prompt, r)
  PROVE  StreamInv'
<1>1. provider' = provider /\ attempt' = attempt + 1 /\ phase' = "reading" /\ reply' = r
      /\ arrived' = 0 /\ cutOff' = 0 /\ stalled' = FALSE /\ answer' = <<>>
      /\ provider \in Streamer
  BY DEF ConnectProvider, StartAnswer
<1>2. r.lines \in Seq(LineOf[provider]) /\ Len(r.lines) \in Nat
  BY ReplyLines
<1>3. AnswerOf(<<>>, attempt + 1)
  BY DEF AnswerOf
<1>4. Reading'
  BY <1>1, <1>2, <1>3 DEF Reading
<1> QED BY <1>1, <1>4 DEF StreamInv, ReplyIsWhole

LEMMA GoogleKeepsReply ==
  ASSUME StreamInv, NEW prompt, NEW r \in Reply(provider), GoogleReply(prompt, r)
  PROVE  StreamInv'
<1> DEFINE s == Places(r, "text")
<1>1. provider' = provider /\ attempt' = attempt + 1 /\ phase' = "answered" /\ reply' = r
      /\ answer' = [i \in DOMAIN s |-> <<attempt', s[i]>>]
  BY DEF GoogleReply
<1>2. Len(r.lines) \in Nat
  BY ReplyLines
<1>3. ListsTo(s, r, "text", Len(r.lines))
  BY <1>2, PlacesListed
<1> HIDE DEF s
<1>4. DOMAIN answer' = DOMAIN s
      /\ \A k \in DOMAIN s : answer'[k][1] = attempt' /\ answer'[k][2] = s[k]
  BY <1>1
<1>5. \A k, l \in DOMAIN answer' : k < l => answer'[k][2] < answer'[l][2]
  BY <1>3, <1>4 DEF ListsTo, Ascends
<1>6. ASSUME NEW i \in 1..Len(r.lines), "text" \in r.lines[i]
      PROVE  \E k \in DOMAIN answer' : answer'[k][2] = i
  BY <1>3, <1>4, <1>6 DEF ListsTo
<1>7. ReplyIsWhole'
  BY <1>1, <1>4, <1>5, <1>6 DEF ReplyIsWhole
<1> QED BY <1>1, <1>7 DEF StreamInv

LEMMA TakeLineKeepsReply ==
  ASSUME StreamInv, TakeLine
  PROVE  StreamInv'
<1> DEFINE n == cutOff + 1
           line == reply.lines[n]
           what == Yields(provider, line)
<1>1. phase = "reading" /\ cutOff < arrived /\ cutOff' = n
      /\ provider' = provider /\ attempt' = attempt /\ reply' = reply /\ arrived' = arrived
      /\ stalled' = StallsAfter(line) /\ Collect(what, n)
      /\ phase' = IF what \in {"end", "done"} THEN "answered" ELSE phase
  BY DEF TakeLine
<1>2. Reading /\ attempt \in Nat /\ provider \in Streamer
  BY <1>1 DEF StreamInv, Reading
<1>3. n \in Nat /\ n \in 1..arrived /\ arrived \in Nat /\ arrived <= Len(reply.lines)
      /\ cutOff \in Nat /\ Len(reply.lines) \in Nat
  BY <1>1, <1>2 DEF Reading
<1>4. \A k \in DOMAIN answer : answer[k][2] < n
  BY <1>2, <1>3 DEF Reading
<1>5. /\ AnswerOf(answer', attempt)
      /\ what = "text" => \E k \in DOMAIN answer' : answer'[k][2] = n
      /\ \A i : Collected(i) => Collected(i)'
      /\ \A k \in DOMAIN answer' : \/ answer'[k][2] = n
                                   \/ \E l \in DOMAIN answer : answer'[k][2] = answer[l][2]
  <2> HIDE DEF n, what
  <2>1. AnswerOf(answer, attempt)
    BY <1>2 DEF Reading
  <2> QED BY <1>1, <1>2, <1>3, <1>4, <2>1, CollectKeepsOrder
<1> HIDE DEF what
<1>6. \A k \in DOMAIN answer' : answer'[k][2] \in 1..n
  <2>1. \A l \in DOMAIN answer : answer[l][2] \in 1..n
    BY <1>2, <1>3 DEF Reading
  <2>2. n \in 1..n
    BY <1>3
  <2> HIDE DEF n
  <2> QED BY <1>5, <2>1, <2>2
<1>7. ASSUME NEW i \in 1..n, "text" \in reply.lines[i]
      PROVE  Collected(i)' \/ Hidden(reply.lines[i])
  <2>1. CASE i = n
    <3>1. CASE what = "text"
      BY <1>5, <2>1, <3>1 DEF Collected
    <3>2. CASE what # "text"
      BY <1>2, <1>7, <2>1, <3>2, TextIsYielded DEF what
    <3> QED BY <3>1, <3>2
  <2>2. CASE i # n
    <3>1. i \in 1..cutOff
      BY <1>3, <2>2
    <3> HIDE DEF n
    <3>2. Collected(i) \/ Hidden(reply.lines[i])
      BY <1>2, <1>7, <3>1 DEF Reading
    <3> QED BY <1>5, <3>2
  <2> QED BY <2>1, <2>2
<1>8. CASE what \in {"end", "done"}
  <2>1. phase' = "answered"
    BY <1>1, <1>8
  <2>2. "end" \in reply.lines[n]
    BY <1>2, <1>8, EndingLine DEF what
  <2>3. ASSUME NEW i \in 1..Len(reply.lines), "text" \in reply.lines[i],
               \A k \in DOMAIN answer' : answer'[k][2] # i
        PROVE  \/ Hidden(reply.lines[i])
               \/ \E j \in 1..i-1 : "end" \in reply.lines[j]
    <3>1. CASE i \in 1..n
      BY <1>7, <2>3, <3>1 DEF Collected
    <3>2. CASE i \notin 1..n
      <4>1. n \in 1..i-1
        BY <1>3, <3>2
      <4> QED BY <2>2, <4>1
    <3> QED BY <3>1, <3>2
  <2>4. ReplyIsWhole'
    <3>1. \A i \in 1..Len(reply.lines) :
            ("text" \in reply.lines[i] /\ \A k \in DOMAIN answer' : answer'[k][2] # i) =>
               \/ Hidden(reply.lines[i])
               \/ \E j \in 1 .. i - 1 : \/ "end" \in reply.lines[j]
                                        \/ Silent(reply.lines[j])
      BY <2>3
    <3>2. \A i \in 1..Len(reply.lines) : Hidden(reply.lines[i])' <=> Hidden(reply.lines[i])
      BY <1>1 DEF Hidden
    <3>3. \A i \in 1..Len(reply.lines) : \A j \in 1..i-1 :
            Silent(reply.lines[j])' <=> Silent(reply.lines[j])
      BY <1>1 DEF Silent
    <3>4. reply' = reply /\ attempt' = attempt
      BY <1>1
    <3> HIDE DEF n
    <3> QED BY <1>5, <3>1, <3>2, <3>3, <3>4 DEF ReplyIsWhole, AnswerOf
  <2> QED BY <1>1, <1>2, <2>1, <2>4 DEF StreamInv, Streamer
<1>9. CASE what \notin {"end", "done"}
  <2>1. phase' = "reading"
    BY <1>1, <1>9
  <2>2. stalled' => Silent(line)
    BY <1>1 DEF StallsAfter, Silent
  <2>3. Reading'
    <3>1. provider' \in Streamer /\ reply'.lines \in Seq(LineOf[provider'])
          /\ arrived' \in 0..Len(reply'.lines) /\ AnswerOf(answer', attempt')
      BY <1>1, <1>2, <1>5 DEF Reading
    <3>2. cutOff' \in 0..arrived' /\ cutOff' > 0
      BY <1>1, <1>3
    <3>3. \A k \in DOMAIN answer' : answer'[k][2] \in 1..cutOff'
      BY <1>1, <1>6
    <3>4. \A i \in 1..cutOff' : "text" \in reply'.lines[i] =>
             Collected(i)' \/ Hidden(reply.lines[i])'
      BY <1>1, <1>7 DEF Hidden
    <3>5. stalled' => Silent(reply.lines[cutOff])'
      BY <1>1, <2>2 DEF Silent
    <3> HIDE DEF n
    <3> QED BY <3>1, <3>2, <3>3, <3>4, <3>5 DEF Reading
  <2>4. ReplyIsWhole'
    BY <2>1 DEF ReplyIsWhole
  <2> QED BY <1>1, <1>2, <2>3, <2>4 DEF StreamInv, Streamer
<1> QED BY <1>8, <1>9

LEMMA BodyEndKeepsReply ==
  ASSUME StreamInv, BodyEnds
  PROVE  StreamInv'
<1>1. phase = "reading" /\ (stalled \/ cutOff = arrived) /\ arrived = Len(reply.lines)
      /\ Collect(LastWord, IF LastWord = "end" THEN 0 ELSE TailPlace)
      /\ provider' = provider /\ attempt' = attempt /\ reply' = reply
  BY DEF BodyEnds
<1>2. Reading /\ attempt \in Nat
  BY <1>1 DEF StreamInv
<1>3. cutOff \in Nat /\ Len(reply.lines) \in Nat
  BY <1>2 DEF Reading
<1>4. AnswerOf(answer', attempt) /\ \A i : Collected(i) => Collected(i)'
  <2>1. CASE LastWord = "end"
    <3>1. answer' = answer
      BY <1>1, <2>1 DEF Collect
    <3> QED BY <1>2, <3>1 DEF Reading, Collected
  <2>2. CASE LastWord # "end"
    <3>1. Cardinality(Rest) = 1
      BY <2>2 DEF LastWord, OllamaTail
    <3>2. Rest # {}
      BY <3>1, FS_EmptySet
    <3>3. TailPlace \in Rest
      BY <3>2 DEF TailPlace
    <3>4. Len(Bytes) \in Nat
      <4>1. PICK T : T = LineOf[provider] \cup {reply.tail}
        OBVIOUS
      <4>2. reply.lines \in Seq(T) /\ reply.tail \in T
        BY <1>2, <4>1 DEF Reading
      <4>3. Bytes \in Seq(T)
        BY <4>2 DEF Bytes
      <4> QED BY <4>3
    <3>5. TailPlace \in Nat /\ cutOff < TailPlace
      BY <1>3, <3>3, <3>4 DEF Rest
    <3>6. \A k \in DOMAIN answer : answer[k][2] < TailPlace
      BY <1>2, <1>3, <3>5 DEF Reading
    <3>7. AnswerOf(answer, attempt)
      BY <1>2 DEF Reading
    <3>8. Collect(LastWord, TailPlace)
      BY <1>1, <2>2
    <3> HIDE DEF LastWord, TailPlace
    <3> QED BY <1>2, <3>5, <3>6, <3>7, <3>8, CollectKeepsOrder
  <2> QED BY <2>1, <2>2
<1>5. ASSUME NEW i \in 1..Len(reply.lines), "text" \in reply.lines[i],
             \A k \in DOMAIN answer' : answer'[k][2] # i
      PROVE  \/ Hidden(reply.lines[i])
             \/ \E j \in 1..i-1 : Silent(reply.lines[j])
  <2>1. CASE i \in 1..cutOff
    <3>1. ~ Collected(i)
      BY <1>4, <1>5 DEF Collected
    <3> QED BY <1>2, <1>5, <2>1, <3>1 DEF Reading
  <2>2. CASE i \notin 1..cutOff
    <3>1. cutOff < i
      BY <1>3, <2>2
    <3>2. cutOff # arrived
      BY <1>1, <1>3, <3>1
    <3>3. cutOff > 0 /\ Silent(reply.lines[cutOff])
      BY <1>1, <1>2, <3>2 DEF Reading
    <3>4. cutOff \in 1..i-1
      BY <1>3, <3>1, <3>3
    <3> QED BY <3>3, <3>4
  <2> QED BY <2>1, <2>2
<1>6. ReplyIsWhole'
  <2>1. \A i \in 1..Len(reply.lines) :
          ("text" \in reply.lines[i] /\ \A k \in DOMAIN answer' : answer'[k][2] # i) =>
             \/ Hidden(reply.lines[i])
             \/ \E j \in 1 .. i - 1 : \/ "end" \in reply.lines[j]
                                      \/ Silent(reply.lines[j])
    BY <1>5
  <2>2. \A i \in 1..Len(reply.lines) : Hidden(reply.lines[i])' <=> Hidden(reply.lines[i])
    BY <1>1 DEF Hidden
  <2>3. \A i \in 1..Len(reply.lines) : \A j \in 1..i-1 :
          Silent(reply.lines[j])' <=> Silent(reply.lines[j])
    BY <1>1 DEF Silent
  <2>4. reply' = reply /\ attempt' = attempt
    BY <1>1
  <2> QED BY <1>4, <2>1, <2>2, <2>3, <2>4 DEF ReplyIsWhole, AnswerOf
<1>7. phase' = "answered"
  BY DEF BodyEnds
<1> QED BY <1>1, <1>6, <1>7 DEF StreamInv

LEMMA ReadBytesKeepsReply ==
  ASSUME StreamInv, NEW n \in Nat, ReadBytes(n)
  PROVE  StreamInv'
<1>1. phase = "reading" /\ phase' = "reading" /\ arrived + n <= Len(reply.lines)
      /\ arrived' = arrived + n /\ stalled' = FALSE /\ provider' = provider
      /\ attempt' = attempt /\ reply' = reply /\ cutOff' = cutOff /\ answer' = answer
  BY DEF ReadBytes
<1>2. Reading
  BY <1>1 DEF StreamInv
<1>3. arrived' \in 0..Len(reply.lines) /\ cutOff \in 0..arrived'
  BY <1>1, <1>2 DEF Reading
<1>4. Reading'
  BY <1>1, <1>2, <1>3 DEF Reading, Collected, Hidden
<1> QED BY <1>1, <1>4 DEF StreamInv, ReplyIsWhole

(* A call that fails, is asked again or is cancelled has no answer. *)
LEMMA OthersKeepReply ==
  ASSUME StreamInv, \/ \E prompt \in Prompts : Refused(prompt)
                    \/ ReplyBreaks \/ AskAgain \/ CallCancelled
  PROVE  StreamInv'
<1>1. phase' \notin {"reading", "answered"} /\ provider' = provider
      /\ attempt' \in {attempt, attempt + 1}
  BY DEF Refused, ReplyBreaks, AskAgain, CallCancelled, Fails
<1> QED BY <1>1 DEF StreamInv, ReplyIsWhole

LEMMA StreamInvStep == StreamInv /\ [StreamingNext]_streamVars => StreamInv'
<1> SUFFICES ASSUME StreamInv, [StreamingNext]_streamVars PROVE StreamInv'
  OBVIOUS
<1>1. ASSUME NEW prompt \in Prompts, NEW r \in Reply(provider),
             ConnectProvider(prompt, r) \/ GoogleReply(prompt, r)
      PROVE  StreamInv'
  BY <1>1, ConnectKeepsReply, GoogleKeepsReply
<1>2. ASSUME NEW n \in 0..MaxReply, ReadBytes(n) PROVE StreamInv'
  <2>1. n \in Nat
    BY StreamingAssumption
  <2> QED BY <1>2, <2>1, ReadBytesKeepsReply
<1>3. CASE \/ \E prompt \in Prompts : Refused(prompt)
           \/ ReplyBreaks \/ AskAgain \/ CallCancelled
  BY <1>3, OthersKeepReply
<1>4. CASE UNCHANGED streamVars
  BY <1>4 DEF streamVars, StreamInv, ReplyIsWhole, Reading, Collected, Hidden, Silent
<1> QED BY <1>1, <1>2, <1>3, <1>4, TakeLineKeepsReply, BodyEndKeepsReply DEF StreamingNext

(* A reply that is answered with is whole: its deltas are of the last      *)
(* attempt alone and in the order they were sent, and a line of text that  *)
(* is missing shared its line with something the loop looks for first, or  *)
(* came after a line that ended the reply or made the loop await bytes.    *)
THEOREM RepliesAreWhole == StreamingSpec => []ReplyIsWhole
<1>1. StreamingInit => StreamInv
  BY DEF StreamingInit, StreamInv, ReplyIsWhole
<1>2. StreamInv => ReplyIsWhole
  BY DEF StreamInv
<1> QED BY <1>1, <1>2, StreamInvStep, PTL DEF StreamingSpec

-----------------------------------------------------------------------------
(* The roles of a prompt but for the system's. *)
LEMMA UnsystematicType ==
  ASSUME NEW prompt \in Seq(Role)
  PROVE  Unsystematic(prompt) \in Seq(Role)
<1>0. PICK n \in Nat : n = Len(prompt)
  OBVIOUS
<1> DEFINE T == Seq(Role)
           more(s, k) == IF prompt[k] # "system" THEN Append(s, prompt[k]) ELSE s
           step == [p \in (1..n) \X T |-> more(p[2], p[1])]
           Rec(g) == [k \in 0..n |->
                        IF k = 0 THEN <<>>
                        ELSE IF prompt[k] # "system" THEN Append(g[k-1], prompt[k]) ELSE g[k-1]]
           kept == CHOOSE g : g = Rec(g)
<1>1. ASSUME NEW k \in 1..n, NEW s \in T PROVE more(s, k) \in T
  <2>1. prompt[k] \in Role
    BY <1>0, SeqElement
  <2> QED BY <2>1, AppendSeq
<1>2. step \in [(1..n) \X T -> T] /\ <<>> \in T
  <2> HIDE DEF more
  <2> QED BY <1>1
<1>3. PICK g : Recursive(g, n, T, <<>>, step)
  <2> HIDE DEF step, T
  <2> QED BY <1>2, RecursionExists
<1>4. g \in [0..n -> T] /\ g[0] = <<>> /\ \A k \in 1..n : g[k] = step[<<k, g[k-1]>>]
  <2> HIDE DEF step, T
  <2> QED BY <1>3 DEF Recursive
<1>5. ASSUME NEW k \in 1..n PROVE g[k] = more(g[k-1], k)
  <2>1. k - 1 \in 0..n
    OBVIOUS
  <2>2. <<k, g[k-1]>> \in (1..n) \X T
    <3> HIDE DEF T, step
    <3> QED BY <1>4, <2>1
  <2> HIDE DEF more, T
  <2> QED BY <1>4, <2>2
<1>6. g = Rec(g)
  <2>1. ASSUME NEW k \in 0..n
        PROVE  g[k] = IF k = 0 THEN <<>>
                      ELSE IF prompt[k] # "system" THEN Append(g[k-1], prompt[k]) ELSE g[k-1]
    <3>1. k # 0 => k \in 1..n
      OBVIOUS
    <3> QED BY <1>4, <1>5, <3>1
  <2>2. g = [k \in 0..n |-> g[k]]
    <3> HIDE DEF T, step
    <3> QED BY <1>4
  <2> QED BY <2>1, <2>2
<1>7. kept = Rec(kept)
  <2> HIDE DEF Rec
  <2> QED BY <1>6
<1>8. \A k \in 0..n : kept[k] = IF k = 0 THEN <<>> ELSE more(kept[k-1], k)
  <2> HIDE DEF kept
  <2> QED BY <1>7
<1>9. kept[0] \in T /\ \A k \in 1..n : kept[k-1] \in T => kept[k] \in T
  <2>1. \A k \in 1..n : kept[k] = more(kept[k-1], k)
    <3> HIDE DEF kept, more
    <3> QED BY <1>8
  <2>2. kept[0] = <<>>
    <3> HIDE DEF kept, more
    <3> QED BY <1>8
  <2> HIDE DEF kept, more, T
  <2> QED BY <1>1, <1>2, <2>1, <2>2
<1>10. \A k \in 0..n : kept[k] \in T
  <2> HIDE DEF kept, T
  <2> QED BY <1>9, StaysIn
<1>11. Unsystematic(prompt) = kept[n]
  BY <1>0 DEF Unsystematic
<1> HIDE DEF kept
<1> QED BY <1>10, <1>11

Turn == Role \cup {"model"}

LEMMA TurnsType ==
  ASSUME NEW p \in Streamer \cup {"google"}, NEW prompt \in Seq(Role)
  PROVE  Turns(p, prompt) \in Seq(Turn)
<1>1. PICK s \in Seq(Role) : s = Unsystematic(prompt)
  BY UnsystematicType
<1>2. PICK l \in Nat : l = Len(s) /\ DOMAIN s = 1..l
  OBVIOUS
<1>3. {"user", "assistant", "model"} \subseteq Turn /\ Role \subseteq Turn
  BY DEF Turn, Role
<1>4. <<"user">> \in Seq(Turn)
  BY <1>3
<1>5. AnthropicTurns(prompt) \in Seq(Turn)
  <2>1. CASE s = <<>>
    BY <1>1, <1>4, <2>1 DEF AnthropicTurns
  <2>2. CASE s # <<>>
    <3> DEFINE t == [i \in DOMAIN s |-> IF s[i] = "assistant" THEN "assistant" ELSE "user"]
    <3>1. t \in [1..l -> Turn]
      BY <1>2, <1>3
    <3>2. t \in Seq(Turn)
      BY <3>1
    <3> QED BY <1>1, <2>2, <3>2 DEF AnthropicTurns
  <2> QED BY <2>1, <2>2
<1>6. GoogleTurns(prompt) \in Seq(Turn)
  <2> DEFINE t == [i \in DOMAIN s |-> IF s[i] = "assistant" THEN "model" ELSE "user"]
  <2>1. t \in [1..l -> Turn]
    BY <1>2, <1>3
  <2>2. t \in Seq(Turn)
    BY <2>1
  <2> QED BY <1>1, <2>2 DEF GoogleTurns
<1>7. prompt \in Seq(Turn)
  BY <1>3
<1>8. CASE p = "openai"
  BY <1>7, <1>8 DEF Turns, OpenAITurns
<1>9. CASE p = "ollama"
  BY <1>7, <1>9 DEF Turns, OllamaTurns
<1>10. CASE p = "anthropic"
  BY <1>5, <1>10 DEF Turns
<1>11. CASE p = "google"
  BY <1>6, <1>11 DEF Turns
<1> QED BY <1>8, <1>9, <1>10, <1>11 DEF Streamer

(* The attempts there may be, and the places of a delta: the last is that  *)
(* of a line that is not closed.                                           *)
Tries == 1 .. MaxRetries + 1
Spots == 1 .. MaxReply + 1

DeltasTyped == /\ answer \in Seq(Tries \X Spots) /\ toolCalls \in Seq(Seq(Spots))
               /\ metered \in BOOLEAN

StreamTyped ==
  /\ phase \in {"ask", "reading", "retry", "answered", "failed", "cancelled"}
  /\ attempt \in 0 .. MaxRetries + 1
  /\ phase \in {"ask", "retry"} => attempt <= MaxRetries
  /\ phase = "reading" => attempt > 0
  /\ turnsSent \in Seq(Turn)
  /\ Len(reply.lines) \in 0 .. MaxReply
  /\ arrived \in 0 .. Len(reply.lines) /\ cutOff \in 0 .. arrived /\ stalled \in BOOLEAN
  /\ DeltasTyped

(* A reply has no more lines than are considered. *)
LEMMA ReplyLength == ASSUME NEW p, NEW r \in Reply(p) PROVE Len(r.lines) \in 0 .. MaxReply
<1>1. r.lines \in BoundedSeq(LineOf[p], MaxReply)
  BY DEF Reply
<1>2. PICK m \in 0..MaxReply : r.lines \in [1..m -> LineOf[p]]
  BY <1>1 DEF BoundedSeq, SeqOf
<1>3. m \in Nat
  BY <1>2, StreamingAssumption
<1>4. Len(r.lines) = m
  BY <1>2, <1>3
<1> QED BY <1>2, <1>4

LEMMA RequestType ==
  ASSUME provider \in Streamer \cup {"google"}, NEW prompt \in Prompts, Request(prompt)
  PROVE  turnsSent' \in Seq(Turn)
<1>1. prompt \in Seq(Role)
  BY StreamingAssumption
<1> QED BY <1>1, TurnsType DEF Request

(* What is collected of an attempt are deltas of it. *)
LEMMA CollectType ==
  ASSUME DeltasTyped, attempt \in Tries, NEW what, NEW place,
         what \in {"text", "call"} => place \in Spots,
         Collect(what, place)
  PROVE  DeltasTyped'
<1>1. PICK P : P = Spots
  OBVIOUS
<1>2. PICK D : D = Tries \X Spots
  OBVIOUS
<1>3. answer' \in Seq(D)
  <2>1. what = "text" => <<attempt, place>> \in D
    BY <1>2
  <2>2. answer \in Seq(D)
    BY <1>2 DEF DeltasTyped
  <2> QED BY <2>1, <2>2, AppendSeq DEF Collect
<1>4. toolCalls' \in Seq(Seq(P))
  <2>1. toolCalls \in Seq(Seq(P))
    BY <1>1 DEF DeltasTyped
  <2>2. CASE what = "call"
    <3>1. place \in P /\ AddCall(place)
      BY <1>1, <2>2 DEF Collect
    <3>2. PICK Q : Q = Seq(P)
      OBVIOUS
    <3>3. <<place>> \in Q
      BY <3>1, <3>2
    <3>4. CASE toolCalls = <<>>
      <4>1. toolCalls' = << <<place>> >>
        BY <3>1, <3>4 DEF AddCall
      <4>2. PICK t : t = <<place>>
        OBVIOUS
      <4>3. << t >> \in Seq(Q)
        BY <3>3, <4>2
      <4> QED BY <3>2, <4>1, <4>2, <4>3
    <3>5. CASE toolCalls # <<>>
      <4>1. PICK t : t = Append(toolCalls[1], place)
        OBVIOUS
      <4>2. toolCalls' = [toolCalls EXCEPT ![1] = t]
        BY <3>1, <3>5, <4>1 DEF AddCall
      <4>3. toolCalls \in Seq(Q) /\ Len(toolCalls) \in Nat
            /\ DOMAIN toolCalls = 1..Len(toolCalls) /\ 1 \in DOMAIN toolCalls
        BY <2>1, <3>2, <3>5
      <4>4. toolCalls[1] \in Seq(P)
        BY <3>2, <4>3, SeqElement
      <4>5. t \in Q
        BY <3>1, <3>2, <4>1, <4>4, AppendSeq
      <4>6. toolCalls' \in Seq(Q)
        BY <4>2, <4>3, <4>5
      <4> QED BY <3>2, <4>6
    <3> QED BY <3>4, <3>5
  <2>3. CASE what # "call"
    BY <2>1, <2>3 DEF Collect
  <2> QED BY <2>2, <2>3
<1>5. metered' \in BOOLEAN
  BY DEF Collect, DeltasTyped
<1> QED BY <1>1, <1>2, <1>3, <1>4, <1>5 DEF DeltasTyped

-----------------------------------------------------------------------------
(* What is listed are places in the reply. *)
LEMMA ListedAreSpots ==
  ASSUME NEW r, NEW what, Len(r.lines) \in 0 .. MaxReply
  PROVE  \E s \in Seq(Spots) : s = Places(r, what)
<1>1. PICK n \in Nat : n = Len(r.lines) /\ n <= MaxReply
  BY StreamingAssumption
<1>2. PICK s : s = Places(r, what)
  OBVIOUS
<1>3. s \in Seq(Nat) /\ \A k \in DOMAIN s : s[k] \in 1..n
  BY <1>1, <1>2, PlacesListed DEF ListsTo
<1>4. PICK l \in Nat : DOMAIN s = 1..l /\ s = [k \in 1..l |-> s[k]]
  BY <1>3
<1>5. \A k \in 1..l : s[k] \in Spots
  BY <1>1, <1>3, <1>4, StreamingAssumption DEF Spots
<1>6. PICK P : P = Spots
  OBVIOUS
<1>7. s \in [1..l -> P]
  BY <1>4, <1>5, <1>6
<1>8. s \in Seq(P)
  BY <1>7
<1> QED BY <1>2, <1>6, <1>8

LEMMA AskingKeepsTypes ==
  ASSUME StreamInv, StreamTyped, phase = "ask", NEW prompt \in Prompts, NEW r \in Reply(provider),
         ConnectProvider(prompt, r) \/ GoogleReply(prompt, r)
  PROVE  StreamTyped'
<1>1. /\ turnsSent' \in Seq(Turn) /\ attempt' = attempt + 1 /\ attempt' \in Tries
      /\ attempt' \in 0 .. MaxRetries + 1 /\ attempt' > 0
  <2>1. turnsSent' \in Seq(Turn)
    BY RequestType DEF ConnectProvider, GoogleReply, StreamInv
  <2>2. attempt \in 0 .. MaxRetries + 1 /\ attempt <= MaxRetries /\ MaxRetries \in Nat
    BY StreamingAssumption DEF StreamTyped
  <2>3. attempt' = attempt + 1
    BY DEF ConnectProvider, GoogleReply
  <2> QED BY <2>1, <2>2, <2>3 DEF Tries
<1>2. Len(r.lines) \in 0 .. MaxReply /\ MaxReply \in Nat
  BY ReplyLength, StreamingAssumption
<1>3. CASE ConnectProvider(prompt, r)
  <2>1. /\ phase' = "reading" /\ reply' = r /\ arrived' = 0 /\ cutOff' = 0
        /\ stalled' = FALSE /\ StartAnswer
    BY <1>3 DEF ConnectProvider
  <2>2. DeltasTyped'
    <3>1. <<>> \in Seq(Tries \X Spots) /\ <<>> \in Seq(Seq(Spots))
      OBVIOUS
    <3> QED BY <2>1, <3>1 DEF StartAnswer, DeltasTyped
  <2>3. 0 \in 0..Len(r.lines) /\ 0 \in 0..0
    BY <1>2
  <2> QED BY <1>1, <1>2, <2>1, <2>2, <2>3 DEF StreamTyped
<1>4. CASE GoogleReply(prompt, r)
  <2>1. PICK texts \in Seq(Spots) : texts = Places(r, "text")
    BY <1>2, ListedAreSpots
  <2>2. PICK calls \in Seq(Spots) : calls = Places(r, "call")
    BY <1>2, ListedAreSpots
  <2>3. /\ phase' = "answered" /\ reply' = r /\ arrived' = Len(r.lines)
        /\ cutOff' = Len(r.lines) /\ stalled' = FALSE /\ metered' = TRUE
        /\ answer' = [i \in DOMAIN texts |-> <<attempt', texts[i]>>]
        /\ toolCalls' = [i \in DOMAIN calls |-> <<calls[i]>>]
    BY <1>4, <2>1, <2>2 DEF GoogleReply
  <2>4. answer' \in Seq(Tries \X Spots)
    <3>1. PICK D : D = Tries \X Spots
      OBVIOUS
    <3>2. PICK l \in Nat : DOMAIN texts = 1..l
      BY <2>1
    <3>3. \A k \in 1..l : texts[k] \in Spots
      BY <2>1, <3>2, SeqElement
    <3>4. \A k \in 1..l : <<attempt', texts[k]>> \in D
      BY <1>1, <3>1, <3>3
    <3>5. answer' \in [1..l -> D]
      BY <2>3, <3>2, <3>4
    <3>6. answer' \in Seq(D)
      BY <3>5
    <3> QED BY <3>1, <3>6
  <2>5. toolCalls' \in Seq(Seq(Spots))
    <3>1. PICK Q : Q = Seq(Spots)
      OBVIOUS
    <3>2. PICK l \in Nat : DOMAIN calls = 1..l
      BY <2>2
    <3>3. \A k \in 1..l : calls[k] \in Spots
      BY <2>2, <3>2, SeqElement
    <3>4. ASSUME NEW k \in 1..l PROVE <<calls[k]>> \in Q
      BY <3>1, <3>3
    <3>5. toolCalls' \in [1..l -> Q]
      BY <2>3, <3>2, <3>4
    <3>6. toolCalls' \in Seq(Q)
      BY <3>5
    <3> QED BY <3>1, <3>6
  <2>6. DeltasTyped'
    BY <2>3, <2>4, <2>5 DEF DeltasTyped
  <2>7. arrived' \in 0..Len(r.lines) /\ cutOff' \in 0..arrived'
    BY <1>2, <2>3
  <2> QED BY <1>1, <1>2, <2>3, <2>6, <2>7 DEF StreamTyped
<1> QED BY <1>3, <1>4

LEMMA ReadingKeepsTypes ==
  ASSUME StreamInv, StreamTyped, TakeLine \/ BodyEnds \/ \E n \in 0 .. MaxReply : ReadBytes(n)
  PROVE  StreamTyped'
<1>1. phase = "reading" /\ Reading /\ attempt \in Tries /\ DeltasTyped
  <2>1. phase = "reading"
    BY DEF TakeLine, BodyEnds, ReadBytes
  <2>2. attempt \in Tries
    BY <2>1, StreamingAssumption DEF StreamTyped, Tries
  <2> QED BY <2>1, <2>2 DEF StreamInv, StreamTyped
<1>2. /\ MaxReply \in Nat /\ Len(reply.lines) \in 0 .. MaxReply
      /\ arrived \in 0 .. Len(reply.lines) /\ cutOff \in 0 .. arrived
  BY StreamingAssumption DEF StreamTyped
<1>3. CASE TakeLine
  <2>1. PICK n : n = cutOff + 1
    OBVIOUS
  <2>2. PICK what : what = Yields(provider, reply.lines[n])
    OBVIOUS
  <2>3. /\ cutOff < arrived /\ cutOff' = n /\ Collect(what, n)
        /\ phase' \in {"reading", "answered"}
        /\ stalled' = StallsAfter(reply.lines[n])
        /\ UNCHANGED <<attempt, turnsSent, reply, arrived>>
    BY <1>1, <1>3, <2>1, <2>2 DEF TakeLine
  <2>4. n \in Spots /\ n \in 0 .. arrived
    BY <1>2, <2>1, <2>3 DEF Spots
  <2>5. DeltasTyped'
    BY <1>1, <2>3, <2>4, CollectType
  <2>6. stalled' \in BOOLEAN
    BY <2>3 DEF StallsAfter
  <2> QED BY <1>1, <2>3, <2>4, <2>5, <2>6 DEF StreamTyped
<1>4. CASE BodyEnds
  <2>1. PICK what : what = LastWord
    OBVIOUS
  <2>2. PICK place : place = IF what = "end" THEN 0 ELSE TailPlace
    OBVIOUS
  <2>3. /\ Collect(what, place) /\ phase' = "answered"
        /\ UNCHANGED <<attempt, turnsSent, reply, arrived, cutOff, stalled>>
    BY <1>4, <2>1, <2>2 DEF BodyEnds
  <2>4. ASSUME what \in {"text", "call"} PROVE place \in Spots
    <3>1. Cardinality(Rest) = 1
      BY <2>1, <2>4 DEF LastWord, OllamaTail
    <3>2. Rest # {}
      BY <3>1, FS_EmptySet
    <3>3. place \in Rest
      BY <2>2, <2>4, <3>2 DEF TailPlace
    <3>4. Len(Bytes) = Len(reply.lines) + 1
      <4>1. PICK T : T = LineOf[provider] \cup {reply.tail}
        OBVIOUS
      <4>2. reply.lines \in Seq(T) /\ reply.tail \in T
        BY <1>1, <4>1 DEF Reading
      <4> QED BY <4>2 DEF Bytes
    <3> QED BY <1>2, <3>3, <3>4 DEF Rest, Spots
  <2>5. DeltasTyped'
    BY <1>1, <2>3, <2>4, CollectType
  <2> QED BY <1>1, <2>3, <2>5 DEF StreamTyped
<1>5. ASSUME NEW n \in 0 .. MaxReply, ReadBytes(n) PROVE StreamTyped'
  <2>1. /\ arrived + n <= Len(reply.lines) /\ arrived' = arrived + n /\ stalled' = FALSE
        /\ UNCHANGED <<phase, attempt, turnsSent, reply, cutOff, answer, toolCalls, metered>>
    BY <1>5 DEF ReadBytes
  <2>2. arrived' \in 0 .. Len(reply.lines) /\ cutOff \in 0 .. arrived'
    BY <1>2, <2>1
  <2>3. DeltasTyped'
    BY <1>1, <2>1 DEF DeltasTyped
  <2> QED BY <2>1, <2>2, <2>3 DEF StreamTyped
<1> QED BY <1>3, <1>4, <1>5

LEMMA FailingKeepsTypes ==
  ASSUME StreamInv, StreamTyped,
         \/ \E prompt \in Prompts : phase = "ask" /\ Refused(prompt)
         \/ ReplyBreaks \/ AskAgain \/ CallCancelled
  PROVE  StreamTyped'
<1>1. MaxRetries \in Nat /\ MaxReply \in Nat /\ attempt \in 0 .. MaxRetries + 1
  BY StreamingAssumption DEF StreamTyped
<1>2. DeltasTyped'
  BY DEF Refused, ReplyBreaks, AskAgain, CallCancelled, StreamTyped, DeltasTyped
<1>3. turnsSent' \in Seq(Turn)
  <2>1. ASSUME NEW prompt \in Prompts, Refused(prompt) PROVE turnsSent' \in Seq(Turn)
    BY <2>1, RequestType DEF Refused, StreamInv
  <2>2. CASE ReplyBreaks \/ AskAgain \/ CallCancelled
    BY <2>2 DEF ReplyBreaks, AskAgain, CallCancelled, StreamTyped
  <2> QED BY <2>1, <2>2
<1>4. CASE Fails
  <2>1. /\ phase' = IF MayRetry THEN "retry" ELSE "failed"
        /\ reply' = NoReply /\ arrived' = 0 /\ cutOff' = 0 /\ stalled' = FALSE
    BY <1>4 DEF Fails
  <2>2. attempt' \in 0 .. MaxRetries + 1
    <3>1. ASSUME NEW prompt \in Prompts, phase = "ask", Refused(prompt)
          PROVE  attempt' \in 0 .. MaxRetries + 1
      BY <1>1, <3>1 DEF Refused, StreamTyped
    <3>2. CASE ReplyBreaks \/ AskAgain \/ CallCancelled
      BY <1>1, <3>2 DEF ReplyBreaks, AskAgain, CallCancelled
    <3> QED BY <3>1, <3>2
  <2>3. Len(reply'.lines) = 0
    BY <2>1 DEF NoReply
  <2>4. phase' = "retry" => attempt' <= MaxRetries
    BY <2>1 DEF MayRetry
  <2>5. phase' \in {"retry", "failed"}
    BY <2>1
  <2>6. Len(reply'.lines) \in 0 .. MaxReply /\ 0 \in 0 .. Len(reply'.lines) /\ 0 \in 0..0
    BY <1>1, <2>3
  <2> QED BY <1>2, <1>3, <2>1, <2>2, <2>4, <2>5, <2>6 DEF StreamTyped
<1>5. CASE AskAgain
  BY <1>2, <1>3, <1>5 DEF AskAgain, StreamTyped
<1>6. CASE CallCancelled
  BY <1>2, <1>3, <1>6 DEF CallCancelled, StreamTyped
<1> QED BY <1>4, <1>5, <1>6 DEF Refused, ReplyBreaks

(* What a call keeps of a reply keeps its shape, whatever the provider and *)
(* however often it is asked: no attempt beyond the last retry, no delta   *)
(* from outside the bytes that came, no turn of a role that is not sent.   *)
THEOREM StreamingTypes == StreamingSpec => []StreamingTypeOK
<1>1. StreamingInit => StreamInv /\ StreamTyped
  <2> SUFFICES ASSUME StreamingInit PROVE StreamInv /\ StreamTyped
    OBVIOUS
  <2>1. StreamInv
    BY DEF StreamingInit, StreamInv, ReplyIsWhole
  <2>2. DeltasTyped
    <3>1. <<>> \in Seq(Tries \X Spots) /\ <<>> \in Seq(Seq(Spots))
      OBVIOUS
    <3> QED BY <3>1 DEF StreamingInit, DeltasTyped
  <2>3. MaxRetries \in Nat /\ MaxReply \in Nat /\ <<>> \in Seq(Turn)
    BY StreamingAssumption
  <2>4. Len(reply.lines) = 0
    BY DEF StreamingInit, NoReply
  <2>5. 0 \in 0 .. MaxRetries + 1 /\ 0 <= MaxRetries /\ 0 \in 0..MaxReply /\ 0 \in 0..0
    BY <2>3
  <2> QED BY <2>1, <2>2, <2>3, <2>4, <2>5 DEF StreamingInit, StreamTyped
<1>2. StreamInv /\ StreamTyped /\ [StreamingNext]_streamVars => (StreamInv /\ StreamTyped)'
  <2> SUFFICES ASSUME StreamInv, StreamTyped, [StreamingNext]_streamVars
               PROVE  StreamTyped'
    BY StreamInvStep
  <2>1. CASE UNCHANGED streamVars
    BY <2>1 DEF streamVars, StreamTyped, DeltasTyped
  <2>2. ASSUME NEW prompt \in Prompts, NEW r \in Reply(provider), phase = "ask",
               ConnectProvider(prompt, r) \/ GoogleReply(prompt, r)
        PROVE  StreamTyped'
    BY <2>2, AskingKeepsTypes
  <2>3. ASSUME NEW prompt \in Prompts, Refused(prompt) PROVE StreamTyped'
    <3>1. phase = "ask"
      BY <2>3 DEF Refused
    <3> QED BY <2>3, <3>1, FailingKeepsTypes
  <2> QED BY <2>1, <2>2, <2>3, ReadingKeepsTypes, FailingKeepsTypes DEF StreamingNext
<1>3. StreamInv /\ StreamTyped => StreamingTypeOK
  BY DEF StreamInv, StreamTyped, DeltasTyped, StreamingTypeOK, Turn, Tries, Spots
<1> QED BY <1>1, <1>2, <1>3, PTL DEF StreamingSpec

---------------------------------------------------------------------------
(* Cost. A reservation is written under the lock that its sums were read *)
(* under (ReaderHoldsLock), so that the sums a caller has read are still *)
(* the ledger's when it writes, but for what adjustments add, which the  *)
(* overrun counts (Seen). Months are sums over days: Booked says what    *)
(* one entry does to them.                                               *)

CallRow == [at: {"idle", "locking", "read", "calling"}, account: Account, daily: Int, monthly: Int]

LEMMA DaysAreCounted == Cardinality(Day) \in Nat /\ Day = 1..Cardinality(Day) /\ 1 \in Day
BY CostAssumption, FS_CardinalityType

LEMMA MonthIsSum ==
  ASSUME NEW days
  PROVE  MonthOf(days) = SumTo(days, Cardinality(Day))
BY DEF MonthOf, SumTo

(* x more on a day of an account is x more in the month of that account,   *)
(* and nothing in the month of another.                                    *)
Booked(f, g, a, d, x) ==
  \A b \in Account :
    /\ \A e \in Day : g[b][e] = IF b = a /\ e = d THEN f[b][e] + x ELSE f[b][e]
    /\ MonthOf(f[b]) \in Int
    /\ MonthOf(g[b]) = IF b = a THEN MonthOf(f[b]) + x ELSE MonthOf(f[b])

LEMMA MonthType ==
  ASSUME NEW days \in [Day -> Int]
  PROVE  MonthOf(days) \in Int
<1>1. PICK n \in Nat : n = Cardinality(Day) /\ Day = 1..n
  BY DaysAreCounted
<1>2. Terms(days, n)
  BY <1>1 DEF Terms
<1> QED BY <1>1, <1>2, SumToType, MonthIsSum

LEMMA BookingMoves ==
  ASSUME NEW f \in [Account -> [Day -> Int]], NEW a \in Account, NEW d \in Day, NEW x \in Int,
         NEW g, g = [f EXCEPT ![a][d] = @ + x]
  PROVE  g \in [Account -> [Day -> Int]] /\ Booked(f, g, a, d, x)
<1>1. g \in [Account -> [Day -> Int]]
  OBVIOUS
<1>2. \A b \in Account : \A e \in Day :
        g[b][e] = IF b = a /\ e = d THEN f[b][e] + x ELSE f[b][e]
  OBVIOUS
<1>3. \A b \in Account : MonthOf(f[b]) \in Int
  BY MonthType
<1>4. MonthOf(g[a]) = MonthOf(f[a]) + x
  <2>1. PICK n \in Nat : n = Cardinality(Day) /\ Day = 1..n
    BY DaysAreCounted
  <2>2. PICK h : h = f[a]
    OBVIOUS
  <2>3. PICK k : k = g[a]
    OBVIOUS
  <2>4. Terms(h, n)
    BY <2>1, <2>2 DEF Terms
  <2>5. DifferAt(h, k, d, x, n)
    BY <1>2, <2>1, <2>2, <2>3 DEF DifferAt
  <2>6. SumTo(k, n) = SumTo(h, n) + x
    BY <2>1, <2>4, <2>5, SumToChange
  <2> QED BY <2>1, <2>2, <2>3, <2>6, MonthIsSum
<1>5. ASSUME NEW b \in Account, b # a PROVE MonthOf(g[b]) = MonthOf(f[b])
  <2>1. g[b] = f[b]
    BY <1>5
  <2> QED BY <2>1
<1> QED BY <1>1, <1>2, <1>3, <1>4, <1>5 DEF Booked

LEMMA MonthOfNat ==
  ASSUME NEW days \in [Day -> Nat]
  PROVE  MonthOf(days) \in Nat
<1>1. PICK n \in Nat : n = Cardinality(Day) /\ Day = 1..n
  BY DaysAreCounted
<1>2. \A k \in 1..n : days[k] \in Nat
  BY <1>1
<1> QED BY <1>1, <1>2, SumToNat, MonthIsSum

-----------------------------------------------------------------------------
(* The calls of an account that are on their way.                          *)
CallsOf(c, a) == {r \in Caller : c[r].at = "calling" /\ c[r].account = a}

(* The call of r is given a new state, and no other is.                    *)
Moves(c, e, r, at, a, daily, monthly) ==
  /\ e \in [Caller -> CallRow]
  /\ e[r].at = at /\ e[r].account = a /\ e[r].daily = daily /\ e[r].monthly = monthly
  /\ \A q \in Caller : q # r => e[q] = c[q]

Finite(c) == \A b \in Account : IsFiniteSet(CallsOf(c, b))

LEMMA CallsUnmoved ==
  ASSUME NEW c \in [Caller -> CallRow], NEW e, NEW r \in Caller, NEW at, NEW a, NEW daily, NEW monthly,
         Moves(c, e, r, at, a, daily, monthly), at # "calling", c[r].at # "calling", NEW b
  PROVE  CallsOf(e, b) = CallsOf(c, b)
<1>1. \A q \in Caller : q \in CallsOf(e, b) <=> q \in CallsOf(c, b)
  BY DEF CallsOf, Moves
<1> QED BY <1>1 DEF CallsOf

LEMMA CallBegins ==
  ASSUME NEW c \in [Caller -> CallRow], NEW e, NEW r \in Caller, NEW a, NEW daily, NEW monthly,
         Moves(c, e, r, "calling", a, daily, monthly), c[r].at # "calling", Finite(c),
         NEW b \in Account
  PROVE  /\ IsFiniteSet(CallsOf(e, b)) /\ Cardinality(CallsOf(c, b)) \in Nat
         /\ Cardinality(CallsOf(e, b)) =
              IF b = a THEN Cardinality(CallsOf(c, b)) + 1 ELSE Cardinality(CallsOf(c, b))
<1>1. IsFiniteSet(CallsOf(c, b)) /\ Cardinality(CallsOf(c, b)) \in Nat /\ r \notin CallsOf(c, b)
  BY FS_CardinalityType DEF Finite, CallsOf
<1>2. CASE b = a
  <2>1. CallsOf(e, b) = CallsOf(c, b) \cup {r}
    BY <1>2 DEF CallsOf, Moves
  <2> QED BY <1>1, <1>2, <2>1, FS_AddElement
<1>3. CASE b # a
  <2>1. CallsOf(e, b) = CallsOf(c, b)
    BY <1>3 DEF CallsOf, Moves
  <2> QED BY <1>1, <1>3, <2>1
<1> QED BY <1>2, <1>3

LEMMA CostCallEnds ==
  ASSUME NEW c \in [Caller -> CallRow], NEW e, NEW r \in Caller, NEW at, NEW a, NEW daily, NEW monthly,
         Moves(c, e, r, at, a, daily, monthly), at # "calling", c[r].at = "calling", Finite(c),
         NEW b \in Account
  PROVE  /\ IsFiniteSet(CallsOf(e, b)) /\ Cardinality(CallsOf(c, b)) \in Nat
         /\ Cardinality(CallsOf(e, b)) =
              IF b = c[r].account THEN Cardinality(CallsOf(c, b)) - 1 ELSE Cardinality(CallsOf(c, b))
<1>1. IsFiniteSet(CallsOf(c, b)) /\ Cardinality(CallsOf(c, b)) \in Nat
  BY FS_CardinalityType DEF Finite
<1>2. CASE b = c[r].account
  <2>1. r \in CallsOf(c, b) /\ CallsOf(e, b) = CallsOf(c, b) \ {r}
    BY <1>2 DEF CallsOf, Moves
  <2> QED BY <1>1, <1>2, <2>1, FS_RemoveElement
<1>3. CASE b # c[r].account
  <2>1. CallsOf(e, b) = CallsOf(c, b)
    BY <1>3 DEF CallsOf, Moves
  <2> QED BY <1>1, <1>3, <2>1
<1> QED BY <1>2, <1>3

LEMMA StatusOf ==
  ASSUME NEW c \in [Caller -> CallRow], NEW r \in Caller
  PROVE  /\ c[r] \in CallRow /\ c[r].account \in Account /\ c[r].daily \in Int
         /\ c[r].monthly \in Int /\ c[r].at \in {"idle", "locking", "read", "calling"}
BY DEF CallRow

LEMMA QuietIsStatus ==
  /\ Quiet \in CallRow /\ Quiet.at = "idle" /\ Quiet.daily = 0 /\ Quiet.monthly = 0
  /\ Quiet.account \in Account
BY CostAssumption DEF Quiet, CallRow

LEMMA TurnsQuiet ==
  ASSUME NEW c \in [Caller -> CallRow], NEW r \in Caller, NEW e, e = [c EXCEPT ![r] = Quiet]
  PROVE  Moves(c, e, r, "idle", Quiet.account, 0, 0)
BY QuietIsStatus DEF Moves

LEMMA TurnsTo ==
  ASSUME NEW c \in [Caller -> CallRow], NEW r \in Caller, NEW e, NEW s \in CallRow,
         e = [c EXCEPT ![r] = s]
  PROVE  Moves(c, e, r, s.at, s.account, s.daily, s.monthly)
BY DEF Moves

LEMMA TurnsLocking ==
  ASSUME NEW c \in [Caller -> CallRow], NEW r \in Caller, NEW e, NEW a \in Account,
         e = [c EXCEPT ![r] = [Quiet EXCEPT !.at = "locking", !.account = a]]
  PROVE  Moves(c, e, r, "locking", a, 0, 0)
<1>1. PICK q \in CallRow : q = Quiet /\ q.daily = 0 /\ q.monthly = 0
  BY QuietIsStatus
<1>2. PICK s : s = [q EXCEPT !.at = "locking", !.account = a]
  OBVIOUS
<1>3. s \in CallRow /\ s.at = "locking" /\ s.account = a /\ s.daily = 0 /\ s.monthly = 0
  BY <1>1, <1>2 DEF CallRow
<1>4. e = [c EXCEPT ![r] = s]
  BY <1>1, <1>2
<1>5. Moves(c, e, r, s.at, s.account, s.daily, s.monthly)
  BY <1>3, <1>4, TurnsTo
<1> QED BY <1>3, <1>5

LEMMA TurnsSums ==
  ASSUME NEW c \in [Caller -> CallRow], NEW r \in Caller, NEW e,
         NEW at \in {"read", "calling"}, NEW daily \in Int, NEW monthly \in Int,
         e = [c EXCEPT ![r].at = at, ![r].daily = daily, ![r].monthly = monthly]
  PROVE  Moves(c, e, r, at, c[r].account, daily, monthly)
<1>1. PICK s : s = [c[r] EXCEPT !.at = at, !.daily = daily, !.monthly = monthly]
  OBVIOUS
<1>2. /\ s \in CallRow /\ s.at = at /\ s.account = c[r].account /\ s.daily = daily
      /\ s.monthly = monthly
  BY <1>1, StatusOf DEF CallRow
<1>3. e = [c EXCEPT ![r] = s]
  BY <1>1
<1> QED BY <1>2, <1>3, TurnsTo

-----------------------------------------------------------------------------
(* A caller that has read the sums holds the lock.                         *)
ReaderHoldsLock == \A r \in Caller : call[r].at = "read" => budgetLock = {r}

(* Nothing is booked on a day that has not come.                           *)
DaysToCome ==
  \A a \in Account : \A d \in Day : d > today => ledger[a][d] = 0 /\ overrun[a][d] = 0

Under(l, o) ==
  \A a \in Account :
    /\ \A d \in Day : l[a][d] < DailyCap + o[a][d]
    /\ MonthOf(l[a]) < MonthlyCap + MonthOf(o[a])

(* What a caller has read still bounds the sums it will be compared with:  *)
(* the only ones who book meanwhile are those that adjust, and the sum of  *)
(* a day that has begun since is zero.                                     *)
Seen(c, l, o, t) ==
  \A r \in Caller : c[r].at = "read" =>
    /\ \/ l[c[r].account][t] - o[c[r].account][t] <= c[r].daily
       \/ l[c[r].account][t] - o[c[r].account][t] <= 0
    /\ MonthOf(l[c[r].account]) - MonthOf(o[c[r].account]) <= c[r].monthly

Guarded == ~unread /\ Estimate < DailyCap /\ Estimate < MonthlyCap

Balance(l, c, s, u) ==
  \A a \in Account : MonthOf(l[a]) = s[a] + Estimate * (Cardinality(CallsOf(c, a)) + u[a])

CostInv ==
  /\ CostTypeOK /\ ReaderHoldsLock /\ Finite(call) /\ DaysToCome
  /\ ~unwritten => Balance(ledger, call, spent, unanswered)
  /\ Guarded => Under(ledger, overrun) /\ Seen(call, ledger, overrun, today)

LEMMA TypedState ==
  CostTypeOK <=>
    /\ ledger \in [Account -> [Day -> Int]] /\ today \in Day
    /\ budgetLock \in SUBSET Caller /\ Cardinality(budgetLock) <= 1
    /\ call \in [Caller -> CallRow]
    /\ spent \in [Account -> Nat] /\ unanswered \in [Account -> Nat]
    /\ overrun \in [Account -> [Day -> Nat]]
    /\ unread \in BOOLEAN /\ unwritten \in BOOLEAN
BY DEF CostTypeOK, CallRow

LEMMA LockSizes ==
  Cardinality({}) = 0 /\ \A r : Cardinality({r}) = 1
BY FS_EmptySet, FS_Singleton

LEMMA EstimateTimes ==
  ASSUME NEW k \in Int
  PROVE  Estimate * k \in Int /\ Estimate * (k + 1) = Estimate * k + Estimate
<1>1. Estimate \in Int
  BY CostAssumption
<1> QED BY <1>1

LEMMA CostInvInit ==
  ASSUME CostInit
  PROVE  CostInv
<1>1. today \in Day /\ Estimate \in Nat
  BY CostAssumption DEF CostInit
<1>2. call \in [Caller -> CallRow] /\ \A r \in Caller : call[r].at = "idle"
  BY QuietIsStatus DEF CostInit
<1>3. CostTypeOK
  <2>1. budgetLock \in SUBSET Caller /\ Cardinality(budgetLock) <= 1
    BY LockSizes DEF CostInit
  <2>2. ledger \in [Account -> [Day -> Int]] /\ overrun \in [Account -> [Day -> Nat]]
    BY DEF CostInit
  <2> QED BY <1>1, <1>2, <2>1, <2>2, TypedState DEF CostInit
<1>4. \A a \in Account : CallsOf(call, a) = {}
  BY <1>2 DEF CallsOf
<1>5. \A a \in Account : MonthOf(ledger[a]) = 0 /\ MonthOf(overrun[a]) = 0
  <2>1. PICK n \in Nat : n = Cardinality(Day) /\ Day = 1..n
    BY DaysAreCounted
  <2> TAKE a \in Account
  <2>2. PICK l : l = ledger[a]
    OBVIOUS
  <2>3. PICK o : o = overrun[a]
    OBVIOUS
  <2>4. \A k \in 1..n : l[k] = 0 /\ o[k] = 0
    BY <2>1, <2>2, <2>3 DEF CostInit
  <2>5. SumTo(l, n) = 0 /\ SumTo(o, n) = 0
    BY <2>4, SumToNothing
  <2> QED BY <2>1, <2>2, <2>3, <2>5, MonthIsSum
<1>6. Finite(call)
  BY <1>4, FS_EmptySet DEF Finite
<1>7. Balance(ledger, call, spent, unanswered)
  <2>1. \A a \in Account : Cardinality(CallsOf(call, a)) = 0 /\ spent[a] = 0 /\ unanswered[a] = 0
    BY <1>4, LockSizes DEF CostInit
  <2>2. Estimate * (0 + 0) = 0
    BY <1>1
  <2> QED BY <1>5, <2>1, <2>2 DEF Balance
<1>8. Guarded => Under(ledger, overrun)
  <2>1. DailyCap \in Nat /\ MonthlyCap \in Nat
    BY CostAssumption
  <2>2. \A a \in Account : \A d \in Day : ledger[a][d] = 0 /\ overrun[a][d] = 0
    BY DEF CostInit
  <2> QED BY <1>1, <1>5, <2>1, <2>2 DEF Guarded, Under
<1>9. Seen(call, ledger, overrun, today) /\ ReaderHoldsLock
  BY <1>2 DEF Seen, ReaderHoldsLock
<1>10. DaysToCome
  BY DEF CostInit, DaysToCome
<1> QED BY <1>3, <1>6, <1>7, <1>8, <1>9, <1>10 DEF CostInv

-----------------------------------------------------------------------------
LEMMA BeginCallKeeps ==
  ASSUME CostInv, NEW r \in Caller, NEW a \in Account, BeginCall(r, a)
  PROVE  CostInv'
<1>1. call \in [Caller -> CallRow] /\ call[r].at # "calling"
  BY TypedState DEF CostInv, BeginCall
<1>2. Moves(call, call', r, "locking", a, 0, 0)
  BY <1>1, TurnsLocking DEF BeginCall
<1>3. CostTypeOK'
  BY <1>2, TypedState DEF CostInv, BeginCall, CostTypeOK, Moves, CallRow
<1>4. \A b \in Account : CallsOf(call', b) = CallsOf(call, b)
  BY <1>1, <1>2, CallsUnmoved
<1>5. ReaderHoldsLock' /\ (Guarded => Seen(call', ledger, overrun, today))
  BY <1>2 DEF CostInv, BeginCall, Moves, ReaderHoldsLock, Seen
<1>6. Finite(call') /\ (~unwritten => Balance(ledger, call', spent, unanswered))
  BY <1>4 DEF CostInv, Finite, Balance
<1> QED BY <1>3, <1>5, <1>6 DEF CostInv, BeginCall, DaysToCome, Guarded

LEMMA RefuseCallKeeps ==
  ASSUME CostInv, NEW r \in Caller, RefuseCall(r)
  PROVE  CostInv'
<1>1. call \in [Caller -> CallRow] /\ call[r].at # "calling" /\ budgetLock = {r}
  BY TypedState DEF CostInv, RefuseCall, ReaderHoldsLock
<1>2. Moves(call, call', r, "idle", Quiet.account, 0, 0)
  BY <1>1, TurnsQuiet DEF RefuseCall
<1>3. CostTypeOK'
  BY <1>2, TypedState, LockSizes DEF CostInv, RefuseCall, CostTypeOK, Moves, CallRow
<1>4. \A b \in Account : CallsOf(call', b) = CallsOf(call, b)
  BY <1>1, <1>2, CallsUnmoved
<1>5. ReaderHoldsLock' /\ (Guarded => Seen(call', ledger, overrun, today))
  BY <1>1, <1>2 DEF CostInv, RefuseCall, Moves, ReaderHoldsLock, Seen
<1>6. Finite(call') /\ (~unwritten => Balance(ledger, call', spent, unanswered))
  BY <1>4 DEF CostInv, Finite, Balance
<1> QED BY <1>3, <1>5, <1>6 DEF CostInv, RefuseCall, DaysToCome, Guarded

LEMMA ReadSumsKeeps ==
  ASSUME CostInv, NEW r \in Caller, ReadSums(r)
  PROVE  CostInv'
<1>1. call \in [Caller -> CallRow] /\ call[r].at = "locking" /\ budgetLock = {}
  BY TypedState DEF CostInv, ReadSums
<1>2. PICK a \in Account : a = call[r].account
  BY <1>1, StatusOf
<1>3. ledger[a][today] \in Int /\ MonthOf(ledger[a]) \in Int
  <2>1. ledger \in [Account -> [Day -> Int]] /\ today \in Day
    BY TypedState DEF CostInv
  <2> QED BY <2>1, MonthType
<1>4. \E daily, monthly \in Int :
        /\ Moves(call, call', r, "read", a, daily, monthly)
        /\ \/ daily = ledger[a][today] /\ monthly = MonthOf(ledger[a]) /\ unread' = unread
           \/ unread' = TRUE
  <2>1. \A daily, monthly \in Int : ReadOf(r, daily, monthly) =>
          Moves(call, call', r, "read", a, daily, monthly)
    BY <1>1, <1>2, TurnsSums DEF ReadOf
  <2>2. CASE /\ ReadOf(r, ledger[a][today], MonthOf(ledger[a]))
             /\ UNCHANGED unread
    BY <1>3, <2>1, <2>2
  <2>3. CASE /\ \E daily \in {ledger[a][today], 0}, monthly \in {MonthOf(ledger[a]), 0} :
                  ReadOf(r, daily, monthly)
             /\ unread' = TRUE
    BY <1>3, <2>1, <2>3
  <2> QED BY <1>2, <2>2, <2>3 DEF ReadSums
<1>5. PICK daily \in Int, monthly \in Int :
        /\ Moves(call, call', r, "read", a, daily, monthly)
        /\ \/ daily = ledger[a][today] /\ monthly = MonthOf(ledger[a]) /\ unread' = unread
           \/ unread' = TRUE
  BY <1>4
<1>6. CostTypeOK'
  <2>1. unread' \in BOOLEAN
    BY <1>5, TypedState DEF CostInv
  <2>2. call' \in [Caller -> CallRow]
    BY <1>5 DEF Moves
  <2>3. budgetLock' \in SUBSET Caller /\ Cardinality(budgetLock') <= 1
    <3>1. budgetLock' = {r} /\ Cardinality({r}) = 1
      BY LockSizes DEF ReadSums
    <3>2. Cardinality(budgetLock') = 1
      BY <3>1
    <3>3. budgetLock' \in SUBSET Caller
      BY <3>1
    <3> QED BY <3>2, <3>3
  <2> QED BY <2>1, <2>2, <2>3, TypedState DEF CostInv, ReadSums, CostTypeOK, CallRow
<1>7. \A b \in Account : CallsOf(call', b) = CallsOf(call, b)
  BY <1>1, <1>5, CallsUnmoved
<1>8. \A q \in Caller : call'[q].at = "read" <=> q = r
  BY <1>1, <1>5 DEF Moves, CostInv, ReaderHoldsLock
<1>9. ReaderHoldsLock'
  BY <1>8 DEF ReaderHoldsLock, ReadSums
<1>10. Guarded' => Guarded /\ Seen(call', ledger, overrun, today)
  <2> SUFFICES ASSUME Guarded' PROVE Guarded /\ Seen(call', ledger, overrun, today)
    OBVIOUS
  <2>1. daily = ledger[a][today] /\ monthly = MonthOf(ledger[a]) /\ Guarded
    BY <1>5 DEF Guarded
  <2>2. overrun[a][today] \in Nat /\ MonthOf(overrun[a]) \in Nat
    <3>1. overrun[a] \in [Day -> Nat] /\ today \in Day
      BY TypedState DEF CostInv
    <3> QED BY <3>1, MonthOfNat
  <2>3. call'[r].account = a /\ call'[r].daily = daily /\ call'[r].monthly = monthly
    BY <1>5 DEF Moves
  <2> QED BY <1>3, <1>8, <2>1, <2>2, <2>3 DEF Seen
<1>11. Finite(call') /\ (~unwritten => Balance(ledger, call', spent, unanswered))
  BY <1>7 DEF CostInv, Finite, Balance
<1> QED BY <1>6, <1>9, <1>10, <1>11 DEF CostInv, ReadSums, DaysToCome

LEMMA ReserveKeeps ==
  ASSUME CostInv, NEW r \in Caller, Reserve(r)
  PROVE  CostInv'
<1>1. /\ call \in [Caller -> CallRow] /\ call[r].at = "read" /\ budgetLock = {r}
      /\ Estimate \in Int /\ today \in Day /\ ledger \in [Account -> [Day -> Int]]
  BY TypedState, CostAssumption DEF CostInv, Reserve, ReaderHoldsLock
<1>2. PICK a \in Account : a = call[r].account
  BY <1>1, StatusOf
<1>3. Moves(call, call', r, "calling", a, 0, 0)
  <2>1. PICK z \in Int : z = 0
    OBVIOUS
  <2>2. PICK at \in {"read", "calling"} : at = "calling"
    OBVIOUS
  <2>3. call' = [call EXCEPT ![r].at = at, ![r].daily = z, ![r].monthly = z]
    BY <2>1, <2>2 DEF Reserve
  <2>4. Moves(call, call', r, at, call[r].account, z, z)
    BY <1>1, <2>3, TurnsSums
  <2> QED BY <1>2, <2>1, <2>2, <2>4
<1>4. \/ /\ ledger' \in [Account -> [Day -> Int]]
         /\ Booked(ledger, ledger', a, today, Estimate)
         /\ unwritten' = unwritten
      \/ ledger' = ledger /\ unwritten' = TRUE
  <2>1. CASE Books(a, Estimate) /\ UNCHANGED unwritten
    BY <1>1, <2>1, BookingMoves DEF Books
  <2>2. CASE unwritten' = TRUE /\ UNCHANGED ledger
    BY <2>2
  <2> QED BY <1>2, <2>1, <2>2 DEF Reserve
<1>5. CostTypeOK'
  <2>1. budgetLock' \in SUBSET Caller /\ Cardinality(budgetLock') <= 1
    BY LockSizes DEF Reserve
  <2>2. call' \in [Caller -> CallRow] /\ ledger' \in [Account -> [Day -> Int]]
    BY <1>1, <1>3, <1>4 DEF Moves
  <2>3. unwritten' \in BOOLEAN
    BY <1>4, TypedState DEF CostInv
  <2> QED BY <2>1, <2>2, <2>3, TypedState DEF CostInv, Reserve, CostTypeOK, CallRow
<1>6. \A b \in Account :
        /\ IsFiniteSet(CallsOf(call', b)) /\ Cardinality(CallsOf(call, b)) \in Nat
        /\ Cardinality(CallsOf(call', b)) =
             IF b = a THEN Cardinality(CallsOf(call, b)) + 1 ELSE Cardinality(CallsOf(call, b))
  BY <1>1, <1>3, CallBegins DEF CostInv
<1>7. \A q \in Caller : call'[q].at # "read"
  BY <1>1, <1>3 DEF Moves, CostInv, ReaderHoldsLock
<1>8. ~unwritten' => Balance(ledger', call', spent, unanswered)
  <2> SUFFICES ASSUME ~unwritten', NEW b \in Account
               PROVE  MonthOf(ledger'[b]) =
                        spent[b] + Estimate * (Cardinality(CallsOf(call', b)) + unanswered[b])
    BY DEF Balance
  <2> DEFINE k == Cardinality(CallsOf(call, b)) + unanswered[b]
  <2>1. /\ Booked(ledger, ledger', a, today, Estimate)
        /\ MonthOf(ledger[b]) = spent[b] + Estimate * k
    BY <1>4 DEF CostInv, Balance
  <2>2. spent[b] \in Nat /\ unanswered[b] \in Nat
    BY TypedState DEF CostInv
  <2>3. k \in Int
    BY <1>6, <2>2
  <2>4. CASE b = a
    <3>1. MonthOf(ledger'[b]) = MonthOf(ledger[b]) + Estimate
      BY <2>1, <2>4 DEF Booked
    <3>2. Cardinality(CallsOf(call', b)) + unanswered[b] = k + 1
      BY <1>6, <2>2, <2>4
    <3>3. Estimate * k \in Int /\ Estimate * (k + 1) = Estimate * k + Estimate
      BY <2>3, EstimateTimes
    <3> HIDE DEF k
    <3> QED BY <1>1, <2>1, <2>2, <3>1, <3>2, <3>3
  <2>5. CASE b # a
    <3>1. MonthOf(ledger'[b]) = MonthOf(ledger[b])
      BY <2>1, <2>5 DEF Booked
    <3>2. Cardinality(CallsOf(call', b)) = Cardinality(CallsOf(call, b))
      BY <1>6, <2>5
    <3> QED BY <2>1, <3>1, <3>2
  <2> QED BY <2>4, <2>5
<1>9. DaysToCome'
  <2>1. ASSUME NEW b \in Account, NEW d \in Day, d > today
        PROVE  ledger'[b][d] = ledger[b][d]
    <3>1. d # today
      BY <1>1, <2>1, DaysAreCounted
    <3> QED BY <1>4, <3>1 DEF Booked
  <2>2. today' = today /\ overrun' = overrun
    BY DEF Reserve
  <2> QED BY <2>1, <2>2 DEF DaysToCome, CostInv
<1>10. Guarded' => Under(ledger', overrun)
  <2> SUFFICES ASSUME Guarded', Booked(ledger, ledger', a, today, Estimate)
               PROVE  Under(ledger', overrun)
    BY <1>4 DEF Guarded, CostInv, Reserve
  <2>1. Guarded /\ Under(ledger, overrun) /\ Seen(call, ledger, overrun, today)
    BY DEF Guarded, CostInv, Reserve
  <2>2. /\ DailyCap \in Nat /\ MonthlyCap \in Nat /\ Estimate \in Nat
        /\ Estimate < DailyCap /\ Estimate < MonthlyCap
    BY <2>1, CostAssumption DEF Guarded
  <2>3. call[r].daily + Estimate < DailyCap /\ call[r].monthly + Estimate < MonthlyCap
    BY <1>1, <2>2, StatusOf DEF Reserve, Exceeds
  <2>4. /\ \A b \in Account, d \in Day : ledger[b][d] \in Int /\ overrun[b][d] \in Nat
        /\ \A b \in Account : MonthOf(ledger[b]) \in Int /\ MonthOf(overrun[b]) \in Nat
    <3>1. overrun \in [Account -> [Day -> Nat]]
      BY TypedState DEF CostInv
    <3> QED BY <1>1, <3>1, MonthType, MonthOfNat
  <2>5. call[r].daily \in Int /\ call[r].monthly \in Int
    BY <1>1, StatusOf
  <2>6. /\ ledger[a][today] + Estimate < DailyCap + overrun[a][today]
        /\ MonthOf(ledger[a]) + Estimate < MonthlyCap + MonthOf(overrun[a])
    <3>1. /\ \/ ledger[a][today] - overrun[a][today] <= call[r].daily
             \/ ledger[a][today] - overrun[a][today] <= 0
          /\ MonthOf(ledger[a]) - MonthOf(overrun[a]) <= call[r].monthly
      BY <1>1, <1>2, <2>1 DEF Seen
    <3> QED BY <1>1, <2>2, <2>3, <2>4, <2>5, <3>1
  <2>7. ASSUME NEW b \in Account, NEW d \in Day
        PROVE  ledger'[b][d] < DailyCap + overrun[b][d]
    <3>1. ledger'[b][d] = IF b = a /\ d = today THEN ledger[b][d] + Estimate ELSE ledger[b][d]
      BY DEF Booked
    <3>2. ledger[b][d] < DailyCap + overrun[b][d]
      BY <2>1 DEF Under
    <3> QED BY <2>6, <3>1, <3>2
  <2>8. ASSUME NEW b \in Account
        PROVE  MonthOf(ledger'[b]) < MonthlyCap + MonthOf(overrun[b])
    <3>1. MonthOf(ledger'[b]) =
            IF b = a THEN MonthOf(ledger[b]) + Estimate ELSE MonthOf(ledger[b])
      BY DEF Booked
    <3>2. MonthOf(ledger[b]) < MonthlyCap + MonthOf(overrun[b])
      BY <2>1 DEF Under
    <3> QED BY <2>6, <3>1, <3>2
  <2> QED BY <2>7, <2>8 DEF Under
<1>11. Seen(call', ledger', overrun, today) /\ ReaderHoldsLock'
  BY <1>7 DEF Seen, ReaderHoldsLock
<1>12. Finite(call')
  BY <1>6 DEF Finite
<1> QED BY <1>5, <1>8, <1>9, <1>10, <1>11, <1>12 DEF CostInv, Reserve

LEMMA FailCallKeeps ==
  ASSUME CostInv, NEW r \in Caller, FailCall(r)
  PROVE  CostInv'
<1>1. /\ call \in [Caller -> CallRow] /\ call[r].at = "calling"
      /\ unanswered \in [Account -> Nat]
  BY TypedState DEF CostInv, FailCall
<1>2. PICK a \in Account : a = call[r].account
  BY <1>1, StatusOf
<1>3. Moves(call, call', r, "idle", Quiet.account, 0, 0)
  BY <1>1, TurnsQuiet DEF FailCall
<1>4. unanswered' = [unanswered EXCEPT ![a] = @ + 1]
  BY <1>2 DEF FailCall
<1>5. CostTypeOK'
  <2>1. unanswered' \in [Account -> Nat]
    BY <1>1, <1>4
  <2>2. call' \in [Caller -> CallRow]
    BY <1>3 DEF Moves
  <2> QED BY <2>1, <2>2, TypedState DEF CostInv, FailCall, CostTypeOK, CallRow
<1>6. \A b \in Account :
        /\ IsFiniteSet(CallsOf(call', b)) /\ Cardinality(CallsOf(call, b)) \in Nat
        /\ Cardinality(CallsOf(call', b)) =
             IF b = a THEN Cardinality(CallsOf(call, b)) - 1 ELSE Cardinality(CallsOf(call, b))
  BY <1>1, <1>2, <1>3, CostCallEnds DEF CostInv
<1>7. \A b \in Account : Cardinality(CallsOf(call', b)) + unanswered'[b] =
                           Cardinality(CallsOf(call, b)) + unanswered[b]
  BY <1>1, <1>4, <1>6
<1>8. ~unwritten => Balance(ledger, call', spent, unanswered')
  BY <1>7 DEF CostInv, Balance
<1>9. ReaderHoldsLock' /\ (Guarded => Seen(call', ledger, overrun, today))
  BY <1>1, <1>3 DEF CostInv, FailCall, Moves, ReaderHoldsLock, Seen
<1>10. Finite(call')
  BY <1>6 DEF Finite
<1> QED BY <1>5, <1>8, <1>9, <1>10 DEF CostInv, FailCall, DaysToCome, Guarded

LEMMA MidnightKeeps ==
  ASSUME CostInv, Midnight
  PROVE  CostInv'
<1>1. today \in Day /\ today' \in Day /\ today < today'
  BY TypedState, DaysAreCounted DEF CostInv, Midnight
<1>2. CostTypeOK'
  BY <1>1, TypedState DEF CostInv, Midnight, CostTypeOK, CallRow
<1>3. DaysToCome'
  BY <1>1, DaysAreCounted DEF CostInv, Midnight, DaysToCome
<1>4. Guarded => Seen(call, ledger, overrun, today')
  <2>1. \A b \in Account : ledger[b][today'] - overrun[b][today'] <= 0
    BY <1>1 DEF CostInv, DaysToCome
  <2>2. \A r \in Caller : call[r].account \in Account
    BY TypedState, StatusOf DEF CostInv
  <2> QED BY <2>1, <2>2 DEF CostInv, Seen
<1> QED BY <1>2, <1>3, <1>4 DEF CostInv, Midnight, ReaderHoldsLock, Guarded

LEMMA AdjustKeeps ==
  ASSUME CostInv, NEW r \in Caller, NEW cost \in Price, Adjust(r, cost)
  PROVE  CostInv'
<1>1. /\ call \in [Caller -> CallRow] /\ call[r].at = "calling" /\ cost \in Nat
      /\ Estimate \in Nat /\ today \in Day /\ ledger \in [Account -> [Day -> Int]]
      /\ overrun \in [Account -> [Day -> Nat]] /\ spent \in [Account -> Nat]
  BY TypedState, CostAssumption DEF CostInv, Adjust
<1>2. PICK a \in Account : a = call[r].account
  BY <1>1, StatusOf
<1>3. PICK above \in Nat :
        above = (IF cost > Estimate THEN cost - Estimate ELSE 0) /\ cost - Estimate <= above
  <2>1. CASE cost > Estimate
    BY <1>1, <2>1
  <2>2. CASE ~(cost > Estimate)
    BY <1>1, <2>2
  <2> QED BY <2>1, <2>2
<1>4. PICK x \in Int : x = cost - Estimate /\ x <= above
  BY <1>1, <1>3
<1>5. Moves(call, call', r, "idle", Quiet.account, 0, 0)
  BY <1>1, TurnsQuiet DEF Adjust
<1>6. spent' = [spent EXCEPT ![a] = @ + cost]
  BY <1>2 DEF Adjust
<1>7. \/ /\ ledger' \in [Account -> [Day -> Int]] /\ overrun' \in [Account -> [Day -> Nat]]
         /\ Booked(ledger, ledger', a, today, x) /\ Booked(overrun, overrun', a, today, above)
         /\ unwritten' = unwritten
      \/ ledger' = ledger /\ overrun' = overrun /\ unwritten' = TRUE
  <2>1. CASE /\ Books(a, x)
             /\ overrun' = [overrun EXCEPT ![a][today] = @ + above]
             /\ UNCHANGED unwritten
    <3>1. ledger' \in [Account -> [Day -> Int]] /\ Booked(ledger, ledger', a, today, x)
      BY <1>1, <2>1, BookingMoves DEF Books
    <3>2. overrun \in [Account -> [Day -> Int]] /\ above \in Int
      BY <1>1
    <3>3. Booked(overrun, overrun', a, today, above)
      BY <1>1, <2>1, <3>2, BookingMoves
    <3>4. overrun' \in [Account -> [Day -> Nat]]
      BY <1>1, <2>1
    <3> QED BY <2>1, <3>1, <3>3, <3>4
  <2>2. CASE unwritten' = TRUE /\ UNCHANGED <<ledger, overrun>>
    BY <2>2
  <2> QED BY <1>2, <1>3, <1>4, <2>1, <2>2 DEF Adjust
<1>8. CostTypeOK'
  <2>1. call' \in [Caller -> CallRow] /\ spent' \in [Account -> Nat]
    BY <1>1, <1>5, <1>6 DEF Moves
  <2>2. /\ ledger' \in [Account -> [Day -> Int]] /\ overrun' \in [Account -> [Day -> Nat]]
        /\ unwritten' \in BOOLEAN
    BY <1>1, <1>7, TypedState DEF CostInv
  <2> QED BY <2>1, <2>2, TypedState DEF CostInv, Adjust, CostTypeOK, CallRow
<1>9. \A b \in Account :
        /\ IsFiniteSet(CallsOf(call', b)) /\ Cardinality(CallsOf(call, b)) \in Nat
        /\ Cardinality(CallsOf(call', b)) =
             IF b = a THEN Cardinality(CallsOf(call, b)) - 1 ELSE Cardinality(CallsOf(call, b))
  <2>1. PICK at : at = "idle" /\ at # "calling"
    OBVIOUS
  <2>2. PICK z : z = 0
    OBVIOUS
  <2>3. Moves(call, call', r, at, Quiet.account, z, z) /\ Finite(call)
    BY <1>5, <2>1, <2>2 DEF CostInv
  <2> TAKE b \in Account
  <2>4. /\ IsFiniteSet(CallsOf(call', b)) /\ Cardinality(CallsOf(call, b)) \in Nat
        /\ Cardinality(CallsOf(call', b)) =
             IF b = call[r].account THEN Cardinality(CallsOf(call, b)) - 1
             ELSE Cardinality(CallsOf(call, b))
    <3> HIDE DEF CallsOf, Moves, Finite, CallRow
    <3> QED BY <1>1, <2>1, <2>3, CostCallEnds
  <2> QED BY <1>2, <2>4
<1>10. ~unwritten' => Balance(ledger', call', spent', unanswered)
  <2> SUFFICES ASSUME ~unwritten', NEW b \in Account
               PROVE  MonthOf(ledger'[b]) =
                        spent'[b] + Estimate * (Cardinality(CallsOf(call', b)) + unanswered[b])
    BY DEF Balance
  <2> DEFINE k == Cardinality(CallsOf(call', b)) + unanswered[b]
  <2>1. Booked(ledger, ledger', a, today, x) /\ ~unwritten
    BY <1>7
  <2>2. MonthOf(ledger[b]) = spent[b] + Estimate * (Cardinality(CallsOf(call, b)) + unanswered[b])
    BY <2>1 DEF CostInv, Balance
  <2>3. spent[b] \in Nat /\ unanswered[b] \in Nat
    BY TypedState DEF CostInv
  <2>4. CASE b = a
    <3>1. MonthOf(ledger'[b]) = MonthOf(ledger[b]) + (cost - Estimate)
      BY <1>4, <2>1, <2>4 DEF Booked
    <3>2. Cardinality(CallsOf(call, b)) + unanswered[b] = k + 1 /\ k \in Int
      BY <1>9, <2>3, <2>4
    <3>3. Estimate * k \in Int /\ Estimate * (k + 1) = Estimate * k + Estimate
      BY <3>2, EstimateTimes
    <3>4. spent'[b] = spent[b] + cost
      BY <1>1, <1>6, <2>4
    <3>5. MonthOf(ledger[b]) = spent[b] + (Estimate * k + Estimate)
      BY <2>2, <3>2, <3>3
    <3> HIDE DEF k
    <3>6. MonthOf(ledger'[b]) = spent'[b] + Estimate * k
      BY <1>1, <2>3, <3>1, <3>3, <3>4, <3>5
    <3> QED BY <3>6 DEF k
  <2>5. CASE b # a
    <3>1. MonthOf(ledger'[b]) = MonthOf(ledger[b]) /\ spent'[b] = spent[b]
      BY <1>6, <2>1, <2>5 DEF Booked
    <3>2. Cardinality(CallsOf(call', b)) = Cardinality(CallsOf(call, b))
      BY <1>9, <2>5
    <3> QED BY <2>2, <3>1, <3>2
  <2> QED BY <2>4, <2>5
<1>11. DaysToCome'
  <2>1. ASSUME NEW b \in Account, NEW d \in Day, d > today
        PROVE  ledger'[b][d] = ledger[b][d] /\ overrun'[b][d] = overrun[b][d]
    <3>1. d # today
      BY <1>1, <2>1, DaysAreCounted
    <3> QED BY <1>7, <3>1 DEF Booked
  <2>2. today' = today
    BY DEF Adjust
  <2> QED BY <2>1, <2>2 DEF DaysToCome, CostInv
<1>12. /\ \A b \in Account, d \in Day : ledger[b][d] \in Int /\ overrun[b][d] \in Nat
       /\ \A b \in Account : MonthOf(ledger[b]) \in Int /\ MonthOf(overrun[b]) \in Nat
       /\ DailyCap \in Nat /\ MonthlyCap \in Nat
  BY <1>1, MonthType, MonthOfNat, CostAssumption
<1>13. Guarded' => Under(ledger', overrun')
  <2> SUFFICES ASSUME Guarded', Booked(ledger, ledger', a, today, x),
                      Booked(overrun, overrun', a, today, above)
               PROVE  Under(ledger', overrun')
    BY <1>7 DEF Guarded, CostInv, Adjust
  <2>1. Under(ledger, overrun)
    BY DEF Guarded, CostInv, Adjust
  <2>2. ASSUME NEW b \in Account, NEW d \in Day
        PROVE  ledger'[b][d] < DailyCap + overrun'[b][d]
    <3>1. /\ ledger'[b][d] = IF b = a /\ d = today THEN ledger[b][d] + x ELSE ledger[b][d]
          /\ overrun'[b][d] = IF b = a /\ d = today THEN overrun[b][d] + above ELSE overrun[b][d]
      BY DEF Booked
    <3>2. ledger[b][d] < DailyCap + overrun[b][d]
      BY <2>1 DEF Under
    <3> QED BY <1>4, <1>12, <3>1, <3>2
  <2>3. ASSUME NEW b \in Account
        PROVE  MonthOf(ledger'[b]) < MonthlyCap + MonthOf(overrun'[b])
    <3>1. /\ MonthOf(ledger'[b]) = IF b = a THEN MonthOf(ledger[b]) + x ELSE MonthOf(ledger[b])
          /\ MonthOf(overrun'[b]) =
               IF b = a THEN MonthOf(overrun[b]) + above ELSE MonthOf(overrun[b])
      BY DEF Booked
    <3>2. MonthOf(ledger[b]) < MonthlyCap + MonthOf(overrun[b])
      BY <2>1 DEF Under
    <3> QED BY <1>4, <1>12, <3>1, <3>2
  <2> QED BY <2>2, <2>3 DEF Under
<1>14. ASSUME Guarded' PROVE Seen(call', ledger', overrun', today)
  <2>1. Seen(call, ledger, overrun, today)
    BY <1>14 DEF Guarded, CostInv, Adjust
  <2>2. \A b \in Account :
          /\ ledger'[b][today] - overrun'[b][today] <= ledger[b][today] - overrun[b][today]
          /\ ledger'[b][today] - overrun'[b][today] \in Int
          /\ MonthOf(ledger'[b]) - MonthOf(overrun'[b]) <= MonthOf(ledger[b]) - MonthOf(overrun[b])
          /\ MonthOf(ledger'[b]) - MonthOf(overrun'[b]) \in Int
    <3> TAKE b \in Account
    <3>1. CASE ledger' = ledger /\ overrun' = overrun
      BY <1>1, <1>12, <3>1
    <3>2. CASE Booked(ledger, ledger', a, today, x) /\ Booked(overrun, overrun', a, today, above)
      <4>1. CASE b = a
        <5>1. /\ ledger'[b][today] = ledger[b][today] + x
              /\ overrun'[b][today] = overrun[b][today] + above
              /\ MonthOf(ledger'[b]) = MonthOf(ledger[b]) + x
              /\ MonthOf(overrun'[b]) = MonthOf(overrun[b]) + above
          BY <1>1, <3>2, <4>1 DEF Booked
        <5> QED BY <1>1, <1>4, <1>12, <5>1
      <4>2. CASE b # a
        <5>1. /\ ledger'[b][today] = ledger[b][today] /\ overrun'[b][today] = overrun[b][today]
              /\ MonthOf(ledger'[b]) = MonthOf(ledger[b])
              /\ MonthOf(overrun'[b]) = MonthOf(overrun[b])
          BY <1>1, <3>2, <4>2 DEF Booked
        <5> QED BY <1>1, <1>12, <5>1
      <4> QED BY <4>1, <4>2
    <3> QED BY <1>7, <3>1, <3>2
  <2> SUFFICES ASSUME NEW q \in Caller, call'[q].at = "read"
               PROVE  /\ \/ ledger'[call'[q].account][today] - overrun'[call'[q].account][today]
                              <= call'[q].daily
                         \/ ledger'[call'[q].account][today] - overrun'[call'[q].account][today] <= 0
                      /\ MonthOf(ledger'[call'[q].account]) - MonthOf(overrun'[call'[q].account])
                           <= call'[q].monthly
    BY DEF Seen
  <2>3. call'[q] = call[q]
    BY <1>5 DEF Moves
  <2>4. PICK b \in Account : b = call[q].account
    BY <1>1, StatusOf
  <2>5. call[q].daily \in Int /\ call[q].monthly \in Int
    BY <1>1, StatusOf
  <2>6. /\ \/ ledger[b][today] - overrun[b][today] <= call[q].daily
           \/ ledger[b][today] - overrun[b][today] <= 0
        /\ MonthOf(ledger[b]) - MonthOf(overrun[b]) <= call[q].monthly
    BY <2>1, <2>3, <2>4 DEF Seen
  <2>7. /\ \/ ledger'[b][today] - overrun'[b][today] <= call[q].daily
           \/ ledger'[b][today] - overrun'[b][today] <= 0
        /\ MonthOf(ledger'[b]) - MonthOf(overrun'[b]) <= call[q].monthly
    BY <1>1, <1>12, <2>2, <2>5, <2>6
  <2> QED BY <2>3, <2>4, <2>7
<1>15. ReaderHoldsLock' /\ Finite(call')
  BY <1>1, <1>5, <1>9 DEF CostInv, Adjust, Moves, ReaderHoldsLock, Finite
<1> QED BY <1>8, <1>10, <1>11, <1>13, <1>14, <1>15 DEF CostInv, Adjust

LEMMA CostInvStep ==
  ASSUME CostInv, [CostNext]_costVars
  PROVE  CostInv'
<1>1. CASE UNCHANGED costVars
  BY <1>1 DEF costVars, CostInv, CostTypeOK, ReaderHoldsLock, Finite, DaysToCome, Balance, Guarded,
     Under, Seen, CallsOf
<1>2. CASE Midnight
  BY <1>2, MidnightKeeps
<1>3. ASSUME NEW r \in Caller, CallStep(r) PROVE CostInv'
  BY <1>3, BeginCallKeeps, ReadSumsKeeps, RefuseCallKeeps, ReserveKeeps, FailCallKeeps, AdjustKeeps
     DEF CallStep
<1> QED BY <1>1, <1>2, <1>3 DEF CostNext

LEMMA CostInvariant == CostSpec => []CostInv
<1>1. CostInit => CostInv
  BY CostInvInit
<1>2. CostInv /\ [CostNext]_costVars => CostInv'
  BY CostInvStep
<1> QED BY <1>1, <1>2, PTL DEF CostSpec

(* What the ledger of an account comes to is what its answered calls cost  *)
(* and an estimate for each call that is out or was never answered, for    *)
(* any number of callers and days, while every entry could be written.     *)
THEOREM LedgersBalance == CostSpec => [](CostTypeOK /\ LedgerBalances)
<1>1. CostInv => CostTypeOK /\ LedgerBalances
  BY DEF CostInv, LedgerBalances, Balance, InFlight, CallsOf
<1> QED BY <1>1, CostInvariant, PTL

(* No day and no month of an account passes its cap but by what calls cost *)
(* above their estimate, for any number of callers that reserve at a time, *)
(* any estimate below the caps, while every sum could be read.             *)
THEOREM CeilingsHold == CostSpec => []CeilingHolds
<1>1. CostInv => CeilingHolds
  BY DEF CostInv, CeilingHolds, Under, Guarded
<1> QED BY <1>1, CostInvariant, PTL

===========================================================================
