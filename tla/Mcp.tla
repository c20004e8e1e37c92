-------------------------------- MODULE Mcp --------------------------------
(***************************************************************************)
(* One client of an MCP server (mcp_client.rs): concurrent JSON-RPC calls  *)
(* share one transport, and answers are matched to calls by their ids in a *)
(* table of pending requests.  Over stdio every answer comes through the   *)
(* reader of the child's output; over HTTP it may also come in the body of *)
(* the POST, and the stream of events is reconnected when it breaks.  The  *)
(* server is external: it answers what was sent to it, or not, in any      *)
(* order, and numbers requests of its own from 1 as the client does.       *)
(***************************************************************************)
EXTENDS Integers, FiniteSets

CONSTANTS
  Rpc,          \* tasks that may call at the same time
  MaxTries      \* failed reconnections after which the stream is given up (3)

ASSUME McpAssumption == MaxTries \in Nat \ {0}

VARIABLES
  transport,    \* "stdio" or "http"
  stream,       \* the reader: "up", "down" (to be reconnected) or "ended"
  tries,        \* reconnections that failed in a row
  nextRpc,      \* the id of the next request
  serial,       \* history: calls made so far
  rpc,          \* what each task is doing, and the frame its oneshot holds
  pending,      \* pending_requests, the ids
  frames,       \* frames the server has sent and the reader has not seen
  heard,        \* the calls the server has received
  leaked        \* history: ids of calls whose tasks were dropped

mcpVars == <<transport, stream, tries, nextRpc, serial, rpc, pending, frames, heard, leaked>>

NoFrame == [id |-> 0, to |-> 0]
Hush == [state |-> "idle", id |-> 0, serial |-> 0, got |-> NoFrame]

(* The frames of the server's own requests are to nobody's call: 0.        *)
McpTypeOK ==
  /\ transport \in {"stdio", "http"} /\ stream \in {"up", "down", "ended"}
  /\ tries \in 0..MaxTries /\ nextRpc \in Nat \ {0} /\ serial \in Nat
  /\ rpc \in [Rpc -> [state: {"idle", "sending", "waiting", "answered", "failed"},
                      id: Nat, serial: 0..serial, got: [id: Nat, to: 0..serial]]]
  /\ pending \subseteq 1..(nextRpc - 1) /\ leaked \subseteq 1..(nextRpc - 1)
  /\ frames \subseteq [id: Nat, to: 0..serial]
  /\ heard \subseteq [id: Nat, to: 0..serial]

McpInit ==
  /\ transport \in {"stdio", "http"} /\ stream = "up" /\ tries = 0
  /\ nextRpc = 1 /\ serial = 0
  /\ rpc = [c \in Rpc |-> Hush]
  /\ pending = {} /\ frames = {} /\ heard = {} /\ leaked = {}

Busy(c) == rpc[c].state \in {"sending", "waiting"}

(* Mutant: ids are counted from those that are pending. *)
NextIdOfPending == Cardinality(pending) + 1

(* next_id.fetch_add(1)                                                    *)
NextId == nextRpc

(* rpc_call: an id is taken, and the call is pending before it is sent.    *)
BeginRpc(c) ==
  /\ ~Busy(c)
  /\ serial' = serial + 1
  /\ rpc' = [rpc EXCEPT ![c] = [state |-> "sending", id |-> NextId, serial |-> serial + 1,
                                got |-> NoFrame]]
  /\ nextRpc' = nextRpc + 1
  /\ pending' = pending \cup {NextId}
  /\ UNCHANGED <<transport, stream, tries, frames, heard, leaked>>

(* The server receives the request while it is being sent, or, over stdio, *)
(* when the writer gets to it.                                             *)
Hear(c) ==
  /\ Busy(c)
  /\ heard' = heard \cup {[id |-> rpc[c].id, to |-> rpc[c].serial]}
  /\ UNCHANGED <<transport, stream, tries, nextRpc, serial, rpc, pending, frames, leaked>>

(* The request is with the writer, or its POST was accepted: the call      *)
(* waits for its oneshot.                                                  *)
Sent(c) ==
  /\ rpc[c].state = "sending"
  /\ rpc' = [rpc EXCEPT ![c].state = "waiting"]
  /\ UNCHANGED <<transport, stream, tries, nextRpc, serial, pending, frames, heard, leaked>>

(* The body of the POST is the answer, whatever its id, and whatever the   *)
(* oneshot may hold by now.                                                *)
DirectAnswer(c) ==
  LET request == [id |-> rpc[c].id, to |-> rpc[c].serial]
  IN /\ transport = "http" /\ rpc[c].state = "sending" /\ request \in heard
     /\ rpc' = [rpc EXCEPT ![c].state = "answered", ![c].got = request]
     /\ pending' = pending \ {rpc[c].id}
     /\ UNCHANGED <<transport, stream, tries, nextRpc, serial, frames, heard, leaked>>

(* The writer of the child has stopped, or the POST fails: the server may  *)
(* have received it all the same.                                          *)
SendFails(c) ==
  /\ rpc[c].state = "sending"
  /\ rpc' = [rpc EXCEPT ![c].state = "failed"]
  /\ pending' = pending \ {rpc[c].id}
  /\ UNCHANGED <<transport, stream, tries, nextRpc, serial, frames, heard, leaked>>

(* The server answers through the stream, now or later, once or twice, or  *)
(* sends a request of its own.                                             *)
ServerAnswers(h) ==
  /\ h \in heard /\ frames' = frames \cup {h}
  /\ UNCHANGED <<transport, stream, tries, nextRpc, serial, rpc, pending, heard, leaked>>

ServerAsks(n) ==
  /\ frames' = frames \cup {[id |-> n, to |-> 0]}
  /\ UNCHANGED <<transport, stream, tries, nextRpc, serial, rpc, pending, heard, leaked>>

(* A frame whose id is pending goes to that call, and is not asked whether *)
(* it is an answer at all; any other frame is dropped.                     *)
Deliver(f) ==
  /\ stream = "up" /\ f \in frames
  /\ frames' = frames \ {f}
  /\ pending' = pending \ {f.id}
  /\ rpc' = [c \in Rpc |-> IF f.id \in pending /\ Busy(c) /\ rpc[c].id = f.id
                           THEN [rpc[c] EXCEPT !.got = f] ELSE rpc[c]]
  /\ UNCHANGED <<transport, stream, tries, nextRpc, serial, heard, leaked>>

(* A piece of the stream that is not UTF-8 by itself, as when a character  *)
(* is cut in two, is skipped, and the frame in it with it.                 *)
SkipPiece(f) ==
  /\ transport = "http" /\ stream = "up" /\ f \in frames
  /\ frames' = frames \ {f}
  /\ UNCHANGED <<transport, stream, tries, nextRpc, serial, rpc, pending, heard, leaked>>

(* The waiting call finds its oneshot filled ...                           *)
TakeAnswer(c) ==
  /\ rpc[c].state = "waiting" /\ rpc[c].got # NoFrame
  /\ rpc' = [rpc EXCEPT ![c].state = "answered"]
  /\ UNCHANGED <<transport, stream, tries, nextRpc, serial, pending, frames, heard, leaked>>

(* ... or gives up after 30 seconds.                                       *)
TimeOut(c) ==
  /\ rpc[c].state = "waiting" /\ rpc[c].got = NoFrame
  /\ rpc' = [rpc EXCEPT ![c].state = "failed"]
  /\ pending' = pending \ {rpc[c].id}
  /\ UNCHANGED <<transport, stream, tries, nextRpc, serial, frames, heard, leaked>>

(* The run that called is cancelled and the call is dropped where it       *)
(* stands; nothing takes its id out of the table.                          *)
DropCall(c) ==
  /\ Busy(c)
  /\ rpc' = [rpc EXCEPT ![c] = Hush]
  /\ leaked' = leaked \cup {rpc[c].id}
  /\ UNCHANGED <<transport, stream, tries, nextRpc, serial, pending, frames, heard>>

(* The stream breaks and what was on it is lost.  The reader of a child    *)
(* ends with it; the listener reconnects with a pause of 1, 2 or 4 seconds.*)
StreamBreaks ==
  /\ stream = "up" /\ frames' = {}
  /\ stream' = IF transport = "stdio" THEN "ended" ELSE "down"
  /\ UNCHANGED <<transport, tries, nextRpc, serial, rpc, pending, heard, leaked>>

(* Mutant: one attempt too many. *)
ReconnectOnceMore ==
  /\ stream = "down"
  /\ \/ stream' = "up" /\ tries' = 0
     \/ /\ tries' = tries + 1
        /\ stream' = IF tries' > MaxTries THEN "ended" ELSE "down"
  /\ frames' = {}
  /\ UNCHANGED <<transport, nextRpc, serial, rpc, pending, heard, leaked>>

(* The listener gives up after MaxTries failures in a row.                 *)
Reconnect ==
  /\ stream = "down"
  /\ \/ stream' = "up" /\ tries' = 0
     \/ /\ tries' = tries + 1
        /\ stream' = IF tries' >= MaxTries THEN "ended" ELSE "down"
  /\ frames' = {}
  /\ UNCHANGED <<transport, nextRpc, serial, rpc, pending, heard, leaked>>

McpNext ==
  \/ \E c \in Rpc :
       \/ BeginRpc(c) \/ Hear(c) \/ Sent(c) \/ DirectAnswer(c) \/ SendFails(c)
       \/ TakeAnswer(c) \/ TimeOut(c) \/ DropCall(c)
  \/ \E h \in heard : ServerAnswers(h)
  \/ \E n \in 1..nextRpc : ServerAsks(n)
  \/ \E f \in frames : Deliver(f) \/ SkipPiece(f)
  \/ StreamBreaks \/ Reconnect

McpSpec == McpInit /\ [][McpNext]_mcpVars

(* No call is handed the answer to another call, however late answers come *)
(* and however the transport is broken: what it got answers it, or is a    *)
(* request of the server's own that happens to carry its id.               *)
AnswerIsForCall ==
  \A c \in Rpc : rpc[c].got # NoFrame => rpc[c].got.to \in {rpc[c].serial, 0}

(* An id is pending only while its call is sent or waits: the table does   *)
(* not grow with failed and late calls, only with dropped ones.            *)
PendingHasCaller ==
  pending \subseteq leaked \cup {rpc[c].id : c \in {d \in Rpc : Busy(d)}}
=============================================================================
