------------------------------ MODULE Streaming ------------------------------
(***************************************************************************)
(* One model call of an agent run: the request a provider makes of the     *)
(* prompt, the reply that comes back in chunks of bytes, the loop that     *)
(* cuts the bytes into lines and the lines into deltas, and the run that   *)
(* collects the deltas into an answer and asks again after a failure       *)
(* (trans4mers-providers/src/llm, agent_runtime.rs).                       *)
(*                                                                         *)
(* A line is the set of things its JSON holds: {} is a line that holds     *)
(* nothing the loop knows ("event: ...", a comment, a piece of a tool call *)
(* of openai or anthropic).  A delta is <<attempt, place in the reply>>.   *)
(***************************************************************************)
EXTENDS Integers, Sequences, FiniteSets, SequencesExt

CONSTANTS Prompts,        \* the prompts considered: sequences of roles
          LineOf,         \* for each provider, the lines its replies may have
          MaxReply,       \* lines of a reply considered
          MaxRetries      \* attempts after the first (SelfHealing: 5)


VARIABLES provider,       \* who is asked
          phase,          \* "ask", "reading", "retry", or how the call ended
          attempt,        \* how often it was asked
          turnsSent,      \* the turns of the last request
          reply,          \* what the server says this time, to the last byte
          arrived,        \* whole lines of it read from the connection
          cutOff,         \* lines cut off the buffer
          stalled,        \* the loop awaits bytes though a line may be buffered
          answer,         \* the text deltas collected from this attempt
          toolCalls,      \* for each tool call index, the deltas it is made of
          metered         \* the reply told its token usage

streamVars == <<provider, phase, attempt, turnsSent, reply, arrived, cutOff, stalled,
                answer, toolCalls, metered>>

Streamer == {"openai", "anthropic", "ollama"}
Role == {"system", "user", "assistant", "tool"}

ASSUME StreamingAssumption ==
  MaxReply \in Nat /\ MaxRetries \in Nat /\ Prompts \subseteq Seq(Role)

Blank == {"blank"}
NoTail == {"none"}

(* The bytes of a reply: lines closed by a newline, and perhaps one that   *)
(* is not.                                                                 *)
Reply(p) == [lines : BoundedSeq(LineOf[p], MaxReply),
             tail : (LineOf[p] \ {Blank}) \cup {NoTail}]
NoReply == [lines |-> <<>>, tail |-> NoTail]

StreamingInit ==
  /\ provider \in Streamer \cup {"google"}
  /\ phase = "ask" /\ attempt = 0 /\ turnsSent = <<>>
  /\ reply = NoReply /\ arrived = 0 /\ cutOff = 0 /\ stalled = FALSE
  /\ answer = <<>> /\ toolCalls = <<>> /\ metered = FALSE

-----------------------------------------------------------------------------
(* openai and ollama send the messages as they are.                        *)
OpenAITurns(prompt) == prompt
OllamaTurns(prompt) == prompt

Unsystematic(prompt) ==
  LET kept[i \in 0 .. Len(prompt)] ==
        IF i = 0 THEN <<>>
        ELSE IF prompt[i] # "system" THEN Append(kept[i - 1], prompt[i]) ELSE kept[i - 1]
  IN  kept[Len(prompt)]

(* anthropic takes the system texts out, every other role but the          *)
(* assistant's is a user's, and a request is never without a turn.         *)
AnthropicTurns(prompt) ==
  IF Unsystematic(prompt) = <<>> THEN <<"user">>
  ELSE [i \in DOMAIN Unsystematic(prompt) |->
          IF Unsystematic(prompt)[i] = "assistant" THEN "assistant" ELSE "user"]

GoogleTurns(prompt) ==
  [i \in DOMAIN Unsystematic(prompt) |->
     IF Unsystematic(prompt)[i] = "assistant" THEN "model" ELSE "user"]

Turns(p, prompt) == CASE p = "openai"    -> OpenAITurns(prompt)
                      [] p = "ollama"    -> OllamaTurns(prompt)
                      [] p = "anthropic" -> AnthropicTurns(prompt)
                      [] p = "google"    -> GoogleTurns(prompt)

(* What a line makes the loop hand out.  openai looks for the usage first, *)
(* so a line that also holds text gives only the usage; it and anthropic   *)
(* know no tool call.                                                      *)
OpenAIYields(line) == IF "usage" \in line THEN "usage"
                      ELSE IF "text" \in line THEN "text"
                      ELSE IF "end" \in line THEN "end" ELSE "nothing"

(* An anthropic event is of one type; the order of the tests is no matter. *)
AnthropicYields(line) == IF "text" \in line THEN "text"
                         ELSE IF "usage" \in line THEN "usage"
                         ELSE IF "end" \in line THEN "end" ELSE "nothing"

(* The last line of ollama tells the usage and ends the stream; a tool     *)
(* call hides the text of its line.                                        *)
OllamaYields(line) == IF "end" \in line THEN "done"
                      ELSE IF "call" \in line THEN "call"
                      ELSE IF "text" \in line THEN "text" ELSE "nothing"

Yields(p, line) == CASE p = "openai"    -> OpenAIYields(line)
                     [] p = "anthropic" -> AnthropicYields(line)
                     [] p = "ollama"    -> OllamaYields(line)

(* When the body ends, ollama tries what is left in the buffer as one more *)
(* line; two lines are no JSON.  The others forget it.                     *)
Bytes == Append(reply.lines, reply.tail)
Rest == {i \in cutOff + 1 .. Len(Bytes) : Bytes[i] \notin {Blank, NoTail}}
TailPlace == CHOOSE i \in Rest : TRUE
OllamaTail == IF Cardinality(Rest) # 1 THEN "end"
              ELSE IF "call" \in Bytes[TailPlace] THEN "call"
              ELSE IF "text" \in Bytes[TailPlace] THEN "text" ELSE "end"
LastWord == IF provider = "ollama" THEN OllamaTail ELSE "end"

-----------------------------------------------------------------------------
(* Every attempt makes the same request ...                                *)
Request(prompt) == /\ attempt > 0 => turnsSent = Turns(provider, prompt)
                   /\ turnsSent' = Turns(provider, prompt)

(* ... and collects an answer of its own.                                  *)
StartAnswer == answer' = <<>> /\ toolCalls' = <<>> /\ metered' = FALSE

(* The request goes out, and the server accepts it and says r.             *)
ConnectProvider(prompt, r) ==
  /\ phase = "ask" /\ provider \in Streamer
  /\ phase' = "reading" /\ attempt' = attempt + 1
  /\ Request(prompt) /\ reply' = r
  /\ arrived' = 0 /\ cutOff' = 0 /\ stalled' = FALSE
  /\ StartAnswer /\ UNCHANGED provider

(* google does not stream: its whole reply is handed out in one piece, and *)
(* each tool call has an index of its own.                                 *)
Places(r, what) ==
  LET found[i \in 0 .. Len(r.lines)] ==
        IF i = 0 THEN <<>>
        ELSE IF what \in r.lines[i] THEN Append(found[i - 1], i) ELSE found[i - 1]
  IN  found[Len(r.lines)]
GoogleReply(prompt, r) ==
  /\ phase = "ask" /\ provider = "google"
  /\ phase' = "answered" /\ attempt' = attempt + 1
  /\ Request(prompt) /\ reply' = r
  /\ arrived' = Len(r.lines) /\ cutOff' = Len(r.lines) /\ stalled' = FALSE
  /\ answer' = [i \in DOMAIN Places(r, "text") |-> <<attempt', Places(r, "text")[i]>>]
  /\ toolCalls' = [i \in DOMAIN Places(r, "call") |-> <<Places(r, "call")[i]>>]
  /\ metered' = TRUE /\ UNCHANGED provider

(* The connection, the status or the stream failed: every such error may   *)
(* be retried, up to the limit.                                            *)
MayRetry == attempt' <= MaxRetries
Fails ==
  /\ phase' = IF MayRetry THEN "retry" ELSE "failed"
  /\ reply' = NoReply /\ arrived' = 0 /\ cutOff' = 0 /\ stalled' = FALSE

Refused(prompt) ==
  /\ phase = "ask" /\ attempt' = attempt + 1 /\ Fails
  /\ Request(prompt)
  /\ UNCHANGED <<provider, answer, toolCalls, metered>>

ReplyBreaks ==
  /\ phase = "reading" /\ (stalled \/ cutOff = arrived)
  /\ UNCHANGED attempt /\ Fails
  /\ UNCHANGED <<provider, turnsSent, answer, toolCalls, metered>>

AskAgain == /\ phase = "retry" /\ phase' = "ask"
            /\ UNCHANGED <<provider, attempt, turnsSent, reply, arrived, cutOff, stalled,
                           answer, toolCalls, metered>>

CallCancelled ==
  /\ phase \in {"ask", "reading", "retry"} /\ phase' = "cancelled"
  /\ UNCHANGED <<provider, attempt, turnsSent, reply, arrived, cutOff, stalled, answer,
                 toolCalls, metered>>

(* Every delta of ollama has the index 0.                                  *)
AddCall(place) == toolCalls' = IF toolCalls = <<>> THEN << <<place>> >>
                               ELSE [toolCalls EXCEPT ![1] = Append(@, place)]

(* The run takes one delta.                                                *)
Collect(what, place) ==
  /\ answer' = IF what = "text" THEN Append(answer, <<attempt, place>>) ELSE answer
  /\ IF what = "call" THEN AddCall(place) ELSE UNCHANGED toolCalls
  /\ metered' = (metered \/ what \in {"usage", "done"})

(* Mutant: a blank line is not skipped but awaited upon.                   *)
StallsAfterBlank(line) == line = Blank \/ Yields(provider, line) = "nothing"

(* After a line that gave nothing the loop awaits more bytes, whatever is  *)
(* still buffered; after a blank one it takes the next line.               *)
StallsAfter(line) == line # Blank /\ Yields(provider, line) = "nothing"

TakeLine ==
  /\ phase = "reading" /\ ~stalled /\ cutOff < arrived
  /\ cutOff' = cutOff + 1
  /\ LET line == reply.lines[cutOff']
         what == Yields(provider, line)
     IN  /\ stalled' = StallsAfter(line)
         /\ Collect(what, cutOff')
         /\ phase' = IF what \in {"end", "done"} THEN "answered" ELSE phase
  /\ UNCHANGED <<provider, attempt, turnsSent, reply, arrived>>

(* The next bytes complete n lines; no line, if they stop within one.      *)
ReadBytes(n) ==
  /\ phase = "reading" /\ (stalled \/ cutOff = arrived)
  /\ arrived + n <= Len(reply.lines)
  /\ n > 0 \/ arrived < Len(reply.lines) \/ reply.tail # NoTail
  /\ arrived' = arrived + n /\ stalled' = FALSE
  /\ UNCHANGED <<provider, phase, attempt, turnsSent, reply, cutOff, answer, toolCalls,
                 metered>>

BodyEnds ==
  /\ phase = "reading" /\ (stalled \/ cutOff = arrived)
  /\ arrived = Len(reply.lines)
  /\ phase' = "answered"
  /\ Collect(LastWord, IF LastWord = "end" THEN 0 ELSE TailPlace)
  /\ UNCHANGED <<provider, attempt, turnsSent, reply, arrived, cutOff, stalled>>

StreamingNext ==
  \/ /\ phase = "ask"
     /\ \E prompt \in Prompts, r \in Reply(provider) :
          ConnectProvider(prompt, r) \/ GoogleReply(prompt, r)
  \/ \E prompt \in Prompts : Refused(prompt)
  \/ TakeLine \/ BodyEnds \/ ReplyBreaks \/ AskAgain \/ CallCancelled
  \/ \E n \in 0 .. MaxReply : ReadBytes(n)

StreamingSpec == StreamingInit /\ [][StreamingNext]_streamVars

-----------------------------------------------------------------------------
StreamingTypeOK ==
  /\ provider \in Streamer \cup {"google"}
  /\ phase \in {"ask", "reading", "retry", "answered", "failed", "cancelled"}
  /\ attempt \in 0 .. MaxRetries + 1
  /\ turnsSent \in Seq(Role \cup {"model"})
  /\ arrived \in 0 .. Len(reply.lines) /\ cutOff \in 0 .. arrived
  /\ stalled \in BOOLEAN /\ metered \in BOOLEAN
  /\ answer \in Seq((1 .. MaxRetries + 1) \X (1 .. MaxReply + 1))
  /\ toolCalls \in Seq(Seq(1 .. MaxReply + 1))

(* An answer is the text of one reply: of the last attempt alone, in the   *)
(* order it was sent.  What it lacks shared its line with something the    *)
(* loop looks for first, or comes after the line that ended the reply, or  *)
(* after one that made the loop await bytes until the body was over.  A    *)
(* connection that broke gives no answer at all.                           *)
Hidden(line) == \/ provider = "openai" /\ "usage" \in line
                \/ provider = "ollama" /\ line \cap {"call", "end"} # {}
Silent(line) == line # Blank /\ Yields(provider, line) = "nothing"
ReplyIsWhole ==
  phase = "answered" =>
    /\ \A k \in DOMAIN answer : answer[k][1] = attempt
    /\ \A k, l \in DOMAIN answer : k < l => answer[k][2] < answer[l][2]
    /\ \A i \in 1 .. Len(reply.lines) :
         ("text" \in reply.lines[i] /\ \A k \in DOMAIN answer : answer[k][2] # i) =>
            \/ Hidden(reply.lines[i])
            \/ \E j \in 1 .. i - 1 : \/ "end" \in reply.lines[j]
                                     \/ Silent(reply.lines[j])
=============================================================================
