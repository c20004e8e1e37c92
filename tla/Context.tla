------------------------------- MODULE Context -------------------------------
(***************************************************************************)
(* What a run remembers and what it tells the model of it: the history of  *)
(* steps, its compaction once it is too long (context_compactor.rs), and   *)
(* the prompt cut to the model's context (context_engine.rs).              *)
(*                                                                         *)
(* The two count tokens differently: "bpe" is the tokenizer's count of a   *)
(* step, "est" a quarter of the length of each message made of it.         *)
(* Compaction is taken to be enabled in the configuration.                 *)
(***************************************************************************)
EXTENDS Integers, Sequences, SequencesExt

CONSTANTS Size,           \* token counts considered
          MaxTokens,      \* the context of the model
          Threshold,      \* the part of it the history may fill
          Preserve,       \* newest steps that are never summarized
          MaxSteps        \* steps of a run considered

ASSUME ContextAssumption ==
  /\ Size \subseteq Nat /\ MaxTokens \in Nat /\ Threshold \in Nat
  /\ Preserve \in Nat \ {0} /\ MaxSteps \in Nat

VARIABLES loop,           \* where the run is in its loop
          total,          \* total_steps_executed
          steps,          \* the history in memory
          saved,          \* the newest checkpoint: its total and its history
          dropped,        \* steps taken out, of which a summary is being made
          prompt          \* sizes of the messages of the last request

contextVars == <<loop, total, steps, saved, dropped, prompt>>

(* An entry of the history stands for one step, or for all it summarizes.  *)
Entry(numbers, kind, bpe, est) ==
  [numbers |-> numbers, kind |-> kind, bpe |-> bpe, est |-> est]
NoPrompt == [system |-> 0, extras |-> <<>>, history |-> <<>>]

ContextInit == /\ loop = "top" /\ total = 0 /\ steps = <<>>
               /\ saved = [total |-> 0, steps |-> <<>>] /\ dropped = {} /\ prompt = NoPrompt

Sum(s) == LET sum[k \in 0 .. Len(s)] == IF k = 0 THEN 0 ELSE sum[k-1] + s[k] IN sum[Len(s)]
Bpe(s) == Sum([i \in DOMAIN s |-> s[i].bpe])

-----------------------------------------------------------------------------
AddStep(kind, bpe, est) ==
  /\ total' = total + 1
  /\ steps' = Append(steps, Entry({total'}, kind, bpe, est))
  /\ prompt' = NoPrompt

(* Each turn of the loop saves the history before it is compacted.         *)
SaveCheckpoint == saved' = [total |-> total', steps |-> steps']

(* A message is claimed: it is a step of its own.                          *)
ClaimMessage(bpe, est) ==
  /\ loop = "top" /\ total < MaxSteps /\ AddStep("user", bpe, est)
  /\ SaveCheckpoint /\ loop' = "compact" /\ UNCHANGED dropped

NoMessage == /\ loop = "top" /\ UNCHANGED <<total, steps, dropped, prompt>>
             /\ SaveCheckpoint /\ loop' = "compact"

(* How many of the oldest entries go: until half of what is allowed is     *)
(* left, but never one of the newest.                                      *)
Enough(c) == \/ Len(steps) - c <= Preserve
             \/ Bpe(SubSeq(steps, c + 1, Len(steps))) <= Threshold \div 2
DropCount == CHOOSE d \in 0 .. Len(steps) :
               Enough(d) /\ \A c \in 0 .. d - 1 : ~Enough(c)

Fits == /\ loop = "compact" /\ (Bpe(steps) <= Threshold \/ DropCount = 0)
        /\ loop' = "ask" /\ UNCHANGED <<total, steps, saved, dropped, prompt>>

(* The entries are out of the history while the model is asked for their   *)
(* summary.                                                                *)
BeginCompaction ==
  /\ loop = "compact" /\ Bpe(steps) > Threshold /\ DropCount > 0
  /\ dropped' = UNION {steps[i].numbers : i \in 1 .. DropCount}
  /\ steps' = SubSeq(steps, DropCount + 1, Len(steps))
  /\ loop' = "summarize" /\ UNCHANGED <<total, saved, prompt>>

(* Mutant: a summary that failed is left out.                              *)
SummaryMayFail(bpe, est) ==
  /\ loop = "summarize" /\ UNCHANGED steps
  /\ dropped' = {} /\ loop' = "ask" /\ UNCHANGED <<total, saved, prompt>>

(* A summary that failed is replaced by a line that says so.               *)
EndCompaction(bpe, est) ==
  /\ loop = "summarize"
  /\ steps' = <<Entry(dropped, "summary", bpe, est)>> \o steps
  /\ dropped' = {} /\ loop' = "ask" /\ UNCHANGED <<total, saved, prompt>>

(* The run is cancelled, or fails, at any await; what comes after goes on  *)
(* from the checkpoint.                                                    *)
Interrupted ==
  /\ loop' = "top" /\ total' = saved.total /\ steps' = saved.steps
  /\ dropped' = {} /\ prompt' = NoPrompt /\ UNCHANGED saved

(* The messages of the history: one for a user's step, an action and its   *)
(* result for every other.                                                 *)
Messages == FlattenSeq([i \in DOMAIN steps |->
  IF steps[i].kind = "user" THEN <<steps[i].est>> ELSE <<steps[i].est, steps[i].est>>])

(* The newest messages that fit, none after the first that does not.       *)
NewestThatFit(room) == LET m == Messages
                    n == CHOOSE k \in 0 .. Len(m) :
                           /\ Sum(SubSeq(m, k + 1, Len(m))) <= room
                           /\ k > 0 => Sum(SubSeq(m, k, Len(m))) > room
                IN  SubSeq(m, n + 1, Len(m))

(* Memories and rules take what room is left, each that fits.              *)
Extras(offered, room) ==
  LET kept[k \in 0 .. Len(offered)] ==
        IF k = 0 THEN <<>>
        ELSE IF Sum(kept[k-1]) + offered[k] < room THEN Append(kept[k-1], offered[k])
        ELSE kept[k-1]
  IN  kept[Len(offered)]

(* The system text is sent whatever its size.                              *)
AssemblePrompt(system, offered) ==
  LET room == IF system <= MaxTokens THEN MaxTokens - system ELSE -1
      history == IF room < 0 THEN <<>> ELSE NewestThatFit(room)
  IN  /\ loop = "ask" /\ loop' = "act"
      /\ prompt' = [system |-> system, history |-> history,
                    extras |-> Extras(offered, room - Sum(history))]
      /\ UNCHANGED <<total, steps, saved, dropped>>

(* What the run did is a step; no checkpoint is saved of it as yet.        *)
Act(bpe, est) == /\ loop = "act" /\ total < MaxSteps /\ AddStep("act", bpe, est)
                 /\ loop' = "top" /\ UNCHANGED <<dropped, saved>>

(* After an action the run may end; the next one takes up its checkpoint.  *)
EndRun == /\ loop = "top" /\ saved.total < total /\ UNCHANGED <<total, steps>>
          /\ SaveCheckpoint /\ UNCHANGED <<loop, dropped, prompt>>

(* What a run gathers for its prompt besides the history: memories, rules, *)
(* tools and skills.                                                       *)
Gathered == BoundedSeq(Size, 2)

ContextNext ==
  \/ \E bpe, est \in Size : \/ ClaimMessage(bpe, est) \/ EndCompaction(bpe, est)
                            \/ Act(bpe, est)
  \/ NoMessage \/ Fits \/ BeginCompaction \/ Interrupted \/ EndRun
  \/ \E system \in Size, offered \in Gathered : AssemblePrompt(system, offered)

ContextSpec == ContextInit /\ [][ContextNext]_contextVars

-----------------------------------------------------------------------------
ContextTypeOK ==
  /\ loop \in {"top", "compact", "summarize", "ask", "act"} /\ total \in 0 .. MaxSteps
  /\ saved.total \in 0 .. total
  /\ \A h \in {steps, saved.steps} : h \in Seq([numbers : SUBSET (1 .. total),
                kind : {"user", "act", "summary"}, bpe : Nat, est : Nat])
  /\ dropped \subseteq 1 .. total
  /\ prompt \in [system : Nat, extras : Seq(Nat), history : Seq(Nat)]

(* However often the history was compacted, interrupted and taken up from  *)
(* a checkpoint, each step of the run is in it once: by itself or in a     *)
(* summary, and the newest by themselves.                                  *)
Accounted(history, out, upTo) ==
  /\ (UNION {history[i].numbers : i \in DOMAIN history}) \cup out = 1 .. upTo
  /\ \A i, j \in DOMAIN history : i # j => history[i].numbers \cap history[j].numbers = {}
  /\ \A n \in 1 .. upTo : n > upTo - Preserve =>
        \E i \in DOMAIN history : history[i].numbers = {n}
NothingForgotten == /\ Accounted(steps, dropped, total)
                    /\ Accounted(saved.steps, {}, saved.total)
=============================================================================
