-------------------------- MODULE ExecutionProofs --------------------------
(***************************************************************************)
(* Theorems about Execution: whatever crashes and whenever, a row and its  *)
(* checkpoint agree on the generation, no message is lost, no tool call    *)
(* goes unlogged but those that crashes and cancellations cut short, and   *)
(* what a run has recorded survives it.                                    *)
(*                                                                         *)
(* First part. The inductive invariant says what a run must hold for its   *)
(* message to survive it: a claimed message is among the messages of the   *)
(* run until it is acked, a run has every message its checkpoint has, and  *)
(* a run about to ack has saved its checkpoint (or housekeeping has pruned *)
(* it). Numbers of steps need no type for this; they get it in the second. *)
(*                                                                         *)
(* Second part. Recovery computes a count of steps from the checkpoint and *)
(* the log, the dead run had counted them in its memory. The invariant is  *)
(* that replay arrives at no fewer steps than a live run has recorded      *)
(* (ReplayReaches): a transaction that records a step appends its event or *)
(* stores its count, and what others append to the log only adds. A run    *)
(* without a checkpoint has recorded nothing (Unsaved), and there is no    *)
(* run while the program is down (DeadAreStill). Replay is a recursive     *)
(* function over the log: the lemmas about it are proved on the function   *)
(* it is a value of. How far a live run may be ahead of its checkpoint     *)
(* (CheckpointFollows) then gives that Execution implements Durability.    *)
(***************************************************************************)
EXTENDS Execution, DataLemmas

(* The tables and the runs have their rows, whatever is in their fields. *)
CheckpointFields(c) ==
  c = [gen |-> c.gen, total |-> c.total, msgs |-> c.msgs, seq |-> c.seq,
       exists |-> c.exists]

CheckpointShape ==
  cp = [x \in Exec |-> cp[x]] /\ \A x \in Exec : CheckpointFields(cp[x])

RunFields(r) ==
  r = [at |-> r.at, total |-> r.total, msgs |-> r.msgs, seq |-> r.seq,
       claimed |-> r.claimed, tool |-> r.tool, last |-> r.last, failed |-> r.failed]

RunShape == run = [x \in Exec |-> run[x]] /\ \A x \in Exec : RunFields(run[x])

RowShape == /\ generation = [x \in Exec |-> generation[x]]
            /\ inbox = [m \in Msg |-> inbox[m]]

Shape == CheckpointShape /\ RunShape /\ RowShape

(* What a run knows of its messages. *)
ClaimsHeld ==
  \A x \in Exec :
    /\ run[x].claimed # NoMsg => /\ run[x].at \in {"save", "ack"}
                                 /\ run[x].claimed \in run[x].msgs
    /\ run[x].at = "ack" => /\ run[x].claimed # NoMsg
                            /\ run[x].claimed \in pruned \cup cp[x].msgs
    /\ Live(x) => cp[x].msgs \subseteq run[x].msgs

IInv == Shape /\ GenerationMatches /\ ClaimsHeld /\ NoMessageLost

LEMMA InvInit == Init => IInv
<1>1. Init => Shape
  <2>1. Init => CheckpointShape
    BY DEF Init, CheckpointShape, CheckpointFields, NoCheckpoint
  <2>2. Init => RunShape
    <3>1. Init => run = [x \in Exec |-> NoRun]
      BY DEF Init
    <3>2. QED
      BY <3>1 DEF RunShape, RunFields, NoRun
  <2>3. Init => RowShape
    BY DEF Init, RowShape
  <2>4. QED
    BY <2>1, <2>2, <2>3 DEF Shape
<1>2. Init => GenerationMatches
  BY DEF Init, GenerationMatches, NoCheckpoint
<1>3. Init => ClaimsHeld /\ NoMessageLost
  BY DEF Init, ClaimsHeld, NoMessageLost, Live, NoRun
<1>4. QED
  BY <1>1, <1>2, <1>3 DEF IInv

(* The row of one run, and what a step does that changes only that row. *)
LEMMA RunRow ==
  ASSUME Shape, NEW x \in Exec
  PROVE  run = [y \in Exec |-> run[y]] /\ RunFields(run[x])
BY DEF Shape, RunShape

LEMMA RunRowChanged ==
  ASSUME Shape, NEW x \in Exec, RunFields(run'[x]),
         run' = [y \in Exec |-> run'[y]],
         \A y \in Exec \ {x} : run'[y] = run[y]
  PROVE  RunShape'
<1>1. ASSUME NEW y \in Exec
      PROVE  RunFields(run'[y])
  <2>1. CASE y = x
    BY <2>1
  <2>2. CASE y # x
    <3>1. run'[y] = run[y] /\ RunFields(run[y])
      BY <2>2 DEF Shape, RunShape
    <3>2. QED
      BY <3>1
  <2>3. QED
    BY <2>1, <2>2
<1>2. QED
  BY <1>1 DEF RunShape

LEMMA GoesRow ==
  ASSUME Shape, NEW x \in Exec, NEW to, run' = [run EXCEPT ![x].at = to]
  PROVE  /\ RunShape' /\ run'[x].at = to
         /\ run'[x].total = run[x].total /\ run'[x].msgs = run[x].msgs
         /\ run'[x].claimed = run[x].claimed
         /\ \A y \in Exec \ {x} : run'[y] = run[y]
<1>1. run = [y \in Exec |-> run[y]] /\ RunFields(run[x])
  BY RunRow
<1>2. run'[x] = [at |-> to, total |-> run[x].total, msgs |-> run[x].msgs,
                 seq |-> run[x].seq, claimed |-> run[x].claimed,
                 tool |-> run[x].tool, last |-> run[x].last,
                 failed |-> run[x].failed]
  BY <1>1 DEF RunFields
<1>3. /\ run' = [y \in Exec |-> run'[y]]
      /\ \A y \in Exec \ {x} : run'[y] = run[y]
  BY <1>1
<1>4. RunFields(run'[x])
  BY <1>2 DEF RunFields
<1>5. QED
  BY <1>2, <1>3, <1>4, RunRowChanged

-----------------------------------------------------------------------------
(* Steps that leave the tables, the runs and the phase alone. *)
LEMMA QuietStep ==
  ASSUME IInv, UNCHANGED <<cp, generation, inbox, pruned, run, phase>>
  PROVE  IInv'
BY DEF IInv, Shape, CheckpointShape, RunShape, RowShape, GenerationMatches,
       ClaimsHeld, NoMessageLost, Live, Durable

(* A run that holds no claim moves to another place, or ends. *)
LEMMA MoveStep ==
  ASSUME IInv, NEW x \in Exec,
         UNCHANGED <<cp, generation, inbox, pruned, phase>>, RunShape',
         \A y \in Exec \ {x} : run'[y] = run[y],
         run[x].claimed = NoMsg, run'[x].claimed = NoMsg, run'[x].at # "ack",
         Live(x)' => cp[x].msgs \subseteq run'[x].msgs
  PROVE  IInv'
<1>1. Shape' /\ GenerationMatches'
  BY DEF IInv, Shape, CheckpointShape, RowShape, GenerationMatches
<1>2. ClaimsHeld'
  BY DEF IInv, ClaimsHeld, Live
<1>3. NoMessageLost'
  <2>1. SUFFICES ASSUME NEW m \in Msg
                 PROVE  /\ inbox[m] = "CLAIMED" /\ phase # "down" =>
                             \E y \in Exec : Live(y)' /\ run'[y].claimed = m
                        /\ inbox[m] = "ACKED" => Durable(m)'
    BY DEF NoMessageLost
  <2>2. inbox[m] = "ACKED" => Durable(m)'
    BY DEF IInv, NoMessageLost, Durable
  <2>3. ASSUME inbox[m] = "CLAIMED", phase # "down"
        PROVE  \E y \in Exec : Live(y)' /\ run'[y].claimed = m
    <3>1. PICK y \in Exec : Live(y) /\ run[y].claimed = m
      BY <2>3 DEF IInv, NoMessageLost
    <3>2. m # NoMsg
      BY ExecutionAssumption
    <3>3. y # x
      BY <3>1, <3>2
    <3>4. QED
      BY <3>1, <3>3 DEF Live
  <2>4. QED
    BY <2>2, <2>3
<1>4. QED
  BY <1>1, <1>2, <1>3 DEF IInv

(* A run returns. *)
LEMMA ReturnStep ==
  ASSUME IInv, NEW x \in Exec, run[x].at \notin {"save", "ack"},
         run' = [run EXCEPT ![x] = NoRun],
         UNCHANGED <<cp, generation, inbox, pruned, phase>>
  PROVE  IInv'
<1>1. run = [y \in Exec |-> run[y]] /\ run[x].claimed = NoMsg
  BY RunRow DEF IInv, ClaimsHeld
<1>2. /\ run' = [y \in Exec |-> run'[y]] /\ run'[x] = NoRun
      /\ \A y \in Exec \ {x} : run'[y] = run[y]
  BY <1>1
<1>3. /\ RunFields(run'[x]) /\ run'[x].claimed = NoMsg /\ run'[x].at = "off"
  BY <1>2 DEF RunFields, NoRun
<1>4. RunShape'
  BY <1>2, <1>3, RunRowChanged DEF IInv
<1>5. QED
  BY <1>1, <1>2, <1>3, <1>4, MoveStep DEF Live

(* A live run that holds no claim records something and goes on. *)
LEMMA LiveStep ==
  ASSUME IInv, NEW x \in Exec, Live(x), run[x].at \notin {"save", "ack"},
         run' = [y \in Exec |-> run'[y]], RunFields(run'[x]),
         \A y \in Exec \ {x} : run'[y] = run[y],
         run'[x].at # "ack", run'[x].msgs = run[x].msgs, run'[x].claimed = NoMsg,
         UNCHANGED <<cp, generation, inbox, pruned, phase>>
  PROVE  IInv'
<1>1. run[x].claimed = NoMsg /\ cp[x].msgs \subseteq run'[x].msgs
  BY DEF IInv, ClaimsHeld
<1>2. RunShape'
  BY RunRowChanged DEF IInv
<1>3. QED
  BY <1>1, <1>2, MoveStep

(* The checkpoint of a run is written with the generation of its row. *)
LEMMA CheckpointStep ==
  ASSUME IInv, NEW x \in Exec, Live(x),
         cp' = [cp EXCEPT ![x] = Checkpoint(x)],
         generation' = [generation EXCEPT ![x] = run[x].total],
         RunShape',
         \A y \in Exec \ {x} : run'[y] = run[y],
         run'[x].msgs = run[x].msgs, run'[x].claimed = run[x].claimed, Live(x)',
         run[x].claimed # NoMsg <=> run'[x].at = "ack",
         UNCHANGED <<inbox, pruned, phase>>
  PROVE  IInv'
<1>1. /\ cp'[x].gen = run[x].total /\ cp'[x].msgs = run[x].msgs
      /\ cp'[x].exists /\ generation'[x] = run[x].total
      /\ \A y \in Exec \ {x} : cp'[y] = cp[y] /\ generation'[y] = generation[y]
  BY DEF IInv, Shape, CheckpointShape, CheckpointFields, RowShape, Checkpoint
<1>2. Shape'
  BY DEF IInv, Shape, CheckpointShape, CheckpointFields, RowShape, Checkpoint
<1>3. GenerationMatches'
  BY <1>1 DEF IInv, GenerationMatches
<1>4. ClaimsHeld'
  <2>1. run[x].claimed # NoMsg => run[x].claimed \in run[x].msgs
    BY DEF IInv, ClaimsHeld
  <2>2. QED
    BY <1>1, <2>1 DEF IInv, ClaimsHeld, Live
<1>5. \A m : Durable(m) => Durable(m)'
  <2>1. cp[x].msgs \subseteq cp'[x].msgs
    BY <1>1 DEF IInv, ClaimsHeld
  <2>2. QED
    BY <1>1, <2>1 DEF Durable
<1>6. NoMessageLost'
  BY <1>5 DEF IInv, NoMessageLost, Live
<1>7. QED
  BY <1>2, <1>3, <1>4, <1>6 DEF IInv

(* A run claims the oldest message, or finds none. *)
LEMMA ClaimStep ==
  ASSUME IInv, NEW x \in Exec, Claim(x)
  PROVE  IInv'
<1>1. /\ run[x].at = "loop" /\ run[x].claimed = NoMsg
      /\ UNCHANGED <<cp, generation, pruned, phase>>
  BY DEF Claim, At, rowVars, IInv, ClaimsHeld, history
<1>2. CASE Waiting = {}
  <2>1. /\ UNCHANGED inbox
        /\ run' = [run EXCEPT ![x].at = "save"]
    BY <1>2 DEF Claim
  <2>2. /\ RunShape' /\ run'[x].claimed = NoMsg /\ run'[x].at = "save"
        /\ run'[x].msgs = run[x].msgs
        /\ \A y \in Exec \ {x} : run'[y] = run[y]
    BY <1>1, <2>1, GoesRow DEF IInv
  <2>3. cp[x].msgs \subseteq run'[x].msgs
    BY <1>1, <2>2 DEF IInv, ClaimsHeld, Live
  <2>4. QED
    BY <1>1, <2>1, <2>2, <2>3, MoveStep
<1>3. CASE \E m \in Waiting : /\ inbox' = [inbox EXCEPT ![m] = "CLAIMED"]
                              /\ run' = [run EXCEPT ![x].at = "save",
                                                    ![x].total = @ + 1,
                                                    ![x].msgs = @ \cup {m},
                                                    ![x].claimed = m]
  <2>1. PICK m \in Msg : /\ inbox' = [inbox EXCEPT ![m] = "CLAIMED"]
                         /\ run' = [run EXCEPT ![x].at = "save",
                                               ![x].total = @ + 1,
                                               ![x].msgs = @ \cup {m},
                                               ![x].claimed = m]
    BY <1>3 DEF Waiting
  <2>2. /\ RunShape' /\ run'[x].claimed = m /\ run'[x].at = "save"
        /\ run'[x].msgs = run[x].msgs \cup {m}
        /\ \A y \in Exec \ {x} : run'[y] = run[y]
    <3>1. run = [y \in Exec |-> run[y]] /\ RunFields(run[x])
      BY RunRow DEF IInv
    <3>2. run'[x] = [at |-> "save", total |-> run[x].total + 1,
                     msgs |-> run[x].msgs \cup {m}, seq |-> run[x].seq, claimed |-> m,
                     tool |-> run[x].tool, last |-> run[x].last,
                     failed |-> run[x].failed]
      BY <2>1, <3>1 DEF RunFields
    <3>3. /\ run' = [y \in Exec |-> run'[y]]
          /\ \A y \in Exec \ {x} : run'[y] = run[y]
      BY <2>1, <3>1
    <3>4. RunFields(run'[x])
      BY <3>2 DEF RunFields
    <3>5. QED
      BY <3>2, <3>3, <3>4, RunRowChanged DEF IInv
  <2>3. /\ inbox'[m] = "CLAIMED"
        /\ \A n \in Msg \ {m} : inbox'[n] = inbox[n]
    BY <2>1 DEF IInv, Shape, RowShape
  <2>4. Shape' /\ GenerationMatches'
    BY <1>1, <2>1, <2>2 DEF IInv, Shape, CheckpointShape, RowShape, GenerationMatches
  <2>5. ClaimsHeld'
    <3>1. cp[x].msgs \subseteq run[x].msgs
      BY <1>1 DEF IInv, ClaimsHeld, Live
    <3>2. QED
      BY <1>1, <2>2, <3>1 DEF IInv, ClaimsHeld, Live
  <2>6. NoMessageLost'
    <3>1. SUFFICES ASSUME NEW n \in Msg
                   PROVE  /\ inbox'[n] = "CLAIMED" /\ phase' # "down" =>
                               \E y \in Exec : Live(y)' /\ run'[y].claimed = n
                          /\ inbox'[n] = "ACKED" => Durable(n)'
      BY DEF NoMessageLost
    <3>2. CASE n = m
      BY <2>2, <2>3, <3>2 DEF Live
    <3>3. CASE n # m
      <4>1. inbox'[n] = inbox[n] /\ n # NoMsg
        BY <2>3, <3>3, ExecutionAssumption
      <4>2. inbox'[n] = "ACKED" => Durable(n)'
        BY <1>1, <4>1 DEF IInv, NoMessageLost, Durable
      <4>3. ASSUME inbox'[n] = "CLAIMED", phase' # "down"
            PROVE  \E y \in Exec : Live(y)' /\ run'[y].claimed = n
        <5>1. PICK y \in Exec : Live(y) /\ run[y].claimed = n
          BY <1>1, <4>1, <4>3 DEF IInv, NoMessageLost
        <5>2. y # x
          BY <1>1, <4>1, <5>1
        <5>3. QED
          BY <2>2, <5>1, <5>2 DEF Live
      <4>4. QED
        BY <4>2, <4>3
    <3>4. QED
      BY <3>2, <3>3
  <2>7. QED
    BY <2>4, <2>5, <2>6 DEF IInv
<1>4. QED
  BY <1>2, <1>3 DEF Claim

(* The message of a saved run is acked. *)
LEMMA AckStep ==
  ASSUME IInv, NEW x \in Exec, Ack(x)
  PROVE  IInv'
<1> DEFINE m == run[x].claimed
<1>1. /\ run[x].at = "ack" /\ m # NoMsg /\ m \in pruned \cup cp[x].msgs
      /\ cp[x].msgs \subseteq run[x].msgs
      /\ UNCHANGED <<cp, generation, pruned, phase>>
  BY DEF Ack, At, rowVars, history, IInv, ClaimsHeld, Live
<1>2. /\ RunShape' /\ run'[x].at = "think" /\ run'[x].claimed = NoMsg
      /\ run'[x].msgs = run[x].msgs
      /\ \A y \in Exec \ {x} : run'[y] = run[y]
  <2>1. run = [y \in Exec |-> run[y]] /\ RunFields(run[x])
    BY RunRow DEF IInv
  <2>2. run'[x] = [at |-> "think", total |-> run[x].total, msgs |-> run[x].msgs,
                   seq |-> run[x].seq, claimed |-> NoMsg, tool |-> run[x].tool,
                   last |-> run[x].last, failed |-> run[x].failed]
    BY <2>1 DEF Ack, RunFields
  <2>3. /\ run' = [y \in Exec |-> run'[y]]
        /\ \A y \in Exec \ {x} : run'[y] = run[y]
    BY <2>1 DEF Ack
  <2>4. RunFields(run'[x])
    BY <2>2 DEF RunFields
  <2>5. QED
    BY <2>2, <2>3, <2>4, RunRowChanged DEF IInv
<1>3. /\ \A n \in Msg \ {m} : inbox'[n] = inbox[n]
      /\ m \in Msg => inbox'[m] = "ACKED"
      /\ inbox' = [n \in Msg |-> inbox'[n]]
  BY DEF Ack, IInv, Shape, RowShape
<1>4. Shape' /\ GenerationMatches'
  BY <1>1, <1>2, <1>3 DEF IInv, Shape, CheckpointShape, RowShape, GenerationMatches
<1>5. ClaimsHeld'
  BY <1>1, <1>2 DEF IInv, ClaimsHeld, Live
<1>6. NoMessageLost'
  <2>1. SUFFICES ASSUME NEW n \in Msg
                 PROVE  /\ inbox'[n] = "CLAIMED" /\ phase' # "down" =>
                             \E y \in Exec : Live(y)' /\ run'[y].claimed = n
                        /\ inbox'[n] = "ACKED" => Durable(n)'
    BY DEF NoMessageLost
  <2>2. CASE n = m
    BY <1>1, <1>3, <2>2 DEF Durable
  <2>3. CASE n # m
    <3>1. inbox'[n] = "ACKED" => Durable(n)'
      BY <1>1, <1>3, <2>3 DEF IInv, NoMessageLost, Durable
    <3>2. ASSUME inbox'[n] = "CLAIMED", phase' # "down"
          PROVE  \E y \in Exec : Live(y)' /\ run'[y].claimed = n
      <4>1. PICK y \in Exec : Live(y) /\ run[y].claimed = n
        BY <1>1, <1>3, <2>3, <3>2 DEF IInv, NoMessageLost
      <4>2. QED
        BY <1>2, <2>3, <4>1 DEF Live
    <3>3. QED
      BY <3>1, <3>2
  <2>4. QED
    BY <2>2, <2>3
<1>7. QED
  BY <1>4, <1>5, <1>6 DEF IInv

-----------------------------------------------------------------------------
LEMMA StartStep ==
  ASSUME IInv, NEW x \in Exec, Start(x)
  PROVE  IInv'
<1>1. /\ run[x].at = "off" /\ UNCHANGED <<cp, generation, inbox, pruned, phase>>
  BY DEF Start, At, dbVars, history
<1>2. CASE cp[x].exists /\ cp[x].gen # generation[x]
  BY <1>1, <1>2, QuietStep DEF Start
<1>3. CASE ~(cp[x].exists /\ cp[x].gen # generation[x])
  <2>1. run' = [run EXCEPT ![x] = [NoRun EXCEPT !.at = "begin", !.total = cp[x].total,
                                                !.msgs = cp[x].msgs]]
    BY <1>3 DEF Start
  <2>2. run = [y \in Exec |-> run[y]] /\ run[x].claimed = NoMsg
    BY <1>1, RunRow DEF IInv, ClaimsHeld
  <2>3. /\ run' = [y \in Exec |-> run'[y]]
        /\ \A y \in Exec \ {x} : run'[y] = run[y]
        /\ run'[x] = [NoRun EXCEPT !.at = "begin", !.total = cp[x].total,
                                   !.msgs = cp[x].msgs]
    BY <2>1, <2>2
  <2>4. /\ RunFields(run'[x]) /\ run'[x].at = "begin"
        /\ run'[x].claimed = NoMsg /\ run'[x].msgs = cp[x].msgs
    BY <2>3 DEF RunFields, NoRun
  <2>5. RunShape'
    BY <2>3, <2>4, RunRowChanged DEF IInv
  <2>6. QED
    BY <1>1, <2>2, <2>3, <2>4, <2>5, MoveStep
<1>4. QED
  BY <1>2, <1>3

LEMMA BeginStep ==
  ASSUME IInv, NEW x \in Exec, Begin(x)
  PROVE  IInv'
<1>1. /\ run[x].at = "begin" /\ run[x].claimed = NoMsg /\ RunFields(run[x])
      /\ run = [y \in Exec |-> run[y]]
      /\ UNCHANGED <<cp, generation, inbox, pruned, phase>>
  BY RunRow DEF Begin, At, history, IInv, ClaimsHeld
<1>2. run' = [run EXCEPT ![x].at = "loop", ![x].seq = Len(log')]
  BY DEF Begin
<1>3. run'[x] = [at |-> "loop", total |-> run[x].total, msgs |-> run[x].msgs,
                 seq |-> Len(log'), claimed |-> NoMsg, tool |-> run[x].tool,
                 last |-> run[x].last, failed |-> run[x].failed]
  BY <1>1, <1>2 DEF RunFields
<1>4. /\ run' = [y \in Exec |-> run'[y]]
      /\ \A y \in Exec \ {x} : run'[y] = run[y]
  BY <1>1, <1>2
<1>5. RunFields(run'[x])
  BY <1>3 DEF RunFields
<1>6. QED
  BY <1>1, <1>3, <1>4, <1>5, LiveStep DEF Live

(* A run goes to "step" with the outcome of its call and whether it ends.  *)
LEMMA OutcomeStep ==
  ASSUME IInv, NEW x \in Exec, Live(x), run[x].at \notin {"save", "ack"},
         NEW tool, NEW last,
         \/ run' = [run EXCEPT ![x].at = "step", ![x].tool = tool]
         \/ run' = [run EXCEPT ![x].at = "step", ![x].last = last],
         UNCHANGED <<cp, generation, inbox, pruned, phase>>
  PROVE  IInv'
<1>1. /\ run[x].claimed = NoMsg /\ RunFields(run[x])
      /\ run = [y \in Exec |-> run[y]]
  BY RunRow DEF IInv, ClaimsHeld
<1>2. /\ run' = [y \in Exec |-> run'[y]]
      /\ \A y \in Exec \ {x} : run'[y] = run[y]
  BY <1>1
<1>3. /\ RunFields(run'[x]) /\ run'[x].at = "step"
      /\ run'[x].claimed = NoMsg /\ run'[x].msgs = run[x].msgs
  <2>1. CASE run' = [run EXCEPT ![x].at = "step", ![x].tool = tool]
    <3>1. run'[x] = [at |-> "step", total |-> run[x].total, msgs |-> run[x].msgs,
                     seq |-> run[x].seq, claimed |-> NoMsg, tool |-> tool,
                     last |-> run[x].last, failed |-> run[x].failed]
      BY <1>1, <2>1 DEF RunFields
    <3>2. QED
      BY <3>1 DEF RunFields
  <2>2. CASE run' = [run EXCEPT ![x].at = "step", ![x].last = last]
    <3>1. run'[x] = [at |-> "step", total |-> run[x].total, msgs |-> run[x].msgs,
                     seq |-> run[x].seq, claimed |-> NoMsg, tool |-> run[x].tool,
                     last |-> last, failed |-> run[x].failed]
      BY <1>1, <2>2 DEF RunFields
    <3>2. QED
      BY <3>1 DEF RunFields
  <2>3. QED
    BY <2>1, <2>2
<1>4. QED
  BY <1>2, <1>3, LiveStep

(* A run goes from one place without a claim to another. *)
LEMMA PlaceStep ==
  ASSUME IInv, NEW x \in Exec, NEW from, NEW to, Goes(x, from, to),
         from \notin {"off", "save", "ack"}, to \notin {"off", "ack"},
         UNCHANGED <<cp, generation, inbox, pruned, phase>>
  PROVE  IInv'
<1>1. run[x].at = from /\ run' = [run EXCEPT ![x].at = to]
  BY DEF Goes, At
<1>2. /\ run[x].claimed = NoMsg /\ cp[x].msgs \subseteq run[x].msgs
  BY <1>1 DEF IInv, ClaimsHeld, Live
<1>3. /\ RunShape' /\ run'[x].at = to /\ run'[x].msgs = run[x].msgs
      /\ run'[x].claimed = NoMsg /\ \A y \in Exec \ {x} : run'[y] = run[y]
  BY <1>1, <1>2, GoesRow DEF IInv
<1>4. QED
  BY <1>2, <1>3, MoveStep

(* A step of a run is recorded. *)
LEMMA RecordStep ==
  ASSUME IInv, NEW x \in Exec, Step(x)
  PROVE  IInv'
<1>1. /\ run[x].at = "step" /\ run = [y \in Exec |-> run[y]]
      /\ UNCHANGED <<cp, generation, inbox, pruned, phase>>
  BY RunRow DEF Step, At, IInv
<1>2. PICK ends \in BOOLEAN :
        run' = [run EXCEPT ![x] = [NoRun EXCEPT !.at = IF ends THEN "final" ELSE "loop",
                                                !.total = run[x].total + 1,
                                                !.msgs = run[x].msgs,
                                                !.seq = Len(log')]]
  BY DEF Step
<1>3. /\ run' = [y \in Exec |-> run'[y]]
      /\ \A y \in Exec \ {x} : run'[y] = run[y]
      /\ run'[x] = [NoRun EXCEPT !.at = IF ends THEN "final" ELSE "loop",
                                 !.total = run[x].total + 1, !.msgs = run[x].msgs,
                                 !.seq = Len(log')]
  BY <1>1, <1>2
<1>4. /\ RunFields(run'[x]) /\ run'[x].at \in {"final", "loop"}
      /\ run'[x].claimed = NoMsg /\ run'[x].msgs = run[x].msgs
  BY <1>3 DEF RunFields, NoRun
<1>5. QED
  BY <1>1, <1>3, <1>4, LiveStep DEF Live

LEMMA SaveStep ==
  ASSUME IInv, NEW x \in Exec, Save(x)
  PROVE  IInv'
<1>1. PICK to \in {"think", "ack"} :
        /\ run[x].at = "save" /\ run' = [run EXCEPT ![x].at = to]
        /\ run[x].claimed # NoMsg <=> to = "ack"
  BY DEF Save, Goes, At
<1>2. /\ cp' = [cp EXCEPT ![x] = Checkpoint(x)]
      /\ generation' = [generation EXCEPT ![x] = run[x].total]
      /\ UNCHANGED <<inbox, pruned, phase>>
  BY DEF Save, history
<1>3. /\ RunShape' /\ run'[x].at = to /\ run'[x].msgs = run[x].msgs
      /\ run'[x].claimed = run[x].claimed /\ \A y \in Exec \ {x} : run'[y] = run[y]
  BY <1>1, GoesRow DEF IInv
<1>4. Live(x) /\ Live(x)' /\ (run[x].claimed # NoMsg <=> run'[x].at = "ack")
  BY <1>1, <1>3 DEF Live
<1>5. QED
  BY <1>2, <1>3, <1>4, CheckpointStep

LEMMA FinalStep ==
  ASSUME IInv, NEW x \in Exec, Final(x)
  PROVE  IInv'
<1>1. /\ run[x].at = "final" /\ run[x].claimed = NoMsg /\ RunFields(run[x])
      /\ run = [y \in Exec |-> run[y]] /\ UNCHANGED <<inbox, pruned, phase>>
      /\ cp' = [cp EXCEPT ![x] = Checkpoint(x)]
      /\ generation' = [generation EXCEPT ![x] = run[x].total]
  BY RunRow DEF Final, At, history, IInv, ClaimsHeld
<1>2. PICK failed \in BOOLEAN :
        run' = [run EXCEPT ![x].at = "reply", ![x].failed = failed]
  BY DEF Final
<1>3. run'[x] = [at |-> "reply", total |-> run[x].total, msgs |-> run[x].msgs,
                 seq |-> run[x].seq, claimed |-> NoMsg, tool |-> run[x].tool,
                 last |-> run[x].last, failed |-> failed]
  BY <1>1, <1>2 DEF RunFields
<1>4. /\ run' = [y \in Exec |-> run'[y]]
      /\ \A y \in Exec \ {x} : run'[y] = run[y]
  BY <1>1, <1>2
<1>5. RunFields(run'[x])
  BY <1>3 DEF RunFields
<1>6. RunShape'
  BY <1>4, <1>5, RunRowChanged DEF IInv
<1>7. /\ Live(x) /\ Live(x)' /\ (run[x].claimed # NoMsg <=> run'[x].at = "ack")
      /\ run'[x].msgs = run[x].msgs /\ run'[x].claimed = run[x].claimed
  BY <1>1, <1>3 DEF Live
<1>8. QED
  BY <1>1, <1>4, <1>6, <1>7, CheckpointStep

LEMMA RunStepInv ==
  ASSUME IInv, NEW x \in Exec, RunStep(x) \/ ApprovalAnswered(x)
  PROVE  IInv'
<1>1. CASE Start(x)
  BY <1>1, StartStep
<1>2. CASE Begin(x)
  BY <1>2, BeginStep
<1>3. CASE CancelledAtLoop(x)
  BY <1>3, ReturnStep DEF CancelledAtLoop, At, Returns, dbVars, history
<1>4. CASE Claim(x)
  BY <1>4, ClaimStep
<1>5. CASE Save(x)
  BY <1>5, SaveStep
<1>6. CASE Ack(x)
  BY <1>6, AckStep
<1>7. CASE Abort(x)
  BY <1>7, ReturnStep DEF Abort, At, Returns, dbVars, history
<1>8. CASE Answer(x)
  <2>1. UNCHANGED <<cp, generation, inbox, pruned, phase>>
    BY <1>8 DEF Answer, dbVars, history
  <2>2. CASE Goes(x, "think", "act")
    BY <2>1, <2>2, PlaceStep
  <2>3. CASE ~Goes(x, "think", "act")
    BY <1>8, <2>1, <2>3, OutcomeStep DEF Answer, At, Live
  <2>4. QED
    BY <2>2, <2>3
<1>9. CASE AskApproval(x)
  <2>1. /\ Goes(x, "think", "ask")
        /\ UNCHANGED <<cp, generation, inbox, pruned, phase>>
    BY <1>9 DEF AskApproval, rowVars, history
  <2>2. QED
    BY <2>1, PlaceStep
<1>10. CASE ApprovalAnswered(x)
  <2>1. UNCHANGED <<cp, generation, inbox, pruned, phase>>
    BY <1>10 DEF ApprovalAnswered, dbVars, history
  <2>2. CASE Goes(x, "ask", "act")
    BY <2>1, <2>2, PlaceStep
  <2>3. CASE ~Goes(x, "ask", "act")
    BY <1>10, <2>1, <2>3, OutcomeStep DEF ApprovalAnswered, At, Live
  <2>4. QED
    BY <2>2, <2>3
<1>11. CASE CancelledWhileAsking(x)
  BY <1>11, ReturnStep DEF CancelledWhileAsking, At, Returns, dbVars, history
<1>12. CASE Act(x)
  BY <1>12, OutcomeStep DEF Act, At, Live, dbVars
<1>13. CASE CancelledWhileActing(x)
  BY <1>13, ReturnStep DEF CancelledWhileActing, At, Returns, dbVars
<1>14. CASE Step(x)
  BY <1>14, RecordStep
<1>15. CASE Final(x)
  BY <1>15, FinalStep
<1>16. CASE Reply(x)
  <2>1. /\ Goes(x, "reply", "complete")
        /\ UNCHANGED <<cp, generation, inbox, pruned, phase>>
    BY <1>16 DEF Reply, dbVars, history
  <2>2. QED
    BY <2>1, PlaceStep
<1>17. CASE Complete(x)
  BY <1>17, ReturnStep DEF Complete, At, Returns, history
<1>18. QED
  BY <1>1, <1>2, <1>3, <1>4, <1>5, <1>6, <1>7, <1>8, <1>9, <1>10, <1>11, <1>12,
     <1>13, <1>14, <1>15, <1>16, <1>17 DEF RunStep

-----------------------------------------------------------------------------
(* A message comes into the inbox. *)
LEMMA DeliverStep ==
  ASSUME IInv, NEW m \in Msg, DeliverMessage(m)
  PROVE  IInv'
<1>1. /\ inbox' = [inbox EXCEPT ![m] = "QUEUED"]
      /\ UNCHANGED <<cp, generation, pruned, run, phase>>
  BY DEF DeliverMessage, Sends, rowVars, runVars, history
<1>2. /\ inbox' = [n \in Msg |-> inbox'[n]] /\ inbox'[m] = "QUEUED"
      /\ \A n \in Msg \ {m} : inbox'[n] = inbox[n]
  BY <1>1 DEF IInv, Shape, RowShape
<1>3. Shape' /\ GenerationMatches'
  BY <1>1, <1>2 DEF IInv, Shape, CheckpointShape, RunShape, RowShape, GenerationMatches
<1>4. ClaimsHeld'
  BY <1>1 DEF IInv, ClaimsHeld, Live
<1>5. NoMessageLost'
  BY <1>1, <1>2 DEF IInv, NoMessageLost, Live, Durable
<1>6. QED
  BY <1>3, <1>4, <1>5 DEF IInv

(* Housekeeping prunes checkpoints: their messages are counted as pruned.  *)
LEMMA PruneStep ==
  ASSUME IInv, PruneCheckpoints
  PROVE  IInv'
<1>1. /\ cp' = [x \in Exec |-> IF x \in old THEN NoCheckpoint ELSE cp[x]]
      /\ pruned' = pruned \cup UNION {cp[x].msgs : x \in old}
      /\ UNCHANGED <<generation, inbox, run, phase>>
  BY DEF PruneCheckpoints, rowVars, memVars
<1>2. \A x \in Exec : cp'[x] = IF x \in old THEN NoCheckpoint ELSE cp[x]
  BY <1>1
<1>3. CheckpointShape'
  BY <1>1, <1>2 DEF IInv, Shape, CheckpointShape, CheckpointFields, NoCheckpoint
<1>4. Shape'
  BY <1>1, <1>3 DEF IInv, Shape, RunShape, RowShape
<1>5. \A x \in Exec : cp'[x].exists => cp'[x] = cp[x]
  BY <1>2 DEF NoCheckpoint
<1>6. \A x \in Exec : /\ cp'[x].msgs \subseteq cp[x].msgs
                      /\ cp[x].msgs \subseteq pruned' \cup cp'[x].msgs
  BY <1>1, <1>2 DEF NoCheckpoint
<1>7. GenerationMatches'
  BY <1>1, <1>5 DEF IInv, GenerationMatches
<1>8. ClaimsHeld'
  BY <1>1, <1>6 DEF IInv, ClaimsHeld, Live
<1>9. NoMessageLost'
  <2>1. \A m \in Msg : Durable(m) => Durable(m)'
    BY <1>1, <1>6 DEF Durable
  <2>2. QED
    BY <1>1, <2>1 DEF IInv, NoMessageLost, Live
<1>10. QED
  BY <1>4, <1>7, <1>8, <1>9 DEF IInv

(* A crash ends every run and leaves the tables alone. *)
LEMMA CrashStep ==
  ASSUME IInv, Crash
  PROVE  IInv'
<1>1. /\ run' = [x \in Exec |-> NoRun] /\ phase' = "down"
      /\ UNCHANGED <<cp, generation, inbox, pruned>>
  BY DEF Crash, dbVars
<1>2. \A x \in Exec : /\ RunFields(run'[x]) /\ run'[x].at = "off"
                      /\ run'[x].claimed = NoMsg
  BY <1>1 DEF RunFields, NoRun
<1>3. RunShape'
  BY <1>1, <1>2 DEF RunShape
<1>4. Shape' /\ GenerationMatches'
  BY <1>1, <1>3 DEF IInv, Shape, CheckpointShape, RowShape, GenerationMatches
<1>5. ClaimsHeld'
  BY <1>2 DEF ClaimsHeld, Live
<1>6. NoMessageLost'
  BY <1>1 DEF IInv, NoMessageLost, Durable
<1>7. QED
  BY <1>4, <1>5, <1>6 DEF IInv

(* What recovery writes: a checkpoint with the messages it had and, if it  *)
(* exists, the generation that goes to its row.                            *)
LEMMA ReplayRow ==
  ASSUME CheckpointShape, NEW x \in Exec
  PROVE  /\ CheckpointFields(Replay(x)) /\ Replay(x).msgs = cp[x].msgs
         /\ Replay(x).exists = cp[x].exists
<1>1. CheckpointFields(cp[x])
  BY DEF CheckpointShape
<1>2. CASE cp[x].exists
  <2>1. Replay(x) = [gen |-> ReplayTotal(x), total |-> ReplayTotal(x),
                     msgs |-> cp[x].msgs, seq |-> Len(log), exists |-> cp[x].exists]
    BY <1>1, <1>2 DEF Replay, CheckpointFields
  <2>2. QED
    BY <2>1 DEF CheckpointFields
<1>3. CASE ~cp[x].exists
  BY <1>1, <1>3 DEF Replay
<1>4. QED
  BY <1>2, <1>3

LEMMA RecoverStep ==
  ASSUME IInv, Recover
  PROVE  IInv'
<1>1. /\ phase = "down" /\ UNCHANGED <<pruned, run>>
      /\ cp' = [x \in Exec |-> IF x \in Crashed THEN Replay(x) ELSE cp[x]]
      /\ generation' = [x \in Exec |-> IF x \in Crashed THEN Replay(x).gen
                                                        ELSE generation[x]]
      /\ inbox' = [m \in Msg |-> IF inbox[m] = "CLAIMED" THEN "QUEUED" ELSE inbox[m]]
  BY DEF Recover, runVars, history
<1>2. CheckpointShape
  BY DEF IInv, Shape
<1>3. \A x \in Exec : /\ cp'[x].msgs = cp[x].msgs /\ cp'[x].exists = cp[x].exists
                      /\ CheckpointFields(cp'[x])
  <2>1. TAKE x \in Exec
  <2>2. CASE x \in Crashed
    BY <1>1, <1>2, <2>2, ReplayRow
  <2>3. CASE x \notin Crashed
    BY <1>1, <1>2, <2>3 DEF CheckpointShape
  <2>4. QED
    BY <2>2, <2>3
<1>4. Shape'
  <2>1. CheckpointShape'
    BY <1>1, <1>3 DEF CheckpointShape
  <2>2. RowShape'
    BY <1>1 DEF RowShape
  <2>3. RunShape'
    BY <1>1 DEF IInv, Shape, RunShape
  <2>4. QED
    BY <2>1, <2>2, <2>3 DEF Shape
<1>5. GenerationMatches'
  <2>1. SUFFICES ASSUME NEW x \in Exec, cp'[x].exists
                 PROVE  cp'[x].gen = generation'[x]
    BY DEF GenerationMatches
  <2>2. CASE x \in Crashed
    BY <1>1, <2>2
  <2>3. CASE x \notin Crashed
    BY <1>1, <2>1, <2>3 DEF IInv, GenerationMatches
  <2>4. QED
    BY <2>2, <2>3
<1>6. ClaimsHeld'
  BY <1>1, <1>3 DEF IInv, ClaimsHeld, Live
<1>7. NoMessageLost'
  <2>1. SUFFICES ASSUME NEW m \in Msg
                 PROVE  /\ inbox'[m] # "CLAIMED"
                        /\ inbox'[m] = "ACKED" => Durable(m)'
    BY DEF NoMessageLost
  <2>2. inbox'[m] # "CLAIMED" /\ (inbox'[m] = "ACKED" => inbox[m] = "ACKED")
    BY <1>1
  <2>3. Durable(m) => Durable(m)'
    BY <1>1, <1>3 DEF Durable
  <2>4. QED
    BY <2>2, <2>3 DEF IInv, NoMessageLost
<1>8. QED
  BY <1>4, <1>5, <1>6, <1>7 DEF IInv

(* The program is up again: nothing that the tables hold has changed, and  *)
(* no message was claimed by a dead run, since recovery has reverted them. *)
LEMMA QueueRecoveredStep ==
  ASSUME IInv, QueueRecovered
  PROVE  IInv'
<1>1. /\ phase = "booting" /\ phase' = "up"
      /\ UNCHANGED <<cp, generation, inbox, pruned, run>>
  BY DEF QueueRecovered, dbVars, history
<1>2. Shape' /\ GenerationMatches' /\ ClaimsHeld'
  BY <1>1 DEF IInv, Shape, CheckpointShape, RunShape, RowShape, GenerationMatches,
              ClaimsHeld, Live
<1>3. NoMessageLost'
  BY <1>1 DEF IInv, NoMessageLost, Live, Durable
<1>4. QED
  BY <1>2, <1>3 DEF IInv

-----------------------------------------------------------------------------
(* Every step of the program keeps the invariant: one step per group of    *)
(* actions, in the order of Next.                                          *)
LEMMA NextStep == IInv /\ [Next]_vars => IInv'
<1> SUFFICES ASSUME IInv, [Next]_vars
             PROVE  IInv'
  OBVIOUS
<1>1. ASSUME NEW m \in Msg, Send(m)
      PROVE  IInv'
  <2>1. CASE SendMessage(m)
    BY <2>1, QuietStep DEF SendMessage, Sends, rowVars, runVars, history
  <2>2. CASE InsertExecution(m)
    BY <2>2, QuietStep DEF InsertExecution, Sends, runVars, history
  <2>3. CASE DeliverMessage(m)
    BY <2>3, DeliverStep
  <2>4. CASE ScheduleMessage(m)
    BY <2>4, QuietStep DEF ScheduleMessage, Sends, dbVars
  <2>5. QED
    BY <1>1, <2>1, <2>2, <2>3, <2>4 DEF Send
<1>2. ASSUME NEW x \in Exec, RunStep(x) \/ ApprovalAnswered(x)
      PROVE  IInv'
  BY <1>2, RunStepInv
<1>3. ASSUME NEW x \in Exec, CancelExecution(x) \/ Kill(x) \/ TenMinutesPass(x)
      PROVE  IInv'
  <2>1. CASE CancelExecution(x)
    BY <2>1, QuietStep DEF CancelExecution, dbVars, history
  <2>2. CASE Kill(x)
    BY <2>2, QuietStep DEF Kill
  <2>3. CASE TenMinutesPass(x)
    BY <2>3, QuietStep DEF TenMinutesPass, memVars, history
  <2>4. QED
    BY <1>3, <2>1, <2>2, <2>3
<1>4. ASSUME Housekeeping
      PROVE  IInv'
  <2>1. CASE ReadStalled
    BY <2>1, QuietStep DEF ReadStalled, dbVars, runVars, history
  <2>2. CASE FailStalled
    BY <2>2, QuietStep DEF FailStalled, runVars, history
  <2>3. CASE PruneCheckpoints
    BY <2>3, PruneStep
  <2>4. QED
    BY <1>4, <2>1, <2>2, <2>3 DEF Housekeeping
<1>5. ASSUME DayPasses
      PROVE  IInv'
  BY <1>5, QuietStep DEF DayPasses, memVars, history
<1>6. ASSUME Boot
      PROVE  IInv'
  BY <1>6, RecoverStep, QueueRecoveredStep DEF Boot
<1>7. CASE UNCHANGED vars
  BY <1>7, QuietStep DEF vars
<1>8. QED
  BY <1>1, <1>2, <1>3, <1>4, <1>5, <1>6, <1>7, CrashStep DEF Next

(* The generation of a row and of its checkpoint agree in every reachable  *)
(* state, across crashes, recoveries and prunings at any point and for any *)
(* number of executions: load_checkpoint never finds a stale generation.   *)
THEOREM GenerationsMatch == Spec => []GenerationMatches
<1>1. Init => IInv
  BY InvInit
<1>2. IInv /\ [Next]_vars => IInv'
  BY NextStep
<1>3. IInv => GenerationMatches
  BY DEF IInv
<1>4. QED
  BY <1>1, <1>2, <1>3, PTL DEF Spec

(* Between claim_next, save_checkpoint and ack, and through any crash, a   *)
(* message to the agent is queued, held by a live run, or in a checkpoint  *)
(* until that is pruned: at-least-once delivery.                           *)
THEOREM MessagesKept == Spec => []NoMessageLost
<1>1. Init => IInv
  BY InvInit
<1>2. IInv /\ [Next]_vars => IInv'
  BY NextStep
<1>3. IInv => NoMessageLost
  BY DEF IInv
<1>4. QED
  BY <1>1, <1>2, <1>3, PTL DEF Spec
-----------------------------------------------------------------------------
(* Effects of tools and their traces in the log.  Only a run about to      *)
(* record its step has an effect to record, and a run that ends has none:  *)
(* the bound of EffectsAreLogged moves with the run.                       *)
HasEffect(x) == IF run[x].tool = "done" THEN 1 ELSE 0

EffectsInv ==
  /\ unlogged \in [Exec -> Int] /\ crashes \in Nat /\ cuts \in Nat
  /\ \A x \in Exec : run[x].tool = "done" => run[x].at = "step"
  /\ \A x \in Exec : unlogged[x] <= crashes + cuts + HasEffect(x)

(* Steps that no run takes. *)
LEMMA EffectsStay ==
  ASSUME EffectsInv, UNCHANGED <<run, unlogged, crashes, cuts>>
  PROVE  EffectsInv'
BY DEF EffectsInv, HasEffect

(* A run that had no effect to record goes on without one. *)
LEMMA NoEffectStep ==
  ASSUME EffectsInv, NEW x \in Exec, run[x].at # "step", run'[x].tool # "done",
         \A y \in Exec \ {x} : run'[y] = run[y],
         UNCHANGED <<unlogged, crashes, cuts>>
  PROVE  EffectsInv'
<1>1. HasEffect(x) = 0 /\ HasEffect(x)' = 0
  BY DEF EffectsInv, HasEffect
<1>2. ASSUME NEW y \in Exec
      PROVE  /\ HasEffect(y)' = HasEffect(y)
             /\ run'[y].tool = "done" => run'[y].at = "step"
  <2>1. CASE y = x
    BY <1>1, <2>1
  <2>2. CASE y # x
    <3>1. run'[y] = run[y]
      BY <2>2
    <3>2. QED
      BY <3>1 DEF EffectsInv, HasEffect
  <2>3. QED
    BY <2>1, <2>2
<1>3. QED
  BY <1>2 DEF EffectsInv

(* The row of a run whose tool has come to an end. *)
LEMMA ToolRow ==
  ASSUME RunShape, NEW x \in Exec, NEW tool,
         run' = [run EXCEPT ![x].at = "step", ![x].tool = tool]
  PROVE  /\ run'[x].at = "step" /\ run'[x].tool = tool
         /\ \A y \in Exec \ {x} : run'[y] = run[y]
<1>1. RunFields(run[x]) /\ run = [y \in Exec |-> run[y]]
  BY DEF RunShape
<1>2. run'[x] = [at |-> "step", total |-> run[x].total, msgs |-> run[x].msgs,
                 seq |-> run[x].seq, claimed |-> run[x].claimed, tool |-> tool,
                 last |-> run[x].last, failed |-> run[x].failed]
  BY <1>1 DEF RunFields
<1>3. \A y \in Exec \ {x} : run'[y] = run[y]
  BY <1>1
<1>4. run'[x].at = "step" /\ run'[x].tool = tool
  BY <1>2
<1>5. QED
  BY <1>3, <1>4

LEMMA ActEffects ==
  ASSUME RunShape, EffectsInv, NEW x \in Exec, Act(x)
  PROVE  EffectsInv'
<1>1. run[x].at = "act" /\ UNCHANGED <<crashes, cuts>>
  BY DEF Act, At
<1>2. CASE /\ run' = [run EXCEPT ![x].at = "step", ![x].tool = "done"]
           /\ unlogged' = [unlogged EXCEPT ![x] = @ + 1]
  <2>1. /\ run'[x].at = "step" /\ run'[x].tool = "done"
        /\ \A y \in Exec \ {x} : run'[y] = run[y]
    BY <1>2, ToolRow
  <2>2. /\ unlogged' \in [Exec -> Int] /\ unlogged'[x] = unlogged[x] + 1
        /\ \A y \in Exec \ {x} : unlogged'[y] = unlogged[y]
    BY <1>2 DEF EffectsInv
  <2>3. HasEffect(x) = 0 /\ HasEffect(x)' = 1
    BY <1>1, <2>1 DEF EffectsInv, HasEffect
  <2>4. ASSUME NEW y \in Exec
        PROVE  /\ run'[y].tool = "done" => run'[y].at = "step"
               /\ unlogged'[y] <= crashes + cuts + HasEffect(y)'
    <3>1. CASE y = x
      BY <2>1, <2>2, <2>3, <3>1 DEF EffectsInv
    <3>2. CASE y # x
      BY <2>1, <2>2, <3>2 DEF EffectsInv, HasEffect
    <3>3. QED
      BY <3>1, <3>2
  <2>5. QED
    BY <1>1, <2>2, <2>4 DEF EffectsInv
<1>3. CASE /\ run' = [run EXCEPT ![x].at = "step", ![x].tool = "failed"]
           /\ UNCHANGED unlogged
  <2>1. run'[x].tool = "failed" /\ \A y \in Exec \ {x} : run'[y] = run[y]
    BY <1>3, ToolRow
  <2>2. QED
    BY <1>1, <1>3, <2>1, NoEffectStep
<1>4. QED
  BY <1>2, <1>3 DEF Act

(* A cancellation drops an effect without a trace, and is counted.         *)
LEMMA CutEffects ==
  ASSUME RunShape, EffectsInv, NEW x \in Exec, CancelledWhileActing(x)
  PROVE  EffectsInv'
<1>1. /\ run[x].at = "act" /\ UNCHANGED crashes
      /\ run'[x] = NoRun /\ \A y \in Exec \ {x} : run'[y] = run[y]
  BY DEF CancelledWhileActing, At, Returns, RunShape
<1>2. CASE unlogged' = [unlogged EXCEPT ![x] = @ + 1] /\ cuts' = cuts + 1
  <2>1. /\ unlogged' \in [Exec -> Int] /\ unlogged'[x] = unlogged[x] + 1
        /\ \A y \in Exec \ {x} : unlogged'[y] = unlogged[y]
    BY <1>2 DEF EffectsInv
  <2>2. HasEffect(x) = 0 /\ HasEffect(x)' = 0 /\ run'[x].tool # "done"
    BY <1>1 DEF EffectsInv, HasEffect, NoRun
  <2>3. ASSUME NEW y \in Exec
        PROVE  /\ run'[y].tool = "done" => run'[y].at = "step"
               /\ unlogged'[y] <= crashes + (cuts + 1) + HasEffect(y)'
    <3>1. CASE y = x
      BY <2>1, <2>2, <3>1 DEF EffectsInv
    <3>2. CASE y # x
      <4>1. HasEffect(y)' = HasEffect(y) /\ HasEffect(y) \in {0, 1}
        BY <1>1, <3>2 DEF HasEffect
      <4>2. QED
        BY <1>1, <2>1, <3>2, <4>1 DEF EffectsInv
    <3>3. QED
      BY <3>1, <3>2
  <2>4. QED
    BY <1>1, <1>2, <2>1, <2>3 DEF EffectsInv
<1>3. CASE UNCHANGED <<unlogged, cuts>>
  BY <1>1, <1>3, NoEffectStep DEF NoRun
<1>4. QED
  BY <1>2, <1>3 DEF CancelledWhileActing

(* The step is recorded, and what its tool has done with it. *)
LEMMA RecordEffects ==
  ASSUME RunShape, EffectsInv, NEW x \in Exec, Step(x)
  PROVE  EffectsInv'
<1>1. /\ UNCHANGED <<crashes, cuts>>
      /\ unlogged' = IF run[x].tool = "done" THEN [unlogged EXCEPT ![x] = @ - 1] ELSE unlogged
  BY DEF Step
<1>2. run'[x].tool = "none" /\ \A y \in Exec \ {x} : run'[y] = run[y]
  <2>1. run = [y \in Exec |-> run[y]]
    BY DEF RunShape
  <2>2. PICK ends \in BOOLEAN :
          run' = [run EXCEPT ![x] = [NoRun EXCEPT !.at = IF ends THEN "final" ELSE "loop",
                                                  !.total = run[x].total + 1,
                                                  !.msgs = run[x].msgs,
                                                  !.seq = Len(log')]]
    BY DEF Step
  <2>3. /\ \A y \in Exec \ {x} : run'[y] = run[y]
        /\ run'[x] = [NoRun EXCEPT !.at = IF ends THEN "final" ELSE "loop",
                                   !.total = run[x].total + 1, !.msgs = run[x].msgs,
                                   !.seq = Len(log')]
    BY <2>1, <2>2
  <2>4. QED
    BY <2>3 DEF NoRun
<1>3. /\ unlogged' \in [Exec -> Int] /\ unlogged'[x] = unlogged[x] - HasEffect(x)
      /\ \A y \in Exec \ {x} : unlogged'[y] = unlogged[y]
  BY <1>1 DEF EffectsInv, HasEffect
<1>4. ASSUME NEW y \in Exec
      PROVE  /\ run'[y].tool = "done" => run'[y].at = "step"
             /\ unlogged'[y] <= crashes + cuts + HasEffect(y)'
  <2>1. CASE y = x
    <3>1. HasEffect(x) \in {0, 1} /\ HasEffect(x)' = 0
      BY <1>2 DEF HasEffect
    <3>2. QED
      BY <1>2, <1>3, <2>1, <3>1 DEF EffectsInv
  <2>2. CASE y # x
    BY <1>2, <1>3, <2>2 DEF EffectsInv, HasEffect
  <2>3. QED
    BY <2>1, <2>2
<1>5. QED
  BY <1>1, <1>3, <1>4 DEF EffectsInv

LEMMA CrashEffects ==
  ASSUME EffectsInv, Crash
  PROVE  EffectsInv'
<1>1. /\ run' = [x \in Exec |-> NoRun] /\ crashes' = crashes + 1
      /\ UNCHANGED <<unlogged, cuts>>
  BY DEF Crash
<1>2. ASSUME NEW x \in Exec
      PROVE  /\ run'[x].tool # "done"
             /\ unlogged[x] <= (crashes + 1) + cuts + HasEffect(x)'
  <2>1. run'[x].tool # "done"
    BY <1>1 DEF NoRun
  <2>2. HasEffect(x) \in {0, 1} /\ HasEffect(x)' = 0
    BY <2>1 DEF HasEffect
  <2>3. QED
    BY <2>1, <2>2 DEF EffectsInv
<1>3. QED
  BY <1>1, <1>2 DEF EffectsInv

(* The steps of a run that meet no effect: the new row of the run, and     *)
(* what the step leaves alone.                                             *)
LEMMA RunStepEffects ==
  ASSUME RunShape, EffectsInv, NEW x \in Exec, RunStep(x) \/ ApprovalAnswered(x)
  PROVE  EffectsInv'
<1> DEFINE Others == \A y \in Exec \ {x} : run'[y] = run[y]
           Same == UNCHANGED <<unlogged, crashes, cuts>>
           Calm == run[x].at # "step" /\ run'[x].tool # "done" /\ Others /\ Same
<1>1. ASSUME Calm PROVE EffectsInv'
  BY <1>1, NoEffectStep
<1>2. run[x].at # "step" => run[x].tool # "done"
  BY DEF EffectsInv
<1>3. CASE Start(x)
  <2>1. run[x].at # "step" /\ Same
    BY <1>3 DEF Start, At, history
  <2>2. run'[x].tool # "done" /\ Others
    BY <1>2, <1>3, <2>1 DEF Start, NoRun, RunShape
  <2>3. QED
    BY <1>1, <2>1, <2>2
<1>4. CASE Begin(x)
  <2>1. run[x].at # "step" /\ Same
    BY <1>4 DEF Begin, At, history
  <2>2. run'[x].tool = run[x].tool /\ Others
    BY <1>4 DEF Begin, RunShape, RunFields
  <2>3. QED
    BY <1>1, <1>2, <2>1, <2>2
<1>5. CASE CancelledAtLoop(x) \/ Abort(x) \/ CancelledWhileAsking(x) \/ Complete(x)
  <2>1. run[x].at # "step" /\ Same
    BY <1>5 DEF CancelledAtLoop, Abort, CancelledWhileAsking, Complete, At, history
  <2>2. run'[x].tool # "done" /\ Others
    BY <1>5 DEF CancelledAtLoop, Abort, CancelledWhileAsking, Complete, Returns, NoRun, RunShape
  <2>3. QED
    BY <1>1, <2>1, <2>2
<1>6. CASE Claim(x)
  <2>1. run[x].at = "loop" /\ Same
    BY <1>6 DEF Claim, At, history
  <2>2. run'[x].tool = run[x].tool /\ Others
    <3>1. RunFields(run[x]) /\ run = [y \in Exec |-> run[y]]
      BY DEF RunShape
    <3>2. CASE run' = [run EXCEPT ![x].at = "save"]
      BY <3>1, <3>2 DEF RunFields
    <3>3. ASSUME NEW m \in Msg,
                 run' = [run EXCEPT ![x].at = "save", ![x].total = @ + 1,
                                    ![x].msgs = @ \cup {m}, ![x].claimed = m]
          PROVE  run'[x].tool = run[x].tool /\ Others
      <4>1. run'[x] = [at |-> "save", total |-> run[x].total + 1,
                       msgs |-> run[x].msgs \cup {m}, seq |-> run[x].seq,
                       claimed |-> m, tool |-> run[x].tool, last |-> run[x].last,
                       failed |-> run[x].failed]
        BY <3>1, <3>3 DEF RunFields
      <4>2. Others
        BY <3>1, <3>3
      <4>3. QED
        BY <4>1, <4>2
    <3>4. QED
      BY <1>6, <3>2, <3>3 DEF Claim, Waiting
  <2>3. QED
    BY <1>1, <1>2, <2>1, <2>2
<1>7. CASE Save(x) \/ AskApproval(x) \/ Reply(x)
  <2>1. run[x].at # "step" /\ Same
    BY <1>7 DEF Save, AskApproval, Reply, Goes, At, history
  <2>2. run'[x].tool = run[x].tool /\ Others
    BY <1>7 DEF Save, AskApproval, Reply, Goes, RunShape, RunFields
  <2>3. QED
    BY <1>1, <1>2, <2>1, <2>2
<1>8. CASE Ack(x)
  <2>1. run[x].at # "step" /\ Same
    BY <1>8 DEF Ack, At, history
  <2>2. run'[x].tool = run[x].tool /\ Others
    BY <1>8 DEF Ack, RunShape, RunFields
  <2>3. QED
    BY <1>1, <1>2, <2>1, <2>2
<1>9. CASE Answer(x) \/ ApprovalAnswered(x)
  <2>1. run[x].at # "step" /\ Same
    BY <1>9 DEF Answer, ApprovalAnswered, Goes, At, history
  <2>2. run'[x].tool \in {run[x].tool, "failed"} /\ Others
    BY <1>9 DEF Answer, ApprovalAnswered, Goes, RunShape, RunFields
  <2>3. QED
    BY <1>1, <1>2, <2>1, <2>2
<1>10. CASE Final(x)
  <2>1. run[x].at # "step" /\ Same
    BY <1>10 DEF Final, At, history
  <2>2. run'[x].tool = run[x].tool /\ Others
    BY <1>10 DEF Final, RunShape, RunFields
  <2>3. QED
    BY <1>1, <1>2, <2>1, <2>2
<1>11. QED
  BY <1>3, <1>4, <1>5, <1>6, <1>7, <1>8, <1>9, <1>10, ActEffects, CutEffects,
     RecordEffects DEF RunStep

LEMMA EffectsNextStep == Shape /\ EffectsInv /\ [Next]_vars => EffectsInv'
<1> SUFFICES ASSUME Shape, EffectsInv, [Next]_vars
             PROVE  EffectsInv'
  OBVIOUS
<1>1. ASSUME NEW m \in Msg, Send(m)
      PROVE  EffectsInv'
  BY <1>1, EffectsStay DEF Send, SendMessage, InsertExecution, DeliverMessage, ScheduleMessage, runVars,
                          history
<1>2. ASSUME NEW x \in Exec, RunStep(x) \/ ApprovalAnswered(x)
      PROVE  EffectsInv'
  BY <1>2, RunStepEffects DEF Shape
<1>3. ASSUME NEW x \in Exec, CancelExecution(x) \/ Kill(x) \/ TenMinutesPass(x)
      PROVE  EffectsInv'
  BY <1>3, EffectsStay DEF CancelExecution, Kill, TenMinutesPass, memVars, history
<1>4. ASSUME Housekeeping \/ DayPasses
      PROVE  EffectsInv'
  BY <1>4, EffectsStay DEF Housekeeping, ReadStalled, FailStalled, PruneCheckpoints,
                          DayPasses, memVars, runVars, history
<1>5. ASSUME Boot
      PROVE  EffectsInv'
  BY <1>5, EffectsStay DEF Boot, Recover, QueueRecovered, runVars, history
<1>6. CASE UNCHANGED vars
  BY <1>6, EffectsStay DEF vars
<1>7. QED
  BY <1>1, <1>2, <1>3, <1>4, <1>5, <1>6, CrashEffects DEF Next

(* Whatever a tool has done is in the log with the next step of its run,   *)
(* but for one call for each crash and for each cancellation while a tool  *)
(* ran, for any number of executions.                                      *)
THEOREM EffectsLogged == Spec => []EffectsAreLogged
<1>1. Init => IInv
  BY InvInit
<1>2. Init => EffectsInv
  BY DEF Init, EffectsInv, HasEffect, NoRun
<1>3. IInv /\ [Next]_vars => IInv'
  BY NextStep
<1>4. IInv /\ EffectsInv /\ [Next]_vars => EffectsInv'
  BY EffectsNextStep DEF IInv
<1>5. EffectsInv => EffectsAreLogged
  BY DEF EffectsInv, EffectsAreLogged, HasEffect
<1>6. QED
  BY <1>1, <1>2, <1>3, <1>4, <1>5, PTL DEF Spec

-----------------------------------------------------------------------------
(* Second part: what a run has recorded.                                   *)
(* What replay does to a count of steps, event by event.                   *)
LEMMA ReplayedGrows ==
  ASSUME NEW x \in Exec, NEW total \in Nat, NEW e \in Event
  PROVE  /\ Replayed(x, total, e) \in Nat /\ Replayed(x, total, e) >= total
         /\ e.kind = "ExecutionStepCompleted" /\ e.of = x => Replayed(x, total, e) >= e.n
<1>1. e.kind = "ExecutionStepCompleted" => e.n \in Nat
  BY DEF Event
<1>2. CASE e.kind = "MessageSent"
  BY <1>2 DEF Replayed
<1>3. CASE e.kind \in {"ToolExecuted", "PendingApproval"} /\ e.of = x
  BY <1>3 DEF Replayed
<1>4. CASE e.kind = "ExecutionStepCompleted" /\ e.of = x
  BY <1>1, <1>4 DEF Replayed
<1>5. CASE /\ e.kind # "MessageSent"
           /\ ~(e.kind \in {"ToolExecuted", "PendingApproval"} /\ e.of = x)
           /\ ~(e.kind = "ExecutionStepCompleted" /\ e.of = x)
  BY <1>5 DEF Replayed
<1> QED BY <1>2, <1>3, <1>4, <1>5

(* The count replay reaches from a checkpoint, over a log.                 *)
ReplayOf(x, from, seq, l) ==
  LET total[n \in 0 .. Len(l)] ==
        IF n <= seq THEN from ELSE Replayed(x, total[n-1], l[n])
  IN  total[Len(l)]

Counts(g, x, from, seq, l, n) ==
  \A k \in 0..n : g[k] = IF k <= seq THEN from ELSE Replayed(x, g[k-1], l[k])

Reaches(g, x, from, seq, l, n) ==
  /\ g \in [0..n -> Nat]
  /\ Counts(g, x, from, seq, l, n) /\ ReplayOf(x, from, seq, l) = g[n]

LEMMA CountsExist ==
  ASSUME NEW x \in Exec, NEW from \in Nat, NEW seq \in Nat, NEW l \in Seq(Event),
         NEW n \in Nat, n = Len(l)
  PROVE  \E g : Reaches(g, x, from, seq, l, n)
<1> DEFINE step == [p \in (1..n) \X Nat |-> IF p[1] <= seq THEN from ELSE Replayed(x, p[2], l[p[1]])]
           Rec(g) == [k \in 0..n |-> IF k <= seq THEN from ELSE Replayed(x, g[k-1], l[k])]
           total == CHOOSE g : g = Rec(g)
<1>1. \A k \in 1..n : l[k] \in Event
  BY SeqElement
<1>2. step \in [(1..n) \X Nat -> Nat]
  <2>1. ASSUME NEW p \in (1..n) \X Nat
        PROVE  (IF p[1] <= seq THEN from ELSE Replayed(x, p[2], l[p[1]])) \in Nat
    <3>1. p[1] \in 1..n /\ p[2] \in Nat
      OBVIOUS
    <3>2. Replayed(x, p[2], l[p[1]]) \in Nat
      BY <1>1, <3>1, ReplayedGrows
    <3> QED BY <3>2
  <2> QED BY <2>1
<1>3. PICK g : Recursive(g, n, Nat, from, step)
  <2> HIDE DEF step
  <2>1. PICK T : T = Nat
    OBVIOUS
  <2>2. step \in [(1..n) \X T -> T] /\ from \in T
    BY <1>2, <2>1
  <2>3. \E g : Recursive(g, n, T, from, step)
    BY <2>2, RecursionExists
  <2> QED BY <2>1, <2>3
<1>4. g \in [0..n -> Nat] /\ g[0] = from /\ \A k \in 1..n : g[k] = step[<<k, g[k-1]>>]
  BY <1>3 DEF Recursive
<1>5. ASSUME NEW k \in 1..n
      PROVE  g[k] = IF k <= seq THEN from ELSE Replayed(x, g[k-1], l[k])
  <2>1. k - 1 \in 0..n
    OBVIOUS
  <2>2. <<k, g[k-1]>> \in (1..n) \X Nat
    BY <1>4, <2>1
  <2> QED BY <1>4, <2>2
<1>6. g = Rec(g)
  <2>1. \A k \in 0..n : g[k] = IF k <= seq THEN from ELSE Replayed(x, g[k-1], l[k])
    <3> TAKE k \in 0..n
    <3>1. CASE k = 0
      BY <1>4, <3>1
    <3>2. CASE k # 0
      BY <1>5, <3>2
    <3> QED BY <3>1, <3>2
  <2> QED BY <1>4, <2>1
<1>7. total = Rec(total)
  <2> HIDE DEF Rec
  <2> QED BY <1>6
<1>8. \A k \in 0..n : total[k] = IF k <= seq THEN from ELSE Replayed(x, total[k-1], l[k])
  <2> HIDE DEF total
  <2> QED BY <1>7
<1>9. ReplayOf(x, from, seq, l) = total[n]
  BY DEF ReplayOf
<1>10. total = [k \in 0..n |-> total[k]]
  <2>1. total = [k \in 0..n |-> IF k <= seq THEN from ELSE Replayed(x, total[k-1], l[k])]
    BY <1>7
  <2> HIDE DEF total
  <2> QED BY <2>1
<1> HIDE DEF total
<1> DEFINE S == {k \in Nat : k <= n => total[k] \in Nat}
<1>11. 0 \in S /\ \A k \in Nat : k \in S => k + 1 \in S
  <2>1. total[0] = from
    BY <1>8
  <2>2. ASSUME NEW k \in Nat, k \in S, k + 1 <= n PROVE total[k+1] \in Nat
    <3>1. total[k] \in Nat /\ k + 1 \in 1..n /\ k + 1 \in 0..n /\ (k + 1) - 1 = k
      BY <2>2
    <3>2. total[k+1] = IF k + 1 <= seq THEN from ELSE Replayed(x, total[k], l[k+1])
      BY <1>8, <3>1
    <3>3. Replayed(x, total[k], l[k+1]) \in Nat
      BY <1>1, <3>1, ReplayedGrows
    <3> QED BY <3>2, <3>3
  <2> QED BY <2>1, <2>2
<1>12. Nat \subseteq S
  <2> HIDE DEF S
  <2> QED BY <1>11, SetInduction
<1>13. total \in [0..n -> Nat]
  BY <1>10, <1>12
<1> QED BY <1>8, <1>9, <1>13 DEF Counts, Reaches

LEMMA ReplayType ==
  ASSUME NEW x \in Exec, NEW from \in Nat, NEW seq \in Nat, NEW l \in Seq(Event)
  PROVE  ReplayOf(x, from, seq, l) \in Nat /\ ReplayOf(x, from, seq, l) >= from
<1>1. PICK n \in Nat : n = Len(l)
  OBVIOUS
<1>2. PICK g \in [0..n -> Nat] :
        Counts(g, x, from, seq, l, n) /\ ReplayOf(x, from, seq, l) = g[n]
  <2>1. PICK q : Reaches(q, x, from, seq, l, n)
    BY <1>1, CountsExist
  <2> QED BY <2>1 DEF Reaches
<1> DEFINE S == {k \in Nat : k <= n => g[k] >= from}
<1>3. 0 \in S
  <2>1. 0 \in 0..n /\ 0 <= seq
    OBVIOUS
  <2>2. g[0] = from
    BY <1>2, <2>1 DEF Counts
  <2> QED BY <2>2
<1>4. ASSUME NEW k \in Nat, k \in S, k + 1 <= n PROVE g[k+1] >= from
  <2>1. k \in 0..n /\ k + 1 \in 0..n /\ k + 1 \in 1..n /\ (k + 1) - 1 = k
    BY <1>4
  <2>2. g[k+1] = IF k + 1 <= seq THEN from ELSE Replayed(x, g[k], l[k+1])
    BY <1>2, <2>1 DEF Counts
  <2>3. l[k+1] \in Event /\ g[k] \in Nat /\ g[k] >= from
    BY <1>1, <1>4, <2>1, SeqElement
  <2>4. Replayed(x, g[k], l[k+1]) \in Nat /\ Replayed(x, g[k], l[k+1]) >= g[k]
    BY <2>3, ReplayedGrows
  <2> QED BY <2>2, <2>3, <2>4
<1>5. Nat \subseteq S
  <2>1. \A k \in Nat : k \in S => k + 1 \in S
    BY <1>4
  <2> HIDE DEF S
  <2> QED BY <1>3, <2>1, SetInduction
<1> QED BY <1>2, <1>5

LEMMA ReplayNothing ==
  ASSUME NEW x \in Exec, NEW from \in Nat, NEW seq \in Nat, NEW l \in Seq(Event), Len(l) <= seq
  PROVE  ReplayOf(x, from, seq, l) = from
<1>1. PICK n \in Nat : n = Len(l)
  OBVIOUS
<1>2. PICK g \in [0..n -> Nat] :
        Counts(g, x, from, seq, l, n) /\ ReplayOf(x, from, seq, l) = g[n]
  <2>1. PICK q : Reaches(q, x, from, seq, l, n)
    BY <1>1, CountsExist
  <2> QED BY <2>1 DEF Reaches
<1> QED BY <1>1, <1>2 DEF Counts

LEMMA ReplayOneMore ==
  ASSUME NEW x \in Exec, NEW from \in Nat, NEW seq \in Nat, NEW l \in Seq(Event),
         NEW e \in Event, seq <= Len(l)
  PROVE  ReplayOf(x, from, seq, Append(l, e)) = Replayed(x, ReplayOf(x, from, seq, l), e)
<1>1. PICK n \in Nat : n = Len(l)
  OBVIOUS
<1>2. PICK m \in Nat : m = n + 1
  OBVIOUS
<1>3. PICK h : h = Append(l, e)
  OBVIOUS
<1>4. /\ h \in Seq(Event) /\ m = Len(h) /\ h[m] = e
      /\ \A k \in 1..n : h[k] = l[k]
  <2>1. DOMAIN l = 1..n
    BY <1>1
  <2> QED BY <1>1, <1>2, <1>3, <2>1, AppendSeq
<1>5. PICK g \in [0..n -> Nat] :
        Counts(g, x, from, seq, l, n) /\ ReplayOf(x, from, seq, l) = g[n]
  <2>1. PICK q : Reaches(q, x, from, seq, l, n)
    BY <1>1, CountsExist
  <2> QED BY <2>1 DEF Reaches
<1>6. PICK f \in [0..m -> Nat] :
        Counts(f, x, from, seq, h, m) /\ ReplayOf(x, from, seq, h) = f[m]
  <2>1. PICK q : Reaches(q, x, from, seq, h, m)
    BY <1>4, CountsExist
  <2> QED BY <2>1 DEF Reaches
<1> DEFINE S == {k \in Nat : k <= n => f[k] = g[k]}
<1>7. 0 \in S
  <2>1. 0 \in 0..n /\ 0 \in 0..m /\ 0 <= seq
    OBVIOUS
  <2>2. g[0] = from
    BY <1>5, <2>1 DEF Counts
  <2>3. f[0] = from
    BY <1>6, <2>1 DEF Counts
  <2> QED BY <2>2, <2>3
<1>8. ASSUME NEW k \in Nat, k \in S, k + 1 <= n PROVE f[k+1] = g[k+1]
  <2>1. k + 1 \in 0..n /\ k + 1 \in 0..m /\ k + 1 \in 1..n /\ (k + 1) - 1 = k
    BY <1>2, <1>8
  <2>2. g[k+1] = IF k + 1 <= seq THEN from ELSE Replayed(x, g[k], l[k+1])
    BY <1>5, <2>1 DEF Counts
  <2>3. f[k+1] = IF k + 1 <= seq THEN from ELSE Replayed(x, f[k], h[k+1])
    BY <1>6, <2>1 DEF Counts
  <2>4. f[k] = g[k] /\ h[k+1] = l[k+1]
    BY <1>4, <1>8, <2>1
  <2> QED BY <2>2, <2>3, <2>4
<1>9. Nat \subseteq S
  <2>1. \A k \in Nat : k \in S => k + 1 \in S
    BY <1>8
  <2> HIDE DEF S
  <2> QED BY <1>7, <2>1, SetInduction
<1>10. f[n] = g[n]
  BY <1>9
<1>11. f[m] = Replayed(x, f[n], h[m])
  <2>1. m \in 0..m /\ m - 1 = n /\ ~(m <= seq)
    BY <1>1, <1>2
  <2>2. f[m] = IF m <= seq THEN from ELSE Replayed(x, f[m-1], h[m])
    BY <1>6, <2>1 DEF Counts
  <2> QED BY <2>1, <2>2
<1> QED BY <1>3, <1>4, <1>5, <1>6, <1>10, <1>11

(* Whatever is committed, replay arrives at no fewer steps.                *)
LEMMA ReplayGrows ==
  ASSUME NEW x \in Exec, NEW from \in Nat, NEW seq \in Nat, NEW l \in Seq(Event),
         NEW e \in Event, seq <= Len(l), NEW h, h = Append(l, e)
  PROVE  /\ ReplayOf(x, from, seq, h) >= ReplayOf(x, from, seq, l)
         /\ e.kind = "ExecutionStepCompleted" /\ e.of = x => ReplayOf(x, from, seq, h) >= e.n
<1>1. PICK r \in Nat : r = ReplayOf(x, from, seq, l)
  BY ReplayType
<1>2. ReplayOf(x, from, seq, h) = Replayed(x, r, e)
  BY <1>1, ReplayOneMore
<1> QED BY <1>1, <1>2, ReplayedGrows

LEMMA ReplayTotalIs ==
  ASSUME NEW x
  PROVE  ReplayTotal(x) = ReplayOf(x, cp[x].total, cp[x].seq, log)
BY DEF ReplayTotal, ReplayOf

-----------------------------------------------------------------------------
Runs == [at : Place, total : Nat, msgs : SUBSET Msg, seq : Nat,
         claimed : Msg \cup {NoMsg}, tool : {"none", "done", "failed"},
         last : BOOLEAN, failed : BOOLEAN]

(* The run of x turns into one with these fields, and no other run does.   *)
Turns(x, at, total, seq, claimed, tool) ==
  /\ run' \in [Exec -> Runs]
  /\ run'[x].at = at /\ run'[x].total = total /\ run'[x].seq = seq
  /\ run'[x].claimed = claimed /\ run'[x].tool = tool
  /\ \A y \in Exec : y # x => run'[y] = run[y]

LEMMA RunOf ==
  ASSUME run \in [Exec -> Runs], NEW x \in Exec
  PROVE  /\ run[x] \in Runs /\ run[x].at \in Place /\ run[x].total \in Nat /\ run[x].seq \in Nat
         /\ run[x].msgs \in SUBSET Msg /\ run[x].claimed \in Msg \cup {NoMsg}
         /\ run[x].tool \in {"none", "done", "failed"}
BY DEF Runs

LEMMA TurnsTo ==
  ASSUME run \in [Exec -> Runs], NEW x \in Exec, NEW r \in Runs, run' = [run EXCEPT ![x] = r]
  PROVE  Turns(x, r.at, r.total, r.seq, r.claimed, r.tool)
BY DEF Turns

LEMMA TurnsOff ==
  ASSUME run \in [Exec -> Runs], NEW x \in Exec, Returns(x)
  PROVE  Turns(x, "off", 0, 0, NoMsg, "none")
<1>1. NoRun \in Runs
  BY DEF NoRun, Runs, Place
<1>2. /\ NoRun.at = "off" /\ NoRun.total = 0 /\ NoRun.seq = 0 /\ NoRun.claimed = NoMsg
      /\ NoRun.tool = "none"
  BY DEF NoRun
<1>3. run' = [run EXCEPT ![x] = NoRun]
  BY DEF Returns
<1>4. Turns(x, NoRun.at, NoRun.total, NoRun.seq, NoRun.claimed, NoRun.tool)
  BY <1>1, <1>3, TurnsTo
<1> QED BY <1>2, <1>4

LEMMA TurnsAt ==
  ASSUME run \in [Exec -> Runs], NEW x \in Exec, NEW to \in Place,
         run' = [run EXCEPT ![x].at = to]
  PROVE  Turns(x, to, run[x].total, run[x].seq, run[x].claimed, run[x].tool)
<1>1. PICK r : r = [run[x] EXCEPT !.at = to]
  OBVIOUS
<1>2. /\ r \in Runs /\ r.at = to /\ r.total = run[x].total /\ r.seq = run[x].seq
      /\ r.claimed = run[x].claimed /\ r.tool = run[x].tool
  BY <1>1, RunOf DEF Runs
<1>3. run' = [run EXCEPT ![x] = r]
  BY <1>1
<1>4. Turns(x, r.at, r.total, r.seq, r.claimed, r.tool)
  BY <1>2, <1>3, TurnsTo
<1> QED BY <1>2, <1>4

(* What each action makes of the run.                                      *)
LEMMA StartTurns ==
  ASSUME run \in [Exec -> Runs], NEW x \in Exec, Start(x),
         cp[x].total \in Nat, cp[x].msgs \in SUBSET Msg
  PROVE  \/ run' = run
         \/ Turns(x, "begin", cp[x].total, 0, NoMsg, "none")
<1>1. PICK r : r = [NoRun EXCEPT !.at = "begin", !.total = cp[x].total, !.msgs = cp[x].msgs]
  OBVIOUS
<1>2. /\ r.at = "begin" /\ r.total = cp[x].total /\ r.msgs = cp[x].msgs /\ r.seq = 0
      /\ r.claimed = NoMsg /\ r.tool = "none" /\ r \in Runs
  BY <1>1 DEF NoRun, Runs, Place
<1>3. run' = run \/ run' = [run EXCEPT ![x] = r]
  BY <1>1 DEF Start
<1>4. CASE run' = [run EXCEPT ![x] = r]
  <2>1. Turns(x, r.at, r.total, r.seq, r.claimed, r.tool)
    BY <1>2, <1>4, TurnsTo
  <2> QED BY <1>2, <2>1
<1> QED BY <1>3, <1>4

LEMMA BeginTurns ==
  ASSUME run \in [Exec -> Runs], NEW x \in Exec, Begin(x), Len(log') \in Nat
  PROVE  Turns(x, "loop", run[x].total, Len(log'), run[x].claimed, run[x].tool)
<1>1. PICK n \in Nat : n = Len(log')
  OBVIOUS
<1>2. PICK r : r = [run[x] EXCEPT !.at = "loop", !.seq = n]
  OBVIOUS
<1>3. /\ r \in Runs /\ r.at = "loop" /\ r.total = run[x].total /\ r.seq = n
      /\ r.claimed = run[x].claimed /\ r.tool = run[x].tool
  BY <1>2, RunOf DEF Runs, Place
<1>4. run' = [run EXCEPT ![x] = r]
  BY <1>1, <1>2 DEF Begin
<1>5. Turns(x, r.at, r.total, r.seq, r.claimed, r.tool)
  BY <1>3, <1>4, TurnsTo
<1> QED BY <1>1, <1>3, <1>5

LEMMA ClaimTurns ==
  ASSUME run \in [Exec -> Runs], NEW x \in Exec, Claim(x)
  PROVE  \/ Turns(x, "save", run[x].total, run[x].seq, run[x].claimed, run[x].tool)
         \/ \E m \in Msg : Turns(x, "save", run[x].total + 1, run[x].seq, m, run[x].tool)
<1>1. CASE run' = [run EXCEPT ![x].at = "save"]
  <2>1. "save" \in Place
    BY DEF Place
  <2> QED BY <1>1, <2>1, TurnsAt
<1>2. ASSUME NEW m \in Msg,
             run' = [run EXCEPT ![x].at = "save", ![x].total = @ + 1,
                                ![x].msgs = @ \cup {m}, ![x].claimed = m]
      PROVE  Turns(x, "save", run[x].total + 1, run[x].seq, m, run[x].tool)
  <2>0. PICK t, held : t = run[x].total + 1 /\ held = run[x].msgs \cup {m}
    OBVIOUS
  <2>5. t \in Nat /\ held \in SUBSET Msg
    BY <2>0, RunOf
  <2>1. PICK r : r = [run[x] EXCEPT !.at = "save", !.total = t, !.msgs = held, !.claimed = m]
    OBVIOUS
  <2>2. /\ r \in Runs /\ r.at = "save" /\ r.total = t /\ r.seq = run[x].seq
        /\ r.claimed = m /\ r.tool = run[x].tool
    BY <2>1, <2>5, RunOf DEF Runs, Place
  <2>3. run' = [run EXCEPT ![x] = r]
    BY <1>2, <2>0, <2>1
  <2>4. Turns(x, r.at, r.total, r.seq, r.claimed, r.tool)
    BY <2>2, <2>3, TurnsTo
  <2> QED BY <2>0, <2>2, <2>4
<1> QED BY <1>1, <1>2 DEF Claim, Waiting

LEMMA AckTurns ==
  ASSUME run \in [Exec -> Runs], NEW x \in Exec, Ack(x)
  PROVE  Turns(x, "think", run[x].total, run[x].seq, NoMsg, run[x].tool)
<1>1. PICK r : r = [run[x] EXCEPT !.at = "think", !.claimed = NoMsg]
  OBVIOUS
<1>2. /\ r \in Runs /\ r.at = "think" /\ r.total = run[x].total /\ r.seq = run[x].seq
      /\ r.claimed = NoMsg /\ r.tool = run[x].tool
  BY <1>1, RunOf DEF Runs, Place
<1>3. run' = [run EXCEPT ![x] = r]
  BY <1>1 DEF Ack
<1>4. Turns(x, r.at, r.total, r.seq, r.claimed, r.tool)
  BY <1>2, <1>3, TurnsTo
<1> QED BY <1>2, <1>4

LEMMA OutcomeTurns ==
  ASSUME run \in [Exec -> Runs], NEW x \in Exec, NEW tool \in {"done", "failed"},
         run' = [run EXCEPT ![x].at = "step", ![x].tool = tool]
  PROVE  Turns(x, "step", run[x].total, run[x].seq, run[x].claimed, tool)
<1>1. PICK r : r = [run[x] EXCEPT !.at = "step", !.tool = tool]
  OBVIOUS
<1>2. /\ r \in Runs /\ r.at = "step" /\ r.total = run[x].total /\ r.seq = run[x].seq
      /\ r.claimed = run[x].claimed /\ r.tool = tool
  BY <1>1, RunOf DEF Runs, Place
<1>3. run' = [run EXCEPT ![x] = r]
  BY <1>1
<1>4. Turns(x, r.at, r.total, r.seq, r.claimed, r.tool)
  BY <1>2, <1>3, TurnsTo
<1> QED BY <1>2, <1>4

LEMMA LastTurns ==
  ASSUME run \in [Exec -> Runs], NEW x \in Exec,
         run' = [run EXCEPT ![x].at = "step", ![x].last = TRUE]
  PROVE  Turns(x, "step", run[x].total, run[x].seq, run[x].claimed, run[x].tool)
<1>1. PICK r : r = [run[x] EXCEPT !.at = "step", !.last = TRUE]
  OBVIOUS
<1>2. /\ r \in Runs /\ r.at = "step" /\ r.total = run[x].total /\ r.seq = run[x].seq
      /\ r.claimed = run[x].claimed /\ r.tool = run[x].tool
  BY <1>1, RunOf DEF Runs, Place
<1>3. run' = [run EXCEPT ![x] = r]
  BY <1>1
<1>4. Turns(x, r.at, r.total, r.seq, r.claimed, r.tool)
  BY <1>2, <1>3, TurnsTo
<1> QED BY <1>2, <1>4

LEMMA StepTurns ==
  ASSUME run \in [Exec -> Runs], NEW x \in Exec, Step(x), Len(log') \in Nat
  PROVE  \E at \in {"final", "loop"} :
            Turns(x, at, run[x].total + 1, Len(log'), NoMsg, "none")
<1>1. PICK n \in Nat : n = Len(log')
  OBVIOUS
<1>2. PICK ends \in BOOLEAN :
        run' = [run EXCEPT ![x] = [NoRun EXCEPT !.at = IF ends THEN "final" ELSE "loop",
                                                !.total = run[x].total + 1,
                                                !.msgs = run[x].msgs,
                                                !.seq = n]]
  BY <1>1 DEF Step
<1>3. PICK at \in {"final", "loop"} : at = IF ends THEN "final" ELSE "loop"
  OBVIOUS
<1>4. PICK t \in Nat, held \in SUBSET Msg : t = run[x].total + 1 /\ held = run[x].msgs
  BY RunOf
<1>5. PICK r : r = [NoRun EXCEPT !.at = at, !.total = t, !.msgs = held, !.seq = n]
  OBVIOUS
<1>6. /\ r \in Runs /\ r.at = at /\ r.total = t /\ r.seq = n
      /\ r.claimed = NoMsg /\ r.tool = "none"
  <2>1. at \in Place
    BY DEF Place
  <2> QED BY <1>5, <2>1 DEF Runs, NoRun
<1>7. run' = [run EXCEPT ![x] = r]
  BY <1>2, <1>3, <1>4, <1>5
<1>8. Turns(x, r.at, r.total, r.seq, r.claimed, r.tool)
  BY <1>6, <1>7, TurnsTo
<1> QED BY <1>1, <1>4, <1>6, <1>8

LEMMA FinalTurns ==
  ASSUME run \in [Exec -> Runs], NEW x \in Exec, Final(x)
  PROVE  Turns(x, "reply", run[x].total, run[x].seq, run[x].claimed, run[x].tool)
<1>1. PICK failed \in BOOLEAN : run' = [run EXCEPT ![x].at = "reply", ![x].failed = failed]
  BY DEF Final
<1>2. PICK r : r = [run[x] EXCEPT !.at = "reply", !.failed = failed]
  OBVIOUS
<1>3. /\ r \in Runs /\ r.at = "reply" /\ r.total = run[x].total /\ r.seq = run[x].seq
      /\ r.claimed = run[x].claimed /\ r.tool = run[x].tool
  BY <1>2, RunOf DEF Runs, Place
<1>4. run' = [run EXCEPT ![x] = r]
  BY <1>1, <1>2
<1>5. Turns(x, r.at, r.total, r.seq, r.claimed, r.tool)
  BY <1>3, <1>4, TurnsTo
<1> QED BY <1>3, <1>5

-----------------------------------------------------------------------------
(* The log only grows, by an event or by the two of a step.                *)
Longer(l, h) == \/ h = l
                \/ \E e \in Event : h = Append(l, e)
                \/ \E d \in Event, e \in Event : h = Append(Append(l, d), e)

LEMMA LongerSeq ==
  ASSUME NEW l \in Seq(Event), NEW h, Longer(l, h)
  PROVE  h \in Seq(Event) /\ Len(h) \in Nat /\ Len(l) \in Nat /\ Len(h) >= Len(l)
<1>1. CASE h = l
  BY <1>1
<1>2. ASSUME NEW e \in Event, h = Append(l, e)
      PROVE  h \in Seq(Event) /\ Len(h) \in Nat /\ Len(l) \in Nat /\ Len(h) >= Len(l)
  BY <1>2, AppendSeq
<1>3. ASSUME NEW d \in Event, NEW e \in Event, h = Append(Append(l, d), e)
      PROVE  h \in Seq(Event) /\ Len(h) \in Nat /\ Len(l) \in Nat /\ Len(h) >= Len(l)
  <2>1. PICK t : t = Append(l, d)
    OBVIOUS
  <2>2. t \in Seq(Event) /\ Len(t) = Len(l) + 1 /\ Len(l) \in Nat
    BY <2>1, AppendSeq
  <2>3. h \in Seq(Event) /\ Len(h) = Len(t) + 1
    BY <1>3, <2>1, <2>2, AppendSeq
  <2> QED BY <2>2, <2>3
<1> QED BY <1>1, <1>2, <1>3 DEF Longer

LEMMA LongerReplay ==
  ASSUME NEW l \in Seq(Event), NEW h, Longer(l, h), NEW x \in Exec, NEW from \in Nat,
         NEW seq \in Nat, seq <= Len(l)
  PROVE  ReplayOf(x, from, seq, h) >= ReplayOf(x, from, seq, l)
<1>0. PICK r \in Nat : r = ReplayOf(x, from, seq, l)
  BY ReplayType
<1>1. CASE h = l
  BY <1>0, <1>1
<1>2. ASSUME NEW e \in Event, h = Append(l, e)
      PROVE  ReplayOf(x, from, seq, h) >= r
  BY <1>0, <1>2, ReplayGrows
<1>3. ASSUME NEW d \in Event, NEW e \in Event, h = Append(Append(l, d), e)
      PROVE  ReplayOf(x, from, seq, h) >= r
  <2>1. PICK t : t = Append(l, d)
    OBVIOUS
  <2>2. t \in Seq(Event) /\ seq <= Len(t)
    BY <2>1, AppendSeq
  <2>3. PICK q \in Nat : q = ReplayOf(x, from, seq, t)
    BY <2>2, ReplayType
  <2>4. q >= r
    BY <1>0, <2>1, <2>3, ReplayGrows
  <2>5. PICK p \in Nat : p = ReplayOf(x, from, seq, h)
    <3>1. h \in Seq(Event)
      BY <1>3, <2>1, <2>2, AppendSeq
    <3> QED BY <3>1, ReplayType
  <2>6. p >= q
    BY <1>3, <2>1, <2>2, <2>3, <2>5, ReplayGrows
  <2> QED BY <2>4, <2>5, <2>6
<1> QED BY <1>0, <1>1, <1>2, <1>3 DEF Longer

LEMMA StepLog ==
  ASSUME log \in Seq(Event), run \in [Exec -> Runs], NEW x \in Exec, Step(x)
  PROVE  \E l \in Seq(Event), e \in Event :
            /\ l = log \/ \E d \in Event : l = Append(log, d)
            /\ log' = Append(l, e)
            /\ e.kind = "ExecutionStepCompleted" /\ e.of = x /\ e.n = run[x].total + 1
<1>1. PICK t \in Nat : t = run[x].total + 1
  BY RunOf
<1>2. PICK e : e = [kind |-> "ExecutionStepCompleted", of |-> x, n |-> t]
  OBVIOUS
<1>3. /\ e \in Event
      /\ e.kind = "ExecutionStepCompleted" /\ e.of = x /\ e.n = t
  BY <1>2 DEF Event
<1>4. CASE run[x].tool = "none"
  <2>1. log' = log \o <<>> \o <<e>>
    BY <1>1, <1>2, <1>4 DEF Step
  <2>2. log \o <<>> = log /\ log \o <<e>> = Append(log, e)
    BY <1>3
  <2> QED BY <1>1, <1>3, <2>1, <2>2
<1>5. CASE run[x].tool # "none"
  <2>1. PICK d : d = [kind |-> "ToolExecuted", of |-> x, n |-> 0]
    OBVIOUS
  <2>2. d \in Event
    BY <2>1 DEF Event
  <2>3. log' = log \o <<d>> \o <<e>>
    BY <1>1, <1>2, <1>5, <2>1 DEF Step
  <2>4. PICK l : l = Append(log, d)
    OBVIOUS
  <2>5. log \o <<d>> = l /\ l \in Seq(Event)
    BY <2>2, <2>4
  <2>6. l \o <<e>> = Append(l, e)
    BY <1>3, <2>5
  <2> QED BY <1>1, <1>3, <2>2, <2>3, <2>4, <2>5, <2>6
<1> QED BY <1>4, <1>5

LEMMA LogGrows ==
  ASSUME log \in Seq(Event), run \in [Exec -> Runs], [Next]_vars
  PROVE  Longer(log, log')
<1>1. ASSUME NEW m \in Msg, Send(m) PROVE Longer(log, log')
  <2>1. CASE SendMessage(m)
    <3>1. PICK e : e = [kind |-> "MessageSent", of |-> NoExec, n |-> 0]
      OBVIOUS
    <3>2. e \in Event
      BY <3>1 DEF Event
    <3>3. log' = Append(log, e)
      BY <2>1, <3>1 DEF SendMessage
    <3> QED BY <3>2, <3>3 DEF Longer
  <2>2. CASE InsertExecution(m) \/ DeliverMessage(m) \/ ScheduleMessage(m)
    BY <2>2 DEF InsertExecution, DeliverMessage, ScheduleMessage, dbVars, Longer
  <2> QED BY <1>1, <2>1, <2>2 DEF Send
<1>2. ASSUME NEW x \in Exec, RunStep(x) \/ ApprovalAnswered(x) PROVE Longer(log, log')
  <2>1. CASE Begin(x)
    <3>1. PICK e : e = [kind |-> "ExecutionStarted", of |-> x, n |-> 0]
      OBVIOUS
    <3>2. e \in Event
      BY <3>1 DEF Event
    <3>3. log' = Append(log, e)
      BY <2>1, <3>1 DEF Begin
    <3> QED BY <3>2, <3>3 DEF Longer
  <2>2. CASE AskApproval(x)
    <3>1. PICK e : e = [kind |-> "PendingApproval", of |-> x, n |-> 0]
      OBVIOUS
    <3>2. e \in Event
      BY <3>1 DEF Event
    <3>3. log' = Append(log, e)
      BY <2>2, <3>1 DEF AskApproval
    <3> QED BY <3>2, <3>3 DEF Longer
  <2>3. CASE Step(x)
    <3>1. PICK l \in Seq(Event), e \in Event :
             /\ l = log \/ \E d \in Event : l = Append(log, d)
             /\ log' = Append(l, e)
      BY <2>3, StepLog
    <3>2. \/ log' = Append(log, e)
          \/ \E d \in Event : log' = Append(Append(log, d), e)
      BY <3>1
    <3> QED BY <3>2 DEF Longer
  <2>4. CASE ~Begin(x) /\ ~AskApproval(x) /\ ~Step(x)
    <3>1. UNCHANGED log
      BY <1>2, <2>4 DEF RunStep, Start, CancelledAtLoop, Claim, Save, Ack, Abort, Answer,
           ApprovalAnswered, CancelledWhileAsking, Act, CancelledWhileActing, Final, Reply,
           Complete, dbVars
    <3> QED BY <3>1 DEF Longer
  <2> QED BY <2>1, <2>2, <2>3, <2>4
<1>3. ASSUME NEW x \in Exec, CancelExecution(x) \/ Kill(x) \/ TenMinutesPass(x)
      PROVE  Longer(log, log')
  BY <1>3 DEF CancelExecution, Kill, TenMinutesPass, dbVars, Longer
<1>4. CASE Housekeeping \/ DayPasses
  BY <1>4 DEF Housekeeping, ReadStalled, FailStalled, PruneCheckpoints, DayPasses, dbVars, Longer
<1>5. CASE Crash \/ Boot
  BY <1>5 DEF Crash, Boot, Recover, QueueRecovered, dbVars, Longer
<1>6. CASE UNCHANGED vars
  BY <1>6 DEF vars, Longer
<1> QED BY <1>1, <1>2, <1>3, <1>4, <1>5, <1>6 DEF Next

-----------------------------------------------------------------------------
(* What a step of a run does to the runs, and to the calls not yet logged. *)
Moves(x) ==
  /\ run' \in [Exec -> Runs] /\ \A y \in Exec : y # x => run'[y] = run[y]
  /\ run'[x].seq \in {0, run[x].seq, Len(log')}
  /\ \/ UNCHANGED unlogged /\ run'[x].tool \in {"none", "failed", run[x].tool}
     \/ unlogged' = [unlogged EXCEPT ![x] = @ + 1]
     \/ /\ run[x].tool = "done" /\ run'[x].tool = "none"
        /\ unlogged' = [unlogged EXCEPT ![x] = @ - 1]

LEMMA RunMoves ==
  ASSUME run \in [Exec -> Runs], NEW x \in Exec, RunStep(x) \/ ApprovalAnswered(x),
         cp[x].total \in Nat, cp[x].msgs \in SUBSET Msg, Len(log') \in Nat
  PROVE  Moves(x)
<1> USE DEF Moves
<1>1. CASE Start(x)
  <2>1. UNCHANGED unlogged
    BY <1>1 DEF Start, history
  <2>2. run' = run \/ Turns(x, "begin", cp[x].total, 0, NoMsg, "none")
    BY <1>1, StartTurns
  <2> QED BY <2>1, <2>2 DEF Turns
<1>2. CASE Begin(x)
  <2>1. UNCHANGED unlogged
    BY <1>2 DEF Begin, history
  <2> QED BY <1>2, <2>1, BeginTurns DEF Turns
<1>3. CASE CancelledAtLoop(x) \/ Abort(x) \/ CancelledWhileAsking(x) \/ Complete(x)
           \/ CancelledWhileActing(x)
  <2>1. Returns(x)
    BY <1>3 DEF CancelledAtLoop, Abort, CancelledWhileAsking, Complete, CancelledWhileActing
  <2>2. UNCHANGED unlogged \/ unlogged' = [unlogged EXCEPT ![x] = @ + 1]
    BY <1>3 DEF CancelledAtLoop, Abort, CancelledWhileAsking, Complete, CancelledWhileActing,
                history
  <2>3. Turns(x, "off", 0, 0, NoMsg, "none")
    BY <2>1, TurnsOff
  <2> QED BY <2>2, <2>3 DEF Turns
<1>4. CASE Claim(x)
  <2>1. UNCHANGED unlogged
    BY <1>4 DEF Claim, history
  <2>2. PICK total, claimed : Turns(x, "save", total, run[x].seq, claimed, run[x].tool)
    BY <1>4, ClaimTurns
  <2>3. /\ run' \in [Exec -> Runs] /\ \A y \in Exec : y # x => run'[y] = run[y]
        /\ run'[x].seq = run[x].seq /\ run'[x].tool = run[x].tool
    BY <2>2 DEF Turns
  <2> QED BY <2>1, <2>3
<1>5. CASE \/ Save(x) \/ AskApproval(x) \/ Reply(x)
           \/ Goes(x, "think", "act") /\ Answer(x)
           \/ Goes(x, "ask", "act") /\ ApprovalAnswered(x)
  <2>1. UNCHANGED unlogged
    BY <1>5 DEF Save, AskApproval, Reply, Answer, ApprovalAnswered, history
  <2>2. PICK to \in Place : run' = [run EXCEPT ![x].at = to]
    BY <1>5 DEF Save, AskApproval, Reply, Goes, Place
  <2>3. Turns(x, to, run[x].total, run[x].seq, run[x].claimed, run[x].tool)
    BY <2>2, TurnsAt
  <2> QED BY <2>1, <2>3 DEF Turns
<1>6. CASE Ack(x)
  <2>1. UNCHANGED unlogged
    BY <1>6 DEF Ack, history
  <2> QED BY <1>6, <2>1, AckTurns DEF Turns
<1>7. CASE \/ Answer(x) /\ ~Goes(x, "think", "act")
           \/ ApprovalAnswered(x) /\ ~Goes(x, "ask", "act")
  <2>1. UNCHANGED unlogged
    BY <1>7 DEF Answer, ApprovalAnswered, history
  <2>2. \/ run' = [run EXCEPT ![x].at = "step", ![x].tool = "failed"]
        \/ run' = [run EXCEPT ![x].at = "step", ![x].last = TRUE]
    BY <1>7 DEF Answer, ApprovalAnswered
  <2>3. \/ Turns(x, "step", run[x].total, run[x].seq, run[x].claimed, "failed")
        \/ Turns(x, "step", run[x].total, run[x].seq, run[x].claimed, run[x].tool)
    BY <2>2, OutcomeTurns, LastTurns
  <2> QED BY <2>1, <2>3 DEF Turns
<1>8. CASE Act(x)
  <2>1. \/ /\ run' = [run EXCEPT ![x].at = "step", ![x].tool = "done"]
           /\ unlogged' = [unlogged EXCEPT ![x] = @ + 1]
        \/ /\ run' = [run EXCEPT ![x].at = "step", ![x].tool = "failed"]
           /\ UNCHANGED unlogged
    BY <1>8 DEF Act
  <2>2. \/ /\ Turns(x, "step", run[x].total, run[x].seq, run[x].claimed, "done")
           /\ unlogged' = [unlogged EXCEPT ![x] = @ + 1]
        \/ /\ Turns(x, "step", run[x].total, run[x].seq, run[x].claimed, "failed")
           /\ UNCHANGED unlogged
    BY <2>1, OutcomeTurns
  <2> QED BY <2>2 DEF Turns
<1>9. CASE Step(x)
  <2>1. \E at \in {"final", "loop"} :
           Turns(x, at, run[x].total + 1, Len(log'), NoMsg, "none")
    BY <1>9, StepTurns
  <2>2. unlogged' = IF run[x].tool = "done" THEN [unlogged EXCEPT ![x] = @ - 1] ELSE unlogged
    BY <1>9 DEF Step
  <2> QED BY <2>1, <2>2 DEF Turns
<1>10. CASE Final(x)
  <2>1. UNCHANGED unlogged
    BY <1>10 DEF Final, history
  <2> QED BY <1>10, <2>1, FinalTurns DEF Turns
<1> HIDE DEF Moves
<1> QED BY <1>1, <1>2, <1>3, <1>4, <1>5, <1>6, <1>7, <1>8, <1>9, <1>10 DEF RunStep

-----------------------------------------------------------------------------
(* What the types need besides themselves: a run has read no more of the   *)
(* log than there is, a call that took effect is counted until its step,   *)
(* and a message about to be scheduled knows its execution.                *)
TypesHeld ==
  /\ \A x \in Exec : run[x].seq <= Len(log)
  /\ \A x \in Exec : run[x].tool = "done" => unlogged[x] > 0
  /\ \A m \in Msg : sending[m].at = "delivered" => sending[m].to \in Exec

TInv == TypeOK /\ TypesHeld

Sending == [at : {"new", "found", "delivered", "done"}, to : Exec \cup {NoExec}]
Checkpoints == [gen : Nat, total : Nat, msgs : SUBSET Msg, seq : Nat, exists : BOOLEAN]

LEMMA TInvRuns ==
  ASSUME TInv
  PROVE  /\ run \in [Exec -> Runs] /\ log \in Seq(Event) /\ cp \in [Exec -> Checkpoints]
         /\ sending \in [Msg -> Sending]
         /\ \A x \in Exec : cp[x].total \in Nat /\ cp[x].msgs \in SUBSET Msg
BY DEF TInv, TypeOK, RunTypeOK, LogTypeOK, CheckpointTypeOK, MemoryTypeOK, Runs, Checkpoints, Sending

LEMMA TypeInit == Init => TInv
<1> SUFFICES ASSUME Init PROVE TInv
  OBVIOUS
<1>1. RowTypeOK /\ LogTypeOK
  BY DEF Init, RowTypeOK, LogTypeOK, Status, Delivery
<1>2. CheckpointTypeOK
  BY DEF Init, CheckpointTypeOK, NoCheckpoint
<1>3. RunTypeOK
  <2>1. NoRun \in Runs
    BY DEF NoRun, Runs, Place
  <2>2. run \in [Exec -> Runs] /\ \A x \in Exec : run[x].at = "off"
    BY <2>1 DEF Init, NoRun
  <2> QED BY <2>2 DEF RunTypeOK, Runs
<1>4. MemoryTypeOK /\ HistoryTypeOK
  BY DEF Init, MemoryTypeOK, HistoryTypeOK
<1>5. TypesHeld
  BY DEF Init, TypesHeld, NoRun
<1> QED BY <1>1, <1>2, <1>3, <1>4, <1>5 DEF TInv, TypeOK

LEMMA RowType ==
  ASSUME TInv, [Next]_vars
  PROVE  status' \in [Exec -> Status] /\ stale' \subseteq Exec
<1> USE DEF Status
<1>0. status \in [Exec -> Status] /\ stale \subseteq Exec
  BY DEF TInv, TypeOK, RowTypeOK
<1>1. ASSUME NEW m \in Msg, Send(m)
      PROVE  status' \in [Exec -> Status] /\ stale' \subseteq Exec
  BY <1>0, <1>1 DEF Send, SendMessage, InsertExecution, DeliverMessage, ScheduleMessage, rowVars, dbVars
<1>2. ASSUME NEW x \in Exec, RunStep(x) \/ ApprovalAnswered(x)
      PROVE  status' \in [Exec -> Status] /\ stale' \subseteq Exec
  BY <1>0, <1>2 DEF RunStep, Start, Begin, CancelledAtLoop, Claim, Save, Ack, Abort, Answer,
       AskApproval, ApprovalAnswered, CancelledWhileAsking, Act, CancelledWhileActing, Step,
       Final, Reply, Complete, Touched, dbVars, rowVars
<1>3. ASSUME NEW x \in Exec, CancelExecution(x) \/ Kill(x) \/ TenMinutesPass(x)
      PROVE  status' \in [Exec -> Status] /\ stale' \subseteq Exec
  BY <1>0, <1>3 DEF CancelExecution, Kill, TenMinutesPass, Touched, dbVars
<1>4. CASE Housekeeping \/ DayPasses
  BY <1>0, <1>4 DEF Housekeeping, ReadStalled, FailStalled, PruneCheckpoints, DayPasses, dbVars,
                    rowVars
<1>5. CASE Crash \/ Boot
  BY <1>0, <1>5 DEF Crash, Boot, Recover, QueueRecovered, dbVars, Crashed
<1>6. CASE UNCHANGED vars
  BY <1>0, <1>6 DEF vars
<1> QED BY <1>1, <1>2, <1>3, <1>4, <1>5, <1>6 DEF Next

LEMMA InboxType ==
  ASSUME TInv, [Next]_vars
  PROVE  inbox' \in [Msg -> Delivery]
<1> USE DEF Delivery
<1>0. /\ inbox \in [Msg -> Delivery]
      /\ \A x \in Exec : run[x].at = "ack" => run[x].claimed \in Msg
  BY DEF TInv, TypeOK, LogTypeOK, RunTypeOK
<1>1. ASSUME NEW m \in Msg, Send(m) PROVE inbox' \in [Msg -> Delivery]
  BY <1>0, <1>1 DEF Send, SendMessage, InsertExecution, DeliverMessage, ScheduleMessage, dbVars
<1>2. ASSUME NEW x \in Exec, RunStep(x) \/ ApprovalAnswered(x) PROVE inbox' \in [Msg -> Delivery]
  BY <1>0, <1>2 DEF RunStep, Start, Begin, CancelledAtLoop, Claim, Waiting, Save, Ack, At, Abort,
       Answer, AskApproval, ApprovalAnswered, CancelledWhileAsking, Act, CancelledWhileActing,
       Step, Final, Reply, Complete, dbVars
<1>3. ASSUME NEW x \in Exec, CancelExecution(x) \/ Kill(x) \/ TenMinutesPass(x)
      PROVE  inbox' \in [Msg -> Delivery]
  BY <1>0, <1>3 DEF CancelExecution, Kill, TenMinutesPass, dbVars
<1>4. CASE Housekeeping \/ DayPasses
  BY <1>0, <1>4 DEF Housekeeping, ReadStalled, FailStalled, PruneCheckpoints, DayPasses, dbVars
<1>5. CASE Crash \/ Boot
  BY <1>0, <1>5 DEF Crash, Boot, Recover, QueueRecovered, dbVars
<1>6. CASE UNCHANGED vars
  BY <1>0, <1>6 DEF vars
<1> QED BY <1>1, <1>2, <1>3, <1>4, <1>5, <1>6 DEF Next

(* The checkpoint of a run, and the one recovery writes.                   *)
LEMMA CheckpointType ==
  ASSUME TInv, NEW x \in Exec
  PROVE  /\ Checkpoint(x) \in Checkpoints /\ Checkpoint(x).gen = run[x].total
         /\ Checkpoint(x).total = run[x].total /\ Checkpoint(x).seq = run[x].seq
         /\ run[x].seq <= Len(log)
<1>1. run[x].total \in Nat /\ run[x].msgs \in SUBSET Msg /\ run[x].seq \in Nat
  BY TInvRuns, RunOf
<1> QED BY <1>1 DEF Checkpoint, Checkpoints, TInv, TypesHeld

LEMMA ReplayRowType ==
  ASSUME TInv, NEW x \in Exec
  PROVE  Replay(x) \in Checkpoints /\ Replay(x).seq <= Len(log)
<1>1. cp[x] \in Checkpoints /\ cp[x].seq <= Len(log)
  BY TInvRuns DEF TInv, TypeOK, CheckpointTypeOK
<1>2. PICK from \in Nat, seq \in Nat : from = cp[x].total /\ seq = cp[x].seq
  BY <1>1 DEF Checkpoints
<1>3. PICK n \in Nat : n = ReplayTotal(x)
  BY <1>2, TInvRuns, ReplayType, ReplayTotalIs
<1>4. PICK l \in Nat : l = Len(log)
  BY TInvRuns
<1>5. CASE cp[x].exists
  <2>1. Replay(x) = [cp[x] EXCEPT !.gen = n, !.total = n, !.seq = l]
    BY <1>3, <1>4, <1>5 DEF Replay
  <2>2. PICK c : c = [cp[x] EXCEPT !.gen = n, !.total = n, !.seq = l]
    OBVIOUS
  <2>3. c \in Checkpoints /\ c.seq = l
    BY <1>1, <2>2 DEF Checkpoints
  <2> QED BY <1>4, <2>1, <2>2, <2>3
<1>6. CASE ~cp[x].exists
  BY <1>1, <1>6 DEF Replay
<1> QED BY <1>5, <1>6

LEMMA CheckpointsType ==
  ASSUME TInv, [Next]_vars, Len(log') \in Nat, Len(log') >= Len(log)
  PROVE  /\ cp' \in [Exec -> Checkpoints] /\ generation' \in [Exec -> Nat] /\ old' \subseteq Exec
         /\ \A x \in Exec : cp'[x].seq <= Len(log')
<1> DEFINE Fine == /\ cp' \in [Exec -> Checkpoints] /\ generation' \in [Exec -> Nat]
                   /\ old' \subseteq Exec /\ \A x \in Exec : cp'[x].seq <= Len(log')
<1>0. /\ cp \in [Exec -> Checkpoints] /\ generation \in [Exec -> Nat] /\ old \subseteq Exec
      /\ \A x \in Exec : cp[x].seq \in Nat /\ cp[x].seq <= Len(log)
      /\ Len(log) \in Nat
  BY TInvRuns DEF TInv, TypeOK, RowTypeOK, CheckpointTypeOK, Checkpoints
<1>1. ASSUME UNCHANGED <<cp, generation>>, old' \subseteq Exec PROVE Fine
  <2>1. \A x \in Exec : cp[x].seq <= Len(log')
    BY <1>0
  <2> QED BY <1>0, <1>1, <2>1
<1>2. ASSUME NEW m \in Msg, Send(m) PROVE Fine
  BY <1>0, <1>1, <1>2 DEF Send, SendMessage, InsertExecution, DeliverMessage, ScheduleMessage, rowVars, dbVars
<1>3. ASSUME NEW x \in Exec, Save(x) \/ Final(x) PROVE Fine
  <2>1. /\ cp' = [cp EXCEPT ![x] = Checkpoint(x)]
        /\ generation' = [generation EXCEPT ![x] = run[x].total]
        /\ old' = old \ {x}
    BY <1>3 DEF Save, Final
  <2>2. /\ Checkpoint(x) \in Checkpoints /\ run[x].total \in Nat
        /\ Checkpoint(x).seq \in Nat /\ Checkpoint(x).seq <= Len(log)
    BY CheckpointType DEF Checkpoints
  <2>3. cp' \in [Exec -> Checkpoints] /\ generation' \in [Exec -> Nat] /\ old' \subseteq Exec
    BY <1>0, <2>1, <2>2
  <2>4. ASSUME NEW y \in Exec PROVE cp'[y].seq <= Len(log')
    <3>1. cp'[y] = IF y = x THEN Checkpoint(x) ELSE cp[y]
      BY <1>0, <2>1
    <3> QED BY <1>0, <2>2, <3>1
  <2> QED BY <2>3, <2>4
<1>4. ASSUME NEW x \in Exec, RunStep(x) \/ ApprovalAnswered(x), ~Save(x), ~Final(x) PROVE Fine
  <2>1. UNCHANGED <<cp, generation, old>>
    BY <1>4 DEF RunStep, Start, Begin, CancelledAtLoop, Claim, Ack, Abort, Answer, AskApproval,
         ApprovalAnswered, CancelledWhileAsking, Act, CancelledWhileActing, Step, Reply, Complete,
         dbVars, rowVars
  <2> QED BY <1>0, <1>1, <2>1
<1>5. ASSUME NEW x \in Exec, CancelExecution(x) \/ Kill(x) \/ TenMinutesPass(x) PROVE Fine
  BY <1>0, <1>1, <1>5 DEF CancelExecution, Kill, TenMinutesPass, dbVars
<1>6. CASE ReadStalled \/ FailStalled \/ DayPasses
  BY <1>0, <1>1, <1>6 DEF ReadStalled, FailStalled, DayPasses, dbVars
<1>7. CASE PruneCheckpoints
  <2>1. NoCheckpoint \in Checkpoints /\ NoCheckpoint.seq = 0
    BY DEF NoCheckpoint, Checkpoints
  <2>2. \A y \in Exec : cp'[y] = IF y \in old THEN NoCheckpoint ELSE cp[y]
    BY <1>7 DEF PruneCheckpoints
  <2>3. cp' = [y \in Exec |-> IF y \in old THEN NoCheckpoint ELSE cp[y]]
    BY <1>7 DEF PruneCheckpoints
  <2>4. cp' \in [Exec -> Checkpoints]
    BY <1>0, <2>1, <2>3
  <2>5. UNCHANGED generation /\ old' \subseteq Exec
    BY <1>7 DEF PruneCheckpoints, rowVars
  <2>6. \A y \in Exec : cp'[y].seq <= Len(log')
    BY <1>0, <2>1, <2>2
  <2> QED BY <1>0, <2>4, <2>5, <2>6
<1>8. CASE Recover
  <2>1. /\ cp' = [x \in Exec |-> IF x \in Crashed THEN Replay(x) ELSE cp[x]]
        /\ generation' = [x \in Exec |-> IF x \in Crashed THEN Replay(x).gen ELSE generation[x]]
        /\ UNCHANGED <<old, log>>
    BY <1>8 DEF Recover
  <2>2. \A x \in Exec : Replay(x) \in Checkpoints /\ Replay(x).seq <= Len(log)
    BY ReplayRowType
  <2>3. \A x \in Exec : Replay(x).gen \in Nat
    BY <2>2 DEF Checkpoints
  <2>4. cp' \in [Exec -> Checkpoints] /\ generation' \in [Exec -> Nat]
    BY <1>0, <2>1, <2>2, <2>3
  <2>5. \A x \in Exec : cp'[x].seq <= Len(log')
    BY <1>0, <2>1, <2>2
  <2> QED BY <1>0, <2>1, <2>4, <2>5
<1>9. CASE Crash \/ QueueRecovered
  BY <1>0, <1>1, <1>9 DEF Crash, QueueRecovered, dbVars
<1>10. CASE UNCHANGED vars
  BY <1>0, <1>1, <1>10 DEF vars
<1> QED BY <1>2, <1>3, <1>4, <1>5, <1>6, <1>7, <1>8, <1>9, <1>10 DEF Next, Housekeeping, Boot

LEMMA RunsType ==
  ASSUME TInv, [Next]_vars, Len(log') \in Nat, Len(log') >= Len(log)
  PROVE  run' \in [Exec -> Runs] /\ \A x \in Exec : run'[x].seq <= Len(log')
<1> DEFINE Fine == run' \in [Exec -> Runs] /\ \A x \in Exec : run'[x].seq <= Len(log')
<1>0. /\ run \in [Exec -> Runs] /\ Len(log) \in Nat
      /\ \A x \in Exec : run[x].seq \in Nat /\ run[x].seq <= Len(log)
  <2>1. run \in [Exec -> Runs] /\ log \in Seq(Event)
    BY TInvRuns
  <2>2. \A x \in Exec : run[x].seq \in Nat
    BY <2>1, RunOf
  <2> QED BY <2>1, <2>2 DEF TInv, TypesHeld
<1>1. ASSUME UNCHANGED run PROVE Fine
  BY <1>0, <1>1
<1>2. ASSUME NEW m \in Msg, Send(m) PROVE Fine
  BY <1>1, <1>2 DEF Send, SendMessage, InsertExecution, DeliverMessage, ScheduleMessage, runVars
<1>3. ASSUME NEW x \in Exec, RunStep(x) \/ ApprovalAnswered(x) PROVE Fine
  <2>1. Moves(x)
    BY <1>0, <1>3, TInvRuns, RunMoves
  <2>2. /\ run' \in [Exec -> Runs] /\ run'[x].seq \in {0, run[x].seq, Len(log')}
        /\ \A y \in Exec : y # x => run'[y] = run[y]
    BY <2>1 DEF Moves
  <2>3. ASSUME NEW y \in Exec PROVE run'[y].seq <= Len(log')
    <3>1. CASE y = x
      BY <1>0, <2>2, <3>1
    <3>2. CASE y # x
      BY <1>0, <2>2, <3>2
    <3> QED BY <3>1, <3>2
  <2> QED BY <2>2, <2>3
<1>4. ASSUME NEW x \in Exec, CancelExecution(x) \/ Kill(x) \/ TenMinutesPass(x) PROVE Fine
  BY <1>1, <1>4 DEF CancelExecution, Kill, TenMinutesPass, memVars
<1>5. CASE Housekeeping \/ DayPasses
  BY <1>1, <1>5 DEF Housekeeping, ReadStalled, FailStalled, PruneCheckpoints, DayPasses, memVars,
                    runVars
<1>6. CASE Crash
  <2>1. NoRun \in Runs /\ NoRun.seq = 0
    BY DEF NoRun, Runs, Place
  <2>2. run' = [x \in Exec |-> NoRun]
    BY <1>6 DEF Crash
  <2>3. run' \in [Exec -> Runs] /\ \A x \in Exec : run'[x].seq = 0
    BY <2>1, <2>2
  <2> QED BY <2>3
<1>7. CASE Boot
  BY <1>1, <1>7 DEF Boot, Recover, QueueRecovered, runVars
<1>8. CASE UNCHANGED vars
  BY <1>1, <1>8 DEF vars
<1> QED BY <1>2, <1>3, <1>4, <1>5, <1>6, <1>7, <1>8 DEF Next

LEMMA UnloggedType ==
  ASSUME TInv, [Next]_vars, Len(log') \in Nat
  PROVE  unlogged' \in [Exec -> Nat] /\ \A x \in Exec : run'[x].tool = "done" => unlogged'[x] > 0
<1> DEFINE Fine == /\ unlogged' \in [Exec -> Nat]
                   /\ \A x \in Exec : run'[x].tool = "done" => unlogged'[x] > 0
<1>0. /\ unlogged \in [Exec -> Nat] /\ \A x \in Exec : run[x].tool = "done" => unlogged[x] > 0
  BY DEF TInv, TypeOK, HistoryTypeOK, TypesHeld
<1>1. ASSUME UNCHANGED <<run, unlogged>> PROVE Fine
  BY <1>0, <1>1
<1>2. ASSUME NEW m \in Msg, Send(m) PROVE Fine
  BY <1>1, <1>2 DEF Send, SendMessage, InsertExecution, DeliverMessage, ScheduleMessage, runVars, history
<1>3. ASSUME NEW x \in Exec, RunStep(x) \/ ApprovalAnswered(x) PROVE Fine
  <2>1. Moves(x)
    BY <1>3, TInvRuns, RunMoves
  <2>2. \A y \in Exec : y # x => run'[y] = run[y]
    BY <2>1 DEF Moves
  <2>3. CASE UNCHANGED unlogged /\ run'[x].tool \in {"none", "failed", run[x].tool}
    <3>1. ASSUME NEW y \in Exec, run'[y].tool = "done" PROVE unlogged[y] > 0
      <4>1. CASE y = x
        BY <1>0, <2>3, <3>1, <4>1
      <4>2. CASE y # x
        BY <1>0, <2>2, <3>1, <4>2
      <4> QED BY <4>1, <4>2
    <3> QED BY <1>0, <2>3, <3>1
  <2>4. CASE unlogged' = [unlogged EXCEPT ![x] = @ + 1]
    <3>1. /\ unlogged' \in [Exec -> Nat] /\ unlogged'[x] = unlogged[x] + 1 /\ unlogged[x] \in Nat
          /\ \A y \in Exec : y # x => unlogged'[y] = unlogged[y]
      BY <1>0, <2>4
    <3>2. ASSUME NEW y \in Exec, run'[y].tool = "done" PROVE unlogged'[y] > 0
      <4>1. CASE y = x
        BY <3>1, <4>1
      <4>2. CASE y # x
        BY <1>0, <2>2, <3>1, <3>2, <4>2
      <4> QED BY <4>1, <4>2
    <3> QED BY <3>1, <3>2
  <2>5. CASE /\ run[x].tool = "done" /\ run'[x].tool = "none"
             /\ unlogged' = [unlogged EXCEPT ![x] = @ - 1]
    <3>1. unlogged[x] \in Nat /\ unlogged[x] > 0 /\ unlogged[x] - 1 \in Nat
      BY <1>0, <2>5
    <3>2. /\ unlogged' \in [Exec -> Nat]
          /\ \A y \in Exec : y # x => unlogged'[y] = unlogged[y]
      BY <1>0, <2>5, <3>1
    <3>3. ASSUME NEW y \in Exec, run'[y].tool = "done" PROVE unlogged'[y] > 0
      <4>1. y # x
        BY <2>5, <3>3
      <4> QED BY <1>0, <2>2, <3>2, <3>3, <4>1
    <3> QED BY <3>2, <3>3
  <2> QED BY <2>1, <2>3, <2>4, <2>5 DEF Moves
<1>4. ASSUME NEW x \in Exec, CancelExecution(x) \/ Kill(x) \/ TenMinutesPass(x) PROVE Fine
  BY <1>1, <1>4 DEF CancelExecution, Kill, TenMinutesPass, memVars, history
<1>5. CASE Housekeeping \/ DayPasses
  BY <1>1, <1>5 DEF Housekeeping, ReadStalled, FailStalled, PruneCheckpoints, DayPasses, memVars,
                    runVars, history
<1>6. CASE Crash
  <2>1. run' = [x \in Exec |-> NoRun] /\ UNCHANGED unlogged /\ NoRun.tool = "none"
    BY <1>6 DEF Crash, NoRun
  <2> QED BY <1>0, <2>1
<1>7. CASE Boot
  BY <1>1, <1>7 DEF Boot, Recover, QueueRecovered, runVars, history
<1>8. CASE UNCHANGED vars
  BY <1>1, <1>8 DEF vars
<1> QED BY <1>2, <1>3, <1>4, <1>5, <1>6, <1>7, <1>8 DEF Next

(* The parts of memory and of the history that no number is in.            *)
LEMMA SendingType ==
  ASSUME TInv, [Next]_vars
  PROVE  /\ sending' \in [Msg -> Sending]
         /\ \A m \in Msg : sending'[m].at = "delivered" => sending'[m].to \in Exec
<1> DEFINE Fine == /\ sending' \in [Msg -> Sending]
                   /\ \A m \in Msg : sending'[m].at = "delivered" => sending'[m].to \in Exec
<1>0. /\ sending \in [Msg -> Sending]
      /\ \A m \in Msg : sending[m].at = "delivered" => sending[m].to \in Exec
  BY TInvRuns DEF TInv, TypesHeld
<1>1. ASSUME UNCHANGED sending PROVE Fine
  BY <1>0, <1>1
<1>2. ASSUME NEW m \in Msg, NEW at \in {"new", "found", "delivered", "done"},
             NEW x \in Exec \cup {NoExec}, at = "delivered" => x \in Exec,
             sending' = [sending EXCEPT ![m] = [at |-> at, to |-> x]]
      PROVE  Fine
  <2>1. PICK r : r = [at |-> at, to |-> x]
    OBVIOUS
  <2>2. r \in Sending /\ r.at = at /\ r.to = x
    BY <2>1 DEF Sending
  <2>3. sending' = [sending EXCEPT ![m] = r]
    BY <1>2, <2>1
  <2>4. sending' \in [Msg -> Sending] /\ sending'[m] = r
    BY <1>0, <2>2, <2>3
  <2>5. ASSUME NEW n \in Msg, sending'[n].at = "delivered" PROVE sending'[n].to \in Exec
    <3>1. CASE n = m
      BY <1>2, <2>2, <2>4, <2>5, <3>1
    <3>2. CASE n # m
      BY <1>0, <2>3, <2>5, <3>2
    <3> QED BY <3>1, <3>2
  <2> QED BY <2>4, <2>5
<1>3. ASSUME NEW m \in Msg, Send(m) PROVE Fine
  <2>1. CASE SendMessage(m)
    <3>1. PICK x \in Exec \cup {NoExec} : Sends(m, "new", "found", x)
      BY <2>1 DEF SendMessage
    <3> QED BY <1>2, <3>1 DEF Sends
  <2>2. CASE InsertExecution(m)
    <3>1. PICK x \in Exec : Sends(m, "found", "found", x)
      BY <2>2 DEF InsertExecution
    <3> QED BY <1>2, <3>1 DEF Sends
  <2>3. CASE DeliverMessage(m)
    <3>1. sending[m].to \in Exec
      BY <1>0, <2>3 DEF DeliverMessage, Sending
    <3> QED BY <1>2, <2>3, <3>1 DEF DeliverMessage, Sends
  <2>4. CASE ScheduleMessage(m)
    BY <1>2, <2>4 DEF ScheduleMessage, Sends
  <2> QED BY <1>3, <2>1, <2>2, <2>3, <2>4 DEF Send
<1>4. ASSUME NEW x \in Exec, RunStep(x) \/ ApprovalAnswered(x) PROVE Fine
  <2>1. UNCHANGED sending
    BY <1>4 DEF RunStep, Start, Begin, CancelledAtLoop, Claim, Save, Ack, Abort, Answer,
         AskApproval, ApprovalAnswered, CancelledWhileAsking, Act, CancelledWhileActing, Step,
         Final, Reply, Complete
  <2> QED BY <1>1, <2>1
<1>5. ASSUME NEW x \in Exec, CancelExecution(x) \/ Kill(x) \/ TenMinutesPass(x) PROVE Fine
  BY <1>1, <1>5 DEF CancelExecution, Kill, TenMinutesPass, memVars
<1>6. CASE Housekeeping \/ DayPasses
  BY <1>1, <1>6 DEF Housekeeping, ReadStalled, FailStalled, PruneCheckpoints, DayPasses, memVars
<1>7. CASE Crash
  <2>1. sending' = [m \in Msg |-> IF sending[m].at = "new" THEN sending[m]
                                  ELSE [at |-> "done", to |-> NoExec]]
    BY <1>7 DEF Crash
  <2>2. PICK r : r = [at |-> "done", to |-> NoExec]
    OBVIOUS
  <2>3. r \in Sending /\ r.at = "done"
    BY <2>2 DEF Sending
  <2>4. \A m \in Msg : sending'[m] = IF sending[m].at = "new" THEN sending[m] ELSE r
    BY <2>1, <2>2
  <2>5. sending' \in [Msg -> Sending]
    BY <1>0, <2>1, <2>2, <2>3
  <2>6. \A m \in Msg : sending'[m].at # "delivered"
    BY <2>3, <2>4
  <2> QED BY <2>5, <2>6
<1>8. CASE Boot
  BY <1>1, <1>8 DEF Boot, Recover, QueueRecovered
<1>9. CASE UNCHANGED vars
  BY <1>1, <1>9 DEF vars
<1> QED BY <1>3, <1>4, <1>5, <1>6, <1>7, <1>8, <1>9 DEF Next

Memory == /\ phase \in {"up", "down", "booting"} /\ recovered \subseteq Exec
          /\ queue \subseteq Exec /\ cancelled \subseteq Exec /\ stalled \subseteq Exec
History == killed \subseteq Exec /\ pruned \subseteq Msg /\ crashes \in Nat /\ cuts \in Nat

LEMMA MemoryType ==
  ASSUME TInv, [Next]_vars
  PROVE  Memory'
<1>0. /\ Memory /\ old \subseteq Exec /\ stale \subseteq Exec
      /\ \A m \in Msg : sending[m].at = "delivered" => sending[m].to \in Exec
  BY DEF TInv, TypeOK, MemoryTypeOK, CheckpointTypeOK, RowTypeOK, TypesHeld, Memory
<1> USE DEF Memory
<1>1. ASSUME NEW m \in Msg, Send(m) PROVE Memory'
  BY <1>0, <1>1 DEF Send, SendMessage, InsertExecution, DeliverMessage, ScheduleMessage, Sends, runVars
<1>2. ASSUME NEW x \in Exec, RunStep(x) \/ ApprovalAnswered(x) PROVE Memory'
  BY <1>0, <1>2 DEF RunStep, Start, Begin, CancelledAtLoop, Claim, Save, Ack, Abort, Answer,
       AskApproval, ApprovalAnswered, CancelledWhileAsking, Act, CancelledWhileActing, Step,
       Final, Reply, Complete, Returns
<1>3. ASSUME NEW x \in Exec, CancelExecution(x) \/ Kill(x) \/ TenMinutesPass(x) PROVE Memory'
  BY <1>0, <1>3 DEF CancelExecution, Kill, TenMinutesPass, memVars
<1>4. CASE Housekeeping \/ DayPasses
  BY <1>0, <1>4 DEF Housekeeping, ReadStalled, FailStalled, PruneCheckpoints, DayPasses, memVars,
                    runVars
<1>5. CASE Crash \/ Boot
  BY <1>0, <1>5 DEF Crash, Boot, Recover, QueueRecovered, Crashed, runVars
<1>6. CASE UNCHANGED vars
  BY <1>0, <1>6 DEF vars
<1> QED BY <1>1, <1>2, <1>3, <1>4, <1>5, <1>6 DEF Next

LEMMA HistoryType ==
  ASSUME TInv, [Next]_vars
  PROVE  History'
<1>0. /\ History /\ \A x \in Exec : cp[x].msgs \in SUBSET Msg
      /\ old \subseteq Exec
      /\ \A m \in Msg : sending[m].at = "delivered" => sending[m].to \in Exec
  BY TInvRuns DEF TInv, TypeOK, HistoryTypeOK, CheckpointTypeOK, TypesHeld, History
<1> USE DEF History
<1>1. ASSUME NEW m \in Msg, Send(m) PROVE History'
  BY <1>0, <1>1 DEF Send, SendMessage, InsertExecution, DeliverMessage, ScheduleMessage, Sends, history
<1>2. ASSUME NEW x \in Exec, RunStep(x) \/ ApprovalAnswered(x) PROVE History'
  <2>1. UNCHANGED <<killed, pruned, crashes>> /\ (UNCHANGED cuts \/ cuts' = cuts + 1)
    BY <1>2 DEF RunStep, Start, Begin, CancelledAtLoop, Claim, Save, Ack, Abort, Answer,
       AskApproval, ApprovalAnswered, CancelledWhileAsking, Act, CancelledWhileActing, Step,
       Final, Reply, Complete, history
  <2> QED BY <1>0, <2>1
<1>3. ASSUME NEW x \in Exec, CancelExecution(x) \/ Kill(x) \/ TenMinutesPass(x) PROVE History'
  BY <1>0, <1>3 DEF CancelExecution, Kill, TenMinutesPass, history
<1>4. CASE ReadStalled \/ FailStalled \/ DayPasses
  BY <1>0, <1>4 DEF ReadStalled, FailStalled, DayPasses, history
<1>5. CASE PruneCheckpoints
  <2>1. UNION {cp[x].msgs : x \in old} \subseteq Msg
    BY <1>0
  <2>2. /\ pruned' = pruned \cup UNION {cp[x].msgs : x \in old}
        /\ UNCHANGED <<killed, crashes, cuts>>
    BY <1>5 DEF PruneCheckpoints
  <2> QED BY <1>0, <2>1, <2>2
<1>6. CASE Crash \/ Boot
  BY <1>0, <1>6 DEF Crash, Boot, Recover, QueueRecovered, history
<1>7. CASE UNCHANGED vars
  BY <1>0, <1>7 DEF vars
<1> QED BY <1>1, <1>2, <1>3, <1>4, <1>5, <1>6, <1>7 DEF Next, Housekeeping

LEMMA TypeNext == TInv /\ IInv' /\ [Next]_vars => TInv'
<1> SUFFICES ASSUME TInv, IInv', [Next]_vars PROVE TInv'
  OBVIOUS
<1>1. log' \in Seq(Event) /\ Len(log') \in Nat /\ Len(log') >= Len(log)
  BY TInvRuns, LogGrows, LongerSeq
<1>2. run' \in [Exec -> Runs] /\ \A x \in Exec : run'[x].seq <= Len(log')
  BY <1>1, RunsType
<1>3. /\ cp' \in [Exec -> Checkpoints] /\ generation' \in [Exec -> Nat] /\ old' \subseteq Exec
      /\ \A x \in Exec : cp'[x].seq <= Len(log')
  BY <1>1, CheckpointsType
<1>4. /\ unlogged' \in [Exec -> Nat] /\ \A x \in Exec : run'[x].tool = "done" => unlogged'[x] > 0
  BY <1>1, UnloggedType
<1>5. /\ sending' \in [Msg -> Sending]
      /\ \A m \in Msg : sending'[m].at = "delivered" => sending'[m].to \in Exec
  BY SendingType
<1>6. RunTypeOK'
  <2>1. \A x \in Exec : run'[x].at = "ack" => run'[x].claimed # NoMsg
    BY DEF IInv, ClaimsHeld
  <2>2. \A x \in Exec : run'[x].claimed \in Msg \cup {NoMsg}
    BY <1>2 DEF Runs
  <2>3. \A x \in Exec : run'[x].at = "ack" => run'[x].claimed \in Msg
    BY <2>1, <2>2
  <2> QED BY <1>2, <2>3 DEF RunTypeOK, Runs
<1>7. RowTypeOK'
  BY <1>3, RowType DEF RowTypeOK
<1>8. CheckpointTypeOK' /\ LogTypeOK'
  BY <1>1, <1>3, InboxType DEF CheckpointTypeOK, Checkpoints, LogTypeOK
<1>9. MemoryTypeOK'
  BY <1>5, MemoryType DEF MemoryTypeOK, Memory, Sending
<1>10. HistoryTypeOK'
  BY <1>4, HistoryType DEF HistoryTypeOK, History
<1>11. TypesHeld'
  BY <1>2, <1>4, <1>5 DEF TypesHeld
<1> QED BY <1>6, <1>7, <1>8, <1>9, <1>10, <1>11 DEF TInv, TypeOK

(* Every variable of the agent runtime keeps its type and no checkpoint    *)
(* points past the log, for any number of executions, messages and events: *)
(* what replay arrives at is a number of steps whatever the log holds.     *)
THEOREM ExecutionTypes == Spec => []TypeOK
<1>1. Init => IInv /\ TInv
  BY InvInit, TypeInit
<1>2. IInv /\ [Next]_vars => IInv'
  BY NextStep
<1>3. TInv /\ IInv' /\ [Next]_vars => TInv'
  BY TypeNext
<1>4. TInv => TypeOK
  BY DEF TInv
<1> QED BY <1>1, <1>2, <1>3, <1>4, PTL DEF Spec

-----------------------------------------------------------------------------
(* Steps are not forgotten.                                                *)

(* What replay arrives at, whether there is a checkpoint to write it to.    *)
ReplayReaches == \A x \in Exec : Live(x) => ReplayTotal(x) >= Recorded(x)

(* A run whose checkpoint does not exist has recorded nothing.             *)
Unsaved ==
  \A x \in Exec : ~cp[x].exists =>
    cp[x].total = 0 /\ (Live(x) => run[x].at \in {"begin", "loop", "save"} /\ Recorded(x) = 0)

DeadAreStill == phase # "up" => \A x \in Exec : ~Live(x)

LEMMA ReplayKept ==
  ASSUME TInv, NEW x \in Exec, cp'[x] = cp[x], Longer(log, log')
  PROVE  /\ ReplayTotal(x) \in Nat /\ ReplayTotal(x)' \in Nat
         /\ ReplayTotal(x)' >= ReplayTotal(x) /\ ReplayTotal(x)' >= cp[x].total
<1>1. PICK from \in Nat, seq \in Nat : from = cp[x].total /\ seq = cp[x].seq
  BY TInvRuns DEF Checkpoints
<1>2. log \in Seq(Event) /\ seq <= Len(log)
  BY <1>1, TInvRuns DEF TInv, TypeOK, CheckpointTypeOK
<1>3. PICK h : h = log'
  OBVIOUS
<1>4. h \in Seq(Event) /\ Longer(log, h)
  BY <1>2, <1>3, LongerSeq
<1>5. ReplayTotal(x) = ReplayOf(x, from, seq, log) /\ ReplayTotal(x)' = ReplayOf(x, from, seq, h)
  BY <1>1, <1>3 DEF ReplayTotal, ReplayOf
<1>6. ReplayOf(x, from, seq, log) \in Nat
  BY <1>2, ReplayType
<1>7. ReplayOf(x, from, seq, h) \in Nat /\ ReplayOf(x, from, seq, h) >= from
  BY <1>4, ReplayType
<1>8. ReplayOf(x, from, seq, h) >= ReplayOf(x, from, seq, log)
  BY <1>2, <1>4, LongerReplay
<1> QED BY <1>1, <1>5, <1>6, <1>7, <1>8

(* A step of the run of x forgets nothing of the others.                   *)
LEMMA OthersKept ==
  ASSUME TInv, ReplayReaches, NEW x \in Exec, Longer(log, log'),
         \A y \in Exec : y # x => run'[y] = run[y] /\ cp'[y] = cp[y],
         Live(x)' => ReplayTotal(x)' >= Recorded(x)'
  PROVE  ReplayReaches'
<1>1. ASSUME NEW y \in Exec, Live(y)' PROVE ReplayTotal(y)' >= Recorded(y)'
  <2>1. CASE y = x
    BY <1>1, <2>1
  <2>2. CASE y # x
    <3>1. Recorded(y)' = Recorded(y) /\ Live(y)
      BY <1>1, <2>2 DEF Recorded, Live
    <3>2. /\ ReplayTotal(y) \in Nat /\ ReplayTotal(y)' \in Nat
          /\ ReplayTotal(y)' >= ReplayTotal(y)
      BY <2>2, ReplayKept
    <3>3. ReplayTotal(y) >= Recorded(y)
      BY <3>1 DEF ReplayReaches
    <3>4. run[y].total \in Nat
      BY TInvRuns, RunOf
    <3>5. PICK k \in Int : k = Recorded(y)
      BY <3>4 DEF Recorded
    <3> QED BY <3>1, <3>2, <3>3, <3>5
  <2> QED BY <2>1, <2>2
<1> QED BY <1>1 DEF ReplayReaches

(* A run goes on with the steps it had.                                    *)
LEMMA GoesOnKept ==
  ASSUME TInv, ReplayReaches, NEW x \in Exec, Longer(log, log'), UNCHANGED cp,
         Live(x), run[x].at # "save" \/ run[x].claimed = NoMsg,
         NEW at, NEW seq, NEW claimed, NEW tool, NEW total, Turns(x, at, total, seq, claimed, tool),
         \/ total = run[x].total
         \/ at = "save" /\ claimed # NoMsg /\ total = run[x].total + 1
  PROVE  ReplayReaches'
<1>1. PICK t \in Nat : t = run[x].total
  BY TInvRuns, RunOf
<1>2. Recorded(x) = t
  BY <1>1 DEF Recorded
<1>3. PICK u \in Int : u = Recorded(x)' /\ u <= t
  BY <1>1 DEF Turns, Recorded
<1>4. /\ ReplayTotal(x) \in Nat /\ ReplayTotal(x)' \in Nat
      /\ ReplayTotal(x)' >= ReplayTotal(x)
  BY ReplayKept
<1>5. ReplayTotal(x) >= t
  BY <1>2 DEF ReplayReaches
<1>6. ReplayTotal(x)' >= Recorded(x)'
  BY <1>3, <1>4, <1>5
<1> QED BY <1>6, OthersKept DEF Turns

LEMMA ReturnsKept ==
  ASSUME TInv, ReplayReaches, NEW x \in Exec, Longer(log, log'), UNCHANGED cp, Returns(x)
  PROVE  ReplayReaches'
<1>1. Turns(x, "off", 0, 0, NoMsg, "none")
  BY TInvRuns, TurnsOff
<1>2. ~Live(x)'
  BY <1>1 DEF Turns, Live
<1> QED BY <1>1, <1>2, OthersKept DEF Turns

LEMMA StartKept ==
  ASSUME TInv, ReplayReaches, NEW x \in Exec, Longer(log, log'), Start(x)
  PROVE  ReplayReaches'
<1>1. UNCHANGED cp
  BY DEF Start, dbVars
<1>2. \/ run' = run
      \/ Turns(x, "begin", cp[x].total, 0, NoMsg, "none")
  BY TInvRuns, StartTurns
<1>3. /\ ReplayTotal(x) \in Nat /\ ReplayTotal(x)' \in Nat
      /\ ReplayTotal(x)' >= ReplayTotal(x) /\ ReplayTotal(x)' >= cp[x].total
  BY <1>1, ReplayKept
<1>4. CASE run' = run
  <2>1. ~Live(x)'
    BY <1>4 DEF Start, At, Live
  <2> QED BY <1>1, <1>4, <2>1, OthersKept
<1>5. CASE Turns(x, "begin", cp[x].total, 0, NoMsg, "none")
  <2>1. Recorded(x)' = cp[x].total
    BY <1>5 DEF Turns, Recorded
  <2> QED BY <1>1, <1>3, <1>5, <2>1, OthersKept DEF Turns
<1> QED BY <1>2, <1>4, <1>5

(* A checkpoint is written: replay starts at the steps of the run.         *)
LEMMA SavedKept ==
  ASSUME TInv, ReplayReaches, NEW x \in Exec, UNCHANGED log,
         cp' = [cp EXCEPT ![x] = Checkpoint(x)],
         NEW at, at # "save", NEW seq, NEW claimed, NEW tool,
         Turns(x, at, run[x].total, seq, claimed, tool)
  PROVE  ReplayReaches'
<1>1. /\ run[x].total \in Nat /\ run[x].seq \in Nat /\ log \in Seq(Event)
      /\ cp \in [Exec -> Checkpoints]
  BY TInvRuns, RunOf
<1>2. cp'[x].total = run[x].total /\ cp'[x].seq = run[x].seq
  BY <1>1, CheckpointType
<1>3. PICK t \in Nat, s \in Nat : t = run[x].total /\ s = run[x].seq
  BY <1>1
<1>4. ReplayTotal(x)' = ReplayOf(x, t, s, log)
  BY <1>2, <1>3 DEF ReplayTotal, ReplayOf
<1>5. ReplayOf(x, t, s, log) >= t
  BY <1>1, ReplayType
<1>6. Recorded(x)' = t
  BY <1>3 DEF Turns, Recorded
<1>7. ReplayTotal(x)' >= Recorded(x)'
  BY <1>4, <1>5, <1>6
<1>8. \A y \in Exec : y # x => cp'[y] = cp[y]
  BY <1>1
<1>9. Longer(log, log')
  BY DEF Longer
<1> QED BY <1>7, <1>8, <1>9, OthersKept DEF Turns

(* A step is recorded: its event carries the steps of the run.             *)
LEMMA StepKept ==
  ASSUME TInv, ReplayReaches, NEW x \in Exec, Longer(log, log'), Step(x)
  PROVE  ReplayReaches'
<1>1. UNCHANGED cp
  BY DEF Step
<1>2. /\ log \in Seq(Event) /\ log' \in Seq(Event) /\ Len(log') \in Nat
      /\ run \in [Exec -> Runs] /\ run[x].total \in Nat
  BY TInvRuns, LongerSeq, RunOf
<1>3. PICK at \in {"final", "loop"} : Turns(x, at, run[x].total + 1, Len(log'), NoMsg, "none")
  BY <1>2, StepTurns
<1>4. PICK t \in Nat : t = run[x].total + 1
  BY <1>2
<1>5. Recorded(x)' = t
  BY <1>3, <1>4 DEF Turns, Recorded
<1>6. PICK l \in Seq(Event), e \in Event :
         /\ l = log \/ \E d \in Event : l = Append(log, d)
         /\ log' = Append(l, e)
         /\ e.kind = "ExecutionStepCompleted" /\ e.of = x /\ e.n = run[x].total + 1
  BY <1>2, StepLog
<1>7. PICK from \in Nat, seq \in Nat : from = cp[x].total /\ seq = cp[x].seq /\ seq <= Len(log)
  BY TInvRuns DEF TInv, TypeOK, CheckpointTypeOK, Checkpoints
<1>8. seq <= Len(l)
  <2>1. Longer(log, l)
    BY <1>6 DEF Longer
  <2>2. Len(l) \in Nat /\ Len(log) \in Nat /\ Len(l) >= Len(log)
    BY <1>2, <2>1, LongerSeq
  <2> QED BY <1>7, <2>2
<1>9. PICK h : h = log'
  OBVIOUS
<1>10. ReplayOf(x, from, seq, h) >= e.n
  BY <1>6, <1>8, <1>9, ReplayGrows
<1>11. ReplayTotal(x)' = ReplayOf(x, from, seq, h)
  BY <1>1, <1>7, <1>9 DEF ReplayTotal, ReplayOf
<1>12. ReplayTotal(x)' >= Recorded(x)'
  BY <1>4, <1>5, <1>6, <1>10, <1>11
<1> QED BY <1>1, <1>3, <1>12, OthersKept DEF Turns

LEMMA RunStepKept ==
  ASSUME IInv, TInv, ReplayReaches, NEW x \in Exec, RunStep(x) \/ ApprovalAnswered(x),
         Longer(log, log')
  PROVE  ReplayReaches'
<1>0. /\ run \in [Exec -> Runs] /\ Len(log') \in Nat
      /\ run[x].claimed # NoMsg => run[x].at \in {"save", "ack"}
  BY TInvRuns, LongerSeq DEF IInv, ClaimsHeld
<1>1. CASE Start(x)
  BY <1>1, StartKept
<1>2. CASE Begin(x)
  <2>1. UNCHANGED cp /\ run[x].at = "begin"
    BY <1>2 DEF Begin, At
  <2>2. Turns(x, "loop", run[x].total, Len(log'), run[x].claimed, run[x].tool)
    BY <1>0, <1>2, BeginTurns
  <2> QED BY <2>1, <2>2, GoesOnKept DEF Live
<1>3. CASE CancelledAtLoop(x) \/ Abort(x) \/ CancelledWhileAsking(x) \/ Complete(x)
           \/ CancelledWhileActing(x)
  <2>1. UNCHANGED cp /\ Returns(x)
    BY <1>3 DEF CancelledAtLoop, Abort, CancelledWhileAsking, Complete, CancelledWhileActing,
                dbVars
  <2> QED BY <2>1, ReturnsKept
<1>4. CASE Claim(x)
  <2>1. UNCHANGED cp /\ run[x].at = "loop"
    BY <1>4 DEF Claim, At
  <2>2. CASE Turns(x, "save", run[x].total, run[x].seq, run[x].claimed, run[x].tool)
    BY <2>1, <2>2, GoesOnKept DEF Live
  <2>3. ASSUME NEW m \in Msg,
               Turns(x, "save", run[x].total + 1, run[x].seq, m, run[x].tool)
        PROVE  ReplayReaches'
    <3>1. m # NoMsg
      BY ExecutionAssumption
    <3>2. PICK t : t = run[x].total + 1
      OBVIOUS
    <3>3. Turns(x, "save", t, run[x].seq, m, run[x].tool)
      BY <2>3, <3>2
    <3> QED BY <2>1, <3>1, <3>2, <3>3, GoesOnKept DEF Live
  <2> QED BY <1>0, <1>4, <2>2, <2>3, ClaimTurns
<1>5. CASE Save(x)
  <2>1. cp' = [cp EXCEPT ![x] = Checkpoint(x)] /\ UNCHANGED log
    BY <1>5 DEF Save
  <2>2. PICK to \in {"think", "ack"} : run' = [run EXCEPT ![x].at = to]
    BY <1>5 DEF Save, Goes
  <2>3. Turns(x, to, run[x].total, run[x].seq, run[x].claimed, run[x].tool)
    <3>1. to \in Place
      BY DEF Place
    <3> QED BY <1>0, <2>2, <3>1, TurnsAt
  <2> QED BY <2>1, <2>3, SavedKept
<1>6. CASE Ack(x)
  <2>1. UNCHANGED cp /\ run[x].at = "ack"
    BY <1>6 DEF Ack, At
  <2>2. Turns(x, "think", run[x].total, run[x].seq, NoMsg, run[x].tool)
    BY <1>0, <1>6, AckTurns
  <2> QED BY <2>1, <2>2, GoesOnKept DEF Live
<1>7. CASE \/ AskApproval(x) \/ Reply(x)
           \/ Goes(x, "think", "act") /\ Answer(x)
           \/ Goes(x, "ask", "act") /\ ApprovalAnswered(x)
  <2>1. UNCHANGED cp /\ run[x].at \in {"think", "ask", "reply"}
    BY <1>7 DEF AskApproval, Reply, Answer, ApprovalAnswered, Goes, At, dbVars
  <2>2. PICK to \in Place : run' = [run EXCEPT ![x].at = to]
    BY <1>7 DEF AskApproval, Reply, Goes, Place
  <2>3. Turns(x, to, run[x].total, run[x].seq, run[x].claimed, run[x].tool)
    BY <1>0, <2>2, TurnsAt
  <2> QED BY <2>1, <2>3, GoesOnKept DEF Live
<1>8. CASE \/ Answer(x) /\ ~Goes(x, "think", "act")
           \/ ApprovalAnswered(x) /\ ~Goes(x, "ask", "act")
           \/ Act(x)
  <2>1. UNCHANGED cp /\ run[x].at \in {"think", "ask", "act"}
    BY <1>8 DEF Answer, ApprovalAnswered, Act, At, dbVars
  <2>2. \/ \E tool \in {"done", "failed"} : run' = [run EXCEPT ![x].at = "step", ![x].tool = tool]
        \/ run' = [run EXCEPT ![x].at = "step", ![x].last = TRUE]
    BY <1>8 DEF Answer, ApprovalAnswered, Act
  <2>3. PICK tool : Turns(x, "step", run[x].total, run[x].seq, run[x].claimed, tool)
    BY <1>0, <2>2, OutcomeTurns, LastTurns
  <2> QED BY <2>1, <2>3, GoesOnKept DEF Live
<1>9. CASE Step(x)
  BY <1>9, StepKept
<1>10. CASE Final(x)
  <2>1. cp' = [cp EXCEPT ![x] = Checkpoint(x)] /\ UNCHANGED log
    BY <1>10 DEF Final
  <2>2. Turns(x, "reply", run[x].total, run[x].seq, run[x].claimed, run[x].tool)
    BY <1>0, <1>10, FinalTurns
  <2> QED BY <2>1, <2>2, SavedKept
<1> QED BY <1>1, <1>2, <1>3, <1>4, <1>5, <1>6, <1>7, <1>8, <1>9, <1>10 DEF RunStep

(* Steps that no run takes.                                                *)
LEMMA StillKept ==
  ASSUME TInv, ReplayReaches, Longer(log, log'), UNCHANGED run,
         \A x \in Exec : Live(x) => cp'[x] = cp[x]
  PROVE  ReplayReaches'
<1>1. ASSUME NEW x \in Exec, Live(x)' PROVE ReplayTotal(x)' >= Recorded(x)'
  <2>1. Live(x) /\ Recorded(x)' = Recorded(x)
    BY <1>1 DEF Live, Recorded
  <2>2. ReplayTotal(x) \in Nat /\ ReplayTotal(x)' \in Nat /\ ReplayTotal(x)' >= ReplayTotal(x)
    BY <2>1, ReplayKept
  <2>3. PICK k \in Int : k = Recorded(x)
    <3>1. run[x].total \in Nat
      BY TInvRuns, RunOf
    <3> QED BY <3>1 DEF Recorded
  <2>4. ReplayTotal(x) >= Recorded(x)
    BY <2>1 DEF ReplayReaches
  <2> QED BY <2>1, <2>2, <2>3, <2>4
<1> QED BY <1>1 DEF ReplayReaches

LEMMA StillNext == DeadAreStill /\ [Next]_vars => DeadAreStill'
<1> SUFFICES ASSUME DeadAreStill, [Next]_vars PROVE DeadAreStill'
  OBVIOUS
<1>1. ASSUME NEW m \in Msg, Send(m) PROVE DeadAreStill'
  BY <1>1 DEF Send, SendMessage, InsertExecution, DeliverMessage, ScheduleMessage, Sends, runVars, DeadAreStill, Live
<1>2. ASSUME NEW x \in Exec, RunStep(x) \/ ApprovalAnswered(x) PROVE DeadAreStill'
  <2>1. phase = "up" /\ UNCHANGED phase
    BY <1>2 DEF RunStep, Start, Begin, CancelledAtLoop, Claim, Save, Ack, Abort, Answer,
         AskApproval, ApprovalAnswered, CancelledWhileAsking, Act, CancelledWhileActing, Step,
         Final, Reply, Complete, Goes, At
  <2> QED BY <2>1 DEF DeadAreStill
<1>3. ASSUME NEW x \in Exec, CancelExecution(x) \/ Kill(x) \/ TenMinutesPass(x) PROVE DeadAreStill'
  BY <1>3 DEF CancelExecution, Kill, TenMinutesPass, memVars, DeadAreStill
<1>4. CASE Housekeeping
  BY <1>4 DEF Housekeeping, ReadStalled, FailStalled, PruneCheckpoints, memVars, DeadAreStill
<1>5. CASE DayPasses \/ Boot \/ UNCHANGED vars
  BY <1>5 DEF DayPasses, Boot, Recover, QueueRecovered, memVars, runVars, vars, DeadAreStill, Live
<1>6. CASE Crash
  BY <1>6 DEF Crash, NoRun, DeadAreStill, Live
<1> QED BY <1>1, <1>2, <1>3, <1>4, <1>5, <1>6 DEF Next

LEMMA KeptNext ==
  IInv /\ TInv /\ DeadAreStill /\ ReplayReaches /\ [Next]_vars /\ [PrunesAtRest]_vars
    => ReplayReaches'
<1> SUFFICES ASSUME IInv, TInv, DeadAreStill, ReplayReaches, [Next]_vars,
                    [PrunesAtRest]_vars
             PROVE  ReplayReaches'
  OBVIOUS
<1>0. Longer(log, log')
  BY TInvRuns, LogGrows
<1>1. ASSUME UNCHANGED <<run, cp>> PROVE ReplayReaches'
  BY <1>0, <1>1, StillKept
<1>2. ASSUME NEW m \in Msg, Send(m) PROVE ReplayReaches'
  BY <1>1, <1>2 DEF Send, SendMessage, InsertExecution, DeliverMessage, ScheduleMessage, runVars, dbVars
<1>3. ASSUME NEW x \in Exec, RunStep(x) \/ ApprovalAnswered(x) PROVE ReplayReaches'
  BY <1>0, <1>3, RunStepKept
<1>4. ASSUME NEW x \in Exec, CancelExecution(x) \/ Kill(x) \/ TenMinutesPass(x)
      PROVE  ReplayReaches'
  BY <1>1, <1>4 DEF CancelExecution, Kill, TenMinutesPass, memVars, dbVars
<1>5. CASE ReadStalled \/ FailStalled \/ DayPasses \/ UNCHANGED vars
  BY <1>1, <1>5 DEF ReadStalled, FailStalled, DayPasses, memVars, runVars, dbVars, vars
<1>6. CASE PruneCheckpoints
  <2>1. UNCHANGED run /\ cp' = [x \in Exec |-> IF x \in old THEN NoCheckpoint ELSE cp[x]]
    BY <1>6 DEF PruneCheckpoints, memVars
  <2>2. \A x \in old : ~Live(x)
    BY <1>6 DEF PrunesAtRest, PruneCheckpoints, vars
  <2>3. \A x \in Exec : Live(x) => cp'[x] = cp[x]
    BY <2>1, <2>2
  <2> QED BY <1>0, <2>1, <2>3, StillKept
<1>7. CASE Crash
  BY <1>7 DEF Crash, NoRun, ReplayReaches, Live
<1>8. CASE Recover
  <2>1. UNCHANGED run /\ phase # "up"
    BY <1>8 DEF Recover, runVars
  <2>2. \A x \in Exec : ~Live(x)
    BY <2>1 DEF DeadAreStill
  <2> QED BY <1>0, <2>1, <2>2, StillKept
<1>9. CASE QueueRecovered
  BY <1>1, <1>9 DEF QueueRecovered, dbVars
<1> QED BY <1>2, <1>3, <1>4, <1>5, <1>6, <1>7, <1>8, <1>9 DEF Next, Housekeeping, Boot

LEMMA UnsavedOthers ==
  ASSUME Unsaved, NEW x \in Exec,
         \A y \in Exec : y # x => run'[y] = run[y] /\ cp'[y] = cp[y],
         ~cp'[x].exists =>
            /\ cp'[x].total = 0
            /\ Live(x)' => run'[x].at \in {"begin", "loop", "save"} /\ Recorded(x)' = 0
  PROVE  Unsaved'
<1>1. ASSUME NEW y \in Exec, ~cp'[y].exists
      PROVE  /\ cp'[y].total = 0
             /\ Live(y)' => run'[y].at \in {"begin", "loop", "save"} /\ Recorded(y)' = 0
  <2>1. CASE y = x
    BY <1>1, <2>1
  <2>2. CASE y # x
    <3>1. cp'[y] = cp[y] /\ (Live(y)' <=> Live(y)) /\ Recorded(y)' = Recorded(y)
          /\ run'[y].at = run[y].at
      BY <2>2 DEF Live, Recorded
    <3> QED BY <1>1, <3>1 DEF Unsaved
  <2> QED BY <2>1, <2>2
<1> QED BY <1>1 DEF Unsaved

LEMMA UnsavedRun ==
  ASSUME IInv, TInv, Unsaved, NEW x \in Exec, RunStep(x) \/ ApprovalAnswered(x), Len(log') \in Nat
  PROVE  Unsaved'
<1>0. /\ run \in [Exec -> Runs] /\ run[x].total \in Nat /\ cp \in [Exec -> Checkpoints]
      /\ run[x].claimed # NoMsg => run[x].at \in {"save", "ack"}
  BY TInvRuns, RunOf DEF IInv, ClaimsHeld
<1>1. Moves(x)
  BY TInvRuns, RunMoves
<1>2. \A y \in Exec : y # x => run'[y] = run[y]
  BY <1>1 DEF Moves
<1>3. CASE Save(x) \/ Final(x)
  <2>1. cp' = [cp EXCEPT ![x] = Checkpoint(x)]
    BY <1>3 DEF Save, Final
  <2>2. cp'[x].exists /\ \A y \in Exec : y # x => cp'[y] = cp[y]
    BY <1>0, <2>1 DEF Checkpoint
  <2> QED BY <1>2, <2>2, UnsavedOthers
<1>4. ASSUME ~Save(x), ~Final(x) PROVE UNCHANGED cp
  BY <1>4 DEF RunStep, Start, Begin, CancelledAtLoop, Claim, Ack, Abort, Answer, AskApproval,
     ApprovalAnswered, CancelledWhileAsking, Act, CancelledWhileActing, Step, Reply, Complete, dbVars
<1>5. CASE Start(x)
  <2>1. UNCHANGED cp /\ run[x].at = "off"
    BY <1>5 DEF Start, At, dbVars
  <2>2. run' = run \/ Turns(x, "begin", cp[x].total, 0, NoMsg, "none")
    BY <1>0, <1>5, TInvRuns, StartTurns
  <2>3. Live(x)' => run'[x].at = "begin" /\ Recorded(x)' = cp[x].total
    BY <2>1, <2>2 DEF Turns, Live, Recorded
  <2> QED BY <1>2, <2>1, <2>3, UnsavedOthers DEF Unsaved
<1>6. CASE Begin(x)
  <2>1. UNCHANGED cp /\ run[x].at = "begin"
    BY <1>6 DEF Begin, At
  <2>2. Turns(x, "loop", run[x].total, Len(log'), run[x].claimed, run[x].tool)
    BY <1>0, <1>6, BeginTurns
  <2>3. run'[x].at = "loop" /\ Recorded(x)' = Recorded(x) /\ Live(x)
    BY <2>1, <2>2 DEF Turns, Recorded, Live
  <2> QED BY <1>2, <2>1, <2>3, UnsavedOthers DEF Unsaved
<1>7. CASE Claim(x)
  <2>1. UNCHANGED cp /\ run[x].at = "loop" /\ run[x].claimed = NoMsg
    BY <1>0, <1>7 DEF Claim, At
  <2>2. Recorded(x) = run[x].total /\ Live(x)
    BY <2>1 DEF Recorded, Live
  <2>3. CASE Turns(x, "save", run[x].total, run[x].seq, run[x].claimed, run[x].tool)
    <3>1. run'[x].at = "save" /\ Recorded(x)' = Recorded(x)
      BY <2>1, <2>2, <2>3 DEF Turns, Recorded
    <3> QED BY <1>2, <2>1, <2>2, <3>1, UnsavedOthers DEF Unsaved
  <2>4. ASSUME NEW m \in Msg,
               Turns(x, "save", run[x].total + 1, run[x].seq, m, run[x].tool)
        PROVE  Unsaved'
    <3>1. m # NoMsg
      BY ExecutionAssumption
    <3>2. run'[x].at = "save" /\ Recorded(x)' = Recorded(x)
      BY <1>0, <2>2, <2>4, <3>1 DEF Turns, Recorded
    <3> QED BY <1>2, <2>1, <2>2, <3>2, UnsavedOthers DEF Unsaved
  <2> QED BY <1>0, <1>7, <2>3, <2>4, ClaimTurns
<1>8. CASE CancelledAtLoop(x)
  <2>1. UNCHANGED cp /\ Returns(x)
    BY <1>8 DEF CancelledAtLoop, dbVars
  <2>2. Turns(x, "off", 0, 0, NoMsg, "none")
    BY <1>0, <2>1, TurnsOff
  <2>3. ~Live(x)'
    BY <2>2 DEF Turns, Live
  <2> QED BY <1>2, <2>1, <2>3, UnsavedOthers DEF Unsaved
<1>9. CASE ~Save(x) /\ ~Final(x) /\ ~Start(x) /\ ~Begin(x) /\ ~Claim(x) /\ ~CancelledAtLoop(x)
  <2>1. run[x].at \notin {"off", "begin", "loop", "save"}
    BY <1>9 DEF RunStep, Ack, Abort, Answer, AskApproval, ApprovalAnswered, CancelledWhileAsking,
       Act, CancelledWhileActing, Step, Reply, Complete, Goes, At
  <2>2. cp[x].exists
    BY <2>1 DEF Unsaved, Live
  <2>3. UNCHANGED cp
    BY <1>4, <1>9
  <2> QED BY <1>2, <2>2, <2>3, UnsavedOthers
<1> QED BY <1>3, <1>5, <1>6, <1>7, <1>8, <1>9

LEMMA UnsavedNext ==
  IInv /\ TInv /\ DeadAreStill /\ Unsaved /\ [Next]_vars /\ [PrunesAtRest]_vars => Unsaved'
<1> SUFFICES ASSUME IInv, TInv, DeadAreStill, Unsaved, [Next]_vars, [PrunesAtRest]_vars
             PROVE  Unsaved'
  OBVIOUS
<1>0. Longer(log, log') /\ Len(log') \in Nat
  BY TInvRuns, LogGrows, LongerSeq
<1>1. ASSUME UNCHANGED <<run, cp>> PROVE Unsaved'
  BY <1>1 DEF Unsaved, Live, Recorded
<1>2. ASSUME NEW m \in Msg, Send(m) PROVE Unsaved'
  BY <1>1, <1>2 DEF Send, SendMessage, InsertExecution, DeliverMessage, ScheduleMessage, runVars, dbVars
<1>3. ASSUME NEW x \in Exec, RunStep(x) \/ ApprovalAnswered(x) PROVE Unsaved'
  BY <1>0, <1>3, UnsavedRun
<1>4. ASSUME NEW x \in Exec, CancelExecution(x) \/ Kill(x) \/ TenMinutesPass(x) PROVE Unsaved'
  BY <1>1, <1>4 DEF CancelExecution, Kill, TenMinutesPass, memVars, dbVars
<1>5. CASE ReadStalled \/ FailStalled \/ DayPasses \/ UNCHANGED vars
  BY <1>1, <1>5 DEF ReadStalled, FailStalled, DayPasses, memVars, runVars, dbVars, vars
<1>6. CASE PruneCheckpoints
  <2>1. UNCHANGED run /\ cp' = [x \in Exec |-> IF x \in old THEN NoCheckpoint ELSE cp[x]]
    BY <1>6 DEF PruneCheckpoints, memVars
  <2>2. \A x \in old : ~Live(x)
    BY <1>6 DEF PrunesAtRest, PruneCheckpoints, vars
  <2>3. ASSUME NEW x \in Exec, ~cp'[x].exists
        PROVE  /\ cp'[x].total = 0
               /\ Live(x)' => run'[x].at \in {"begin", "loop", "save"} /\ Recorded(x)' = 0
    <3>1. CASE x \in old
      BY <2>1, <2>2, <3>1 DEF NoCheckpoint, Live
    <3>2. CASE x \notin old
      <4>1. cp'[x] = cp[x] /\ run'[x] = run[x] /\ (Live(x)' <=> Live(x))
            /\ Recorded(x)' = Recorded(x)
        BY <2>1, <3>2 DEF Live, Recorded
      <4> QED BY <2>3, <4>1 DEF Unsaved
    <3> QED BY <3>1, <3>2
  <2> QED BY <2>3 DEF Unsaved
<1>7. CASE Crash
  <2>1. UNCHANGED cp /\ \A x \in Exec : run'[x].at = "off"
    BY <1>7 DEF Crash, NoRun, dbVars
  <2> QED BY <2>1 DEF Unsaved, Live
<1>8. CASE Recover
  <2>1. /\ UNCHANGED run /\ phase # "up"
        /\ cp' = [x \in Exec |-> IF x \in Crashed THEN Replay(x) ELSE cp[x]]
    BY <1>8 DEF Recover, runVars
  <2>2. \A x \in Exec : ~Live(x)'
    BY <2>1 DEF DeadAreStill, Live
  <2>3. ASSUME NEW x \in Exec, ~cp'[x].exists PROVE cp'[x].total = 0
    <3>1. Replay(x).exists = cp[x].exists
      BY ReplayRow DEF IInv, Shape
    <3>2. ~cp[x].exists
      BY <2>1, <2>3, <3>1
    <3>3. cp'[x] = cp[x]
      BY <2>1, <3>2 DEF Replay
    <3> QED BY <3>2, <3>3 DEF Unsaved
  <2> QED BY <2>2, <2>3 DEF Unsaved
<1>9. CASE QueueRecovered
  BY <1>1, <1>9 DEF QueueRecovered, dbVars
<1> QED BY <1>2, <1>3, <1>4, <1>5, <1>6, <1>7, <1>8, <1>9 DEF Next, Housekeeping, Boot

LEMMA ReachedIsReplayed ==
  ASSUME TInv, Unsaved, ReplayReaches
  PROVE  CrashForgetsNothing
<1> SUFFICES ASSUME NEW x \in Exec, Live(x) PROVE Replay(x).total >= Recorded(x)
  BY DEF CrashForgetsNothing
<1>1. CASE cp[x].exists
  <2>1. PICK n, l : n = ReplayTotal(x) /\ l = Len(log)
    OBVIOUS
  <2>2. cp[x] \in Checkpoints
    BY TInvRuns
  <2>3. Replay(x) = [cp[x] EXCEPT !.gen = n, !.total = n, !.seq = l]
    BY <1>1, <2>1 DEF Replay
  <2>4. Replay(x).total = n
    BY <2>2, <2>3 DEF Checkpoints
  <2> QED BY <2>1, <2>4 DEF ReplayReaches
<1>2. CASE ~cp[x].exists
  <2>1. Replay(x).total = 0 /\ Recorded(x) = 0
    BY <1>2 DEF Replay, Unsaved
  <2> QED BY <2>1
<1> QED BY <1>1, <1>2

(* "Picks up where it stopped": at whatever point the program dies, what   *)
(* recovery writes comes to no fewer steps than the dead run had recorded, *)
(* as long as housekeeping prunes no checkpoint under a run.               *)
THEOREM CrashesForgetNothing == Spec /\ [][PrunesAtRest]_vars => []CrashForgetsNothing
<1>1. Init => IInv /\ TInv /\ DeadAreStill /\ ReplayReaches /\ Unsaved
  <2>1. Init => DeadAreStill /\ ReplayReaches
    BY DEF Init, DeadAreStill, ReplayReaches, Live, NoRun
  <2>2. Init => Unsaved
    BY DEF Init, Unsaved, Live, NoRun, NoCheckpoint
  <2> QED BY <2>1, <2>2, InvInit, TypeInit
<1>2. IInv /\ [Next]_vars => IInv'
  BY NextStep
<1>3. TInv /\ IInv' /\ [Next]_vars => TInv'
  BY TypeNext
<1>4. DeadAreStill /\ [Next]_vars => DeadAreStill'
  BY StillNext
<1>5. IInv /\ TInv /\ DeadAreStill /\ ReplayReaches /\ [Next]_vars /\ [PrunesAtRest]_vars
        => ReplayReaches'
  BY KeptNext
<1>6. IInv /\ TInv /\ DeadAreStill /\ Unsaved /\ [Next]_vars /\ [PrunesAtRest]_vars => Unsaved'
  BY UnsavedNext
<1>7. TInv /\ Unsaved /\ ReplayReaches => CrashForgetsNothing
  BY ReachedIsReplayed
<1> QED BY <1>1, <1>2, <1>3, <1>4, <1>5, <1>6, <1>7, PTL DEF Spec

-----------------------------------------------------------------------------
(* Checkpoints, log and recovery are a memory (Durability).                *)

(* How far the checkpoint of a live run lags behind what the run recorded: *)
(* by one step between the end of a step and the next checkpoint.          *)
Follows(x) ==
  Live(x) =>
    /\ run[x].at = "final" => Recorded(x) = cp[x].total + 1
    /\ run[x].at \in {"loop", "save"} => Recorded(x) \in {cp[x].total, cp[x].total + 1}
    /\ run[x].at \notin {"final", "loop", "save"} => Recorded(x) = cp[x].total

CheckpointFollows == \A x \in Exec : Follows(x)

(* A step of the run of x, and of no other.                                *)
Alone(x) ==
  /\ phase = "up" /\ phase' = "up"
  /\ \A y \in Exec : y # x => run'[y] = run[y] /\ cp'[y] = cp[y]

(* What a step of the run of x does to what is known of it.                *)
Recalls(x) ==
  \/ (Live(x)' <=> Live(x)) /\ Known(x)' = Known(x)
  \/ Live(x)' /\ Live(x) /\ Known(x)' = Known(x) + 1
  \/ Live(x)' /\ ~Live(x) /\ Known(x)' = Known(x)
  \/ Live(x) /\ ~Live(x)' /\ Known(x)' = Known(x)
  \/ /\ Live(x) /\ ~Live(x)' /\ x \in cancelled
     /\ Known(x) > 0 /\ Known(x)' = Known(x) - 1

LEMMA KnownUp ==
  ASSUME TInv, NEW x \in Exec, phase = "up"
  PROVE  /\ Live(x) => Known(x) = Recorded(x)
         /\ ~Live(x) => Known(x) = cp[x].total
         /\ cp[x].total \in Nat /\ run[x].total \in Nat
         /\ run[x].at # "save" \/ run[x].claimed = NoMsg => Recorded(x) = run[x].total
         /\ run[x].at = "save" /\ run[x].claimed # NoMsg => Recorded(x) = run[x].total - 1
<1>1. cp[x].total \in Nat /\ run[x].total \in Nat
  BY TInvRuns, RunOf
<1> QED BY <1>1 DEF Known, Recorded

(* The same after a step that turns the run of x.                          *)
LEMMA KnownTurned ==
  ASSUME NEW x \in Exec, NEW at, NEW total, NEW seq, NEW claimed, NEW tool,
         Turns(x, at, total, seq, claimed, tool), phase' = "up"
  PROVE  /\ Live(x)' <=> at # "off"
         /\ run'[x].at = at
         /\ at = "off" => Known(x)' = cp'[x].total
         /\ at # "off" => Known(x)' = Recorded(x)'
         /\ at # "save" \/ claimed = NoMsg => Recorded(x)' = total
         /\ at = "save" /\ claimed # NoMsg => Recorded(x)' = total - 1
BY DEF Turns, Live, Known, Recorded

(* A run goes on with its checkpoint and what it recorded, or with one     *)
(* step more.                                                              *)
LEMMA GoesOnFollows ==
  ASSUME TInv, NEW x \in Exec, Follows(x), phase = "up", phase' = "up", cp'[x] = cp[x],
         NEW at \in Place \ {"off"}, NEW seq, NEW claimed, NEW tool,
         Turns(x, at, run[x].total, seq, claimed, tool),
         run[x].at # "off", run[x].at # "save" \/ run[x].claimed = NoMsg,
         at # "save" \/ claimed = NoMsg,
         run[x].at = "final" <=> at = "final",
         run[x].at \in {"loop", "save"} => at \in {"loop", "save"}
  PROVE  Follows(x)' /\ Recalls(x)
<1>1. /\ Live(x) /\ Known(x) = Recorded(x) /\ Recorded(x) = run[x].total
  BY KnownUp DEF Live
<1>2. /\ Live(x)' /\ run'[x].at = at /\ Known(x)' = Recorded(x)' /\ Recorded(x)' = run[x].total
  BY KnownTurned
<1>3. Recalls(x)
  BY <1>1, <1>2 DEF Recalls
<1>4. Follows(x)'
  BY <1>1, <1>2 DEF Follows
<1> QED BY <1>3, <1>4

LEMMA ReturnsFollows ==
  ASSUME TInv, NEW x \in Exec, Follows(x), phase = "up", phase' = "up", cp'[x] = cp[x],
         Returns(x), run[x].at \notin {"off", "save", "final"},
         run[x].at = "loop" => x \in cancelled
  PROVE  Follows(x)' /\ Recalls(x)
<1>1. Turns(x, "off", 0, 0, NoMsg, "none")
  BY TInvRuns, TurnsOff
<1>2. ~Live(x)' /\ Known(x)' = cp[x].total
  BY <1>1, KnownTurned
<1>3. /\ Live(x) /\ Known(x) = Recorded(x) /\ cp[x].total \in Nat
  BY KnownUp DEF Live
<1>4. CASE run[x].at = "loop"
  <2>1. Known(x) \in {cp[x].total, cp[x].total + 1}
    BY <1>3, <1>4 DEF Follows
  <2> QED BY <1>2, <1>3, <1>4, <2>1 DEF Recalls, Follows
<1>5. CASE run[x].at # "loop"
  <2>1. Known(x) = cp[x].total
    BY <1>3, <1>5 DEF Follows
  <2> QED BY <1>2, <1>3, <2>1 DEF Recalls, Follows
<1> QED BY <1>4, <1>5

LEMMA StartFollows ==
  ASSUME TInv, NEW x \in Exec, Follows(x), Start(x), phase = "up", phase' = "up"
  PROVE  Follows(x)' /\ Recalls(x)
<1>1. UNCHANGED cp /\ ~Live(x)
  BY DEF Start, dbVars, At, Live
<1>2. Known(x) = cp[x].total
  BY <1>1, KnownUp
<1>3. \/ run' = run
      \/ Turns(x, "begin", cp[x].total, 0, NoMsg, "none")
  BY TInvRuns, StartTurns
<1>4. CASE run' = run
  <2>1. ~Live(x)' /\ Known(x)' = cp[x].total
    BY <1>1, <1>4 DEF Live, Known
  <2> QED BY <1>1, <1>2, <2>1 DEF Follows, Recalls
<1>5. CASE Turns(x, "begin", cp[x].total, 0, NoMsg, "none")
  <2>1. Live(x)' /\ Known(x)' = cp[x].total /\ Recorded(x)' = cp[x].total /\ run'[x].at = "begin"
    BY <1>5, KnownTurned
  <2> QED BY <1>1, <1>2, <2>1 DEF Follows, Recalls
<1> QED BY <1>3, <1>4, <1>5

LEMMA ClaimFollows ==
  ASSUME TInv, NEW x \in Exec, Follows(x), Claim(x), phase = "up", phase' = "up",
         run[x].claimed = NoMsg
  PROVE  Follows(x)' /\ Recalls(x)
<1>1. UNCHANGED cp /\ run[x].at = "loop"
  BY DEF Claim, At
<1>2. \/ Turns(x, "save", run[x].total, run[x].seq, run[x].claimed, run[x].tool)
      \/ \E m \in Msg : Turns(x, "save", run[x].total + 1, run[x].seq, m, run[x].tool)
  BY TInvRuns, ClaimTurns
<1>3. Live(x) /\ Known(x) = Recorded(x) /\ Recorded(x) = run[x].total /\ run[x].total \in Nat
  BY <1>1, KnownUp DEF Live
<1>4. /\ Live(x)' /\ run'[x].at = "save" /\ Known(x)' = Recorded(x)'
      /\ Recorded(x)' = run[x].total
  <2>1. CASE Turns(x, "save", run[x].total, run[x].seq, run[x].claimed, run[x].tool)
    BY <2>1, KnownTurned
  <2>2. ASSUME NEW m \in Msg, Turns(x, "save", run[x].total + 1, run[x].seq, m, run[x].tool)
        PROVE  /\ Live(x)' /\ run'[x].at = "save" /\ Known(x)' = Recorded(x)'
               /\ Recorded(x)' = run[x].total
    <3>1. m # NoMsg
      BY ExecutionAssumption
    <3>2. PICK t \in Nat : t = run[x].total + 1
      BY <1>3
    <3>3. Turns(x, "save", t, run[x].seq, m, run[x].tool)
      BY <2>2, <3>2
    <3>4. Recorded(x)' = t - 1 /\ Live(x)' /\ run'[x].at = "save" /\ Known(x)' = Recorded(x)'
      BY <3>1, <3>3, KnownTurned
    <3> QED BY <1>3, <3>2, <3>4
  <2> QED BY <1>2, <2>1, <2>2
<1>5. Recorded(x) \in {cp[x].total, cp[x].total + 1}
  BY <1>1, <1>3 DEF Follows
<1>6. Recalls(x)
  BY <1>3, <1>4 DEF Recalls
<1>7. Follows(x)'
  BY <1>1, <1>3, <1>4, <1>5 DEF Follows
<1> QED BY <1>6, <1>7

(* A checkpoint is written: a claim counts from here on.                   *)
LEMMA SavedFollows ==
  ASSUME TInv, NEW x \in Exec, phase = "up", phase' = "up",
         run[x].at \in {"save", "final"}, cp' = [cp EXCEPT ![x] = Checkpoint(x)],
         NEW at, at \notin {"off", "loop", "save", "final"}, NEW seq, NEW claimed, NEW tool,
         Turns(x, at, run[x].total, seq, claimed, tool)
  PROVE  Follows(x)' /\ Recalls(x)
<1>1. cp'[x].total = run[x].total
  BY TInvRuns, CheckpointType
<1>2. Live(x)' /\ run'[x].at = at /\ Known(x)' = Recorded(x)' /\ Recorded(x)' = run[x].total
  BY KnownTurned
<1>3. /\ Live(x) /\ Known(x) = Recorded(x) /\ run[x].total \in Nat
      /\ Recorded(x) \in {run[x].total, run[x].total - 1}
  BY KnownUp DEF Live
<1>4. Recalls(x)
  BY <1>2, <1>3 DEF Recalls
<1>5. Follows(x)'
  BY <1>1, <1>2 DEF Follows
<1> QED BY <1>4, <1>5

LEMMA StepFollows ==
  ASSUME TInv, NEW x \in Exec, Follows(x), phase = "up", phase' = "up", Step(x),
         Len(log') \in Nat
  PROVE  Follows(x)' /\ Recalls(x)
<1>1. UNCHANGED cp /\ run[x].at = "step"
  BY DEF Step, At
<1>2. /\ Live(x) /\ Known(x) = Recorded(x) /\ Recorded(x) = run[x].total /\ run[x].total \in Nat
      /\ Recorded(x) = cp[x].total
  BY <1>1, KnownUp DEF Live, Follows
<1>3. PICK at \in {"final", "loop"} : Turns(x, at, run[x].total + 1, Len(log'), NoMsg, "none")
  BY TInvRuns, StepTurns
<1>4. PICK t \in Nat : t = run[x].total + 1
  BY <1>2
<1>5. Turns(x, at, t, Len(log'), NoMsg, "none")
  BY <1>3, <1>4
<1>6. Live(x)' /\ run'[x].at = at /\ Known(x)' = t /\ Recorded(x)' = t
  BY <1>5, KnownTurned
<1>7. Recalls(x)
  BY <1>2, <1>4, <1>6 DEF Recalls
<1>8. Follows(x)'
  BY <1>1, <1>2, <1>4, <1>6 DEF Follows
<1> QED BY <1>7, <1>8

LEMMA RunStepAlone ==
  ASSUME TInv, NEW x \in Exec, RunStep(x) \/ ApprovalAnswered(x), Len(log') \in Nat
  PROVE  Alone(x)
<1>1. Moves(x)
  BY TInvRuns, RunMoves
<1>2. phase = "up" /\ UNCHANGED phase
  BY DEF RunStep, Start, Begin, CancelledAtLoop, Claim, Save, Ack, Abort, Answer, AskApproval,
     ApprovalAnswered, CancelledWhileAsking, Act, CancelledWhileActing, Step, Final, Reply,
     Complete, Goes, At
<1>3. UNCHANGED cp \/ cp' = [cp EXCEPT ![x] = Checkpoint(x)]
  BY DEF RunStep, Start, Begin, CancelledAtLoop, Claim, Save, Ack, Abort, Answer, AskApproval,
     ApprovalAnswered, CancelledWhileAsking, Act, CancelledWhileActing, Step, Final, Reply,
     Complete, dbVars
<1>4. cp \in [Exec -> Checkpoints]
  BY TInvRuns
<1>5. \A y \in Exec : y # x => cp'[y] = cp[y]
  BY <1>3, <1>4
<1> QED BY <1>1, <1>2, <1>5 DEF Alone, Moves

(* Every step of a run keeps its checkpoint no more than a step behind.    *)
LEMMA RunStepFollows ==
  ASSUME IInv, TInv, NEW x \in Exec, Follows(x), RunStep(x) \/ ApprovalAnswered(x),
         Len(log') \in Nat
  PROVE  Follows(x)' /\ Recalls(x)
<1>0. /\ run \in [Exec -> Runs] /\ phase = "up" /\ phase' = "up"
      /\ run[x].claimed # NoMsg => run[x].at \in {"save", "ack"}
  BY TInvRuns, RunStepAlone DEF IInv, ClaimsHeld, Alone
<1>1. CASE Start(x)
  BY <1>0, <1>1, StartFollows
<1>2. CASE Begin(x)
  <2>1. UNCHANGED cp /\ run[x].at = "begin"
    BY <1>2 DEF Begin, At
  <2>2. Turns(x, "loop", run[x].total, Len(log'), run[x].claimed, run[x].tool)
    BY <1>0, <1>2, BeginTurns
  <2>3. "loop" \in Place
    BY DEF Place
  <2> QED BY <1>0, <2>1, <2>2, <2>3, GoesOnFollows
<1>3. CASE CancelledAtLoop(x) \/ Abort(x) \/ CancelledWhileAsking(x) \/ Complete(x)
           \/ CancelledWhileActing(x)
  <2>1. /\ UNCHANGED cp /\ Returns(x)
        /\ run[x].at \in {"loop", "think", "ask", "act", "complete"}
        /\ run[x].at = "loop" => x \in cancelled
    BY <1>3 DEF CancelledAtLoop, Abort, CancelledWhileAsking, Complete, CancelledWhileActing,
                dbVars, At
  <2> QED BY <1>0, <2>1, ReturnsFollows
<1>4. CASE Claim(x)
  <2>1. run[x].claimed = NoMsg
    BY <1>0, <1>4 DEF Claim, At
  <2> QED BY <1>0, <1>4, <2>1, ClaimFollows
<1>5. CASE Save(x)
  <2>1. cp' = [cp EXCEPT ![x] = Checkpoint(x)] /\ run[x].at = "save"
    BY <1>5 DEF Save, Goes, At
  <2>2. PICK to \in {"think", "ack"} : run' = [run EXCEPT ![x].at = to]
    BY <1>5 DEF Save, Goes
  <2>3. Turns(x, to, run[x].total, run[x].seq, run[x].claimed, run[x].tool)
    <3>1. to \in Place
      BY DEF Place
    <3> QED BY <1>0, <2>2, <3>1, TurnsAt
  <2> QED BY <1>0, <2>1, <2>3, SavedFollows
<1>6. CASE Ack(x)
  <2>1. UNCHANGED cp /\ run[x].at = "ack"
    BY <1>6 DEF Ack, At
  <2>2. Turns(x, "think", run[x].total, run[x].seq, NoMsg, run[x].tool)
    BY <1>0, <1>6, AckTurns
  <2>3. "think" \in Place
    BY DEF Place
  <2> QED BY <1>0, <2>1, <2>2, <2>3, GoesOnFollows
<1>7. CASE \/ AskApproval(x) \/ Reply(x)
           \/ Goes(x, "think", "act") /\ Answer(x)
           \/ Goes(x, "ask", "act") /\ ApprovalAnswered(x)
  <2>1. UNCHANGED cp /\ run[x].at \in {"think", "ask", "reply"}
    BY <1>7 DEF AskApproval, Reply, Answer, ApprovalAnswered, Goes, At, dbVars
  <2>2. PICK to \in {"ask", "act", "complete"} : run' = [run EXCEPT ![x].at = to]
    BY <1>7 DEF AskApproval, Reply, Goes
  <2>3. to \in Place
    BY DEF Place
  <2>4. Turns(x, to, run[x].total, run[x].seq, run[x].claimed, run[x].tool)
    BY <1>0, <2>2, <2>3, TurnsAt
  <2> QED BY <1>0, <2>1, <2>3, <2>4, GoesOnFollows
<1>8. CASE \/ Answer(x) /\ ~Goes(x, "think", "act")
           \/ ApprovalAnswered(x) /\ ~Goes(x, "ask", "act")
           \/ Act(x)
  <2>1. UNCHANGED cp /\ run[x].at \in {"think", "ask", "act"}
    BY <1>8 DEF Answer, ApprovalAnswered, Act, At, dbVars
  <2>2. \/ \E tool \in {"done", "failed"} : run' = [run EXCEPT ![x].at = "step", ![x].tool = tool]
        \/ run' = [run EXCEPT ![x].at = "step", ![x].last = TRUE]
    BY <1>8 DEF Answer, ApprovalAnswered, Act
  <2>3. PICK tool : Turns(x, "step", run[x].total, run[x].seq, run[x].claimed, tool)
    BY <1>0, <2>2, OutcomeTurns, LastTurns
  <2>4. "step" \in Place
    BY DEF Place
  <2> QED BY <1>0, <2>1, <2>3, <2>4, GoesOnFollows
<1>9. CASE Step(x)
  BY <1>0, <1>9, StepFollows
<1>10. CASE Final(x)
  <2>1. cp' = [cp EXCEPT ![x] = Checkpoint(x)] /\ run[x].at = "final"
    BY <1>10 DEF Final, At
  <2>2. Turns(x, "reply", run[x].total, run[x].seq, run[x].claimed, run[x].tool)
    BY <1>0, <1>10, FinalTurns
  <2> QED BY <1>0, <2>1, <2>2, SavedFollows
<1> QED BY <1>1, <1>2, <1>3, <1>4, <1>5, <1>6, <1>7, <1>8, <1>9, <1>10 DEF RunStep

-----------------------------------------------------------------------------
(* The steps no run takes keep what is known, and the checkpoints follow.  *)
LEMMA StillFollows ==
  ASSUME CheckpointFollows, UNCHANGED run, \A x \in Exec : Live(x) => cp'[x] = cp[x]
  PROVE  CheckpointFollows'
<1>1. ASSUME NEW x \in Exec PROVE Follows(x)'
  <2>1. Follows(x)
    BY DEF CheckpointFollows
  <2> QED BY <2>1 DEF Follows, Live, Recorded
<1> QED BY <1>1 DEF CheckpointFollows

LEMMA FollowsNext ==
  IInv /\ TInv /\ DeadAreStill /\ CheckpointFollows /\ [Next]_vars /\ [PrunesAtRest]_vars
    => CheckpointFollows'
<1> SUFFICES ASSUME IInv, TInv, DeadAreStill, CheckpointFollows, [Next]_vars,
                    [PrunesAtRest]_vars
             PROVE  CheckpointFollows'
  OBVIOUS
<1>0. Len(log') \in Nat
  BY TInvRuns, LogGrows, LongerSeq
<1>1. ASSUME UNCHANGED <<run, cp>> PROVE CheckpointFollows'
  BY <1>1, StillFollows
<1>2. ASSUME NEW m \in Msg, Send(m) PROVE CheckpointFollows'
  BY <1>1, <1>2 DEF Send, SendMessage, InsertExecution, DeliverMessage, ScheduleMessage, runVars, dbVars
<1>3. ASSUME NEW x \in Exec, RunStep(x) \/ ApprovalAnswered(x) PROVE CheckpointFollows'
  <2>1. Follows(x)'
    BY <1>0, <1>3, RunStepFollows DEF CheckpointFollows
  <2>2. ASSUME NEW y \in Exec, y # x PROVE Follows(y)'
    <3>1. run'[y] = run[y] /\ cp'[y] = cp[y]
      BY <1>0, <1>3, <2>2, RunStepAlone DEF Alone
    <3>2. Follows(y)
      BY DEF CheckpointFollows
    <3> QED BY <3>1, <3>2 DEF Follows, Live, Recorded
  <2> QED BY <2>1, <2>2 DEF CheckpointFollows
<1>4. ASSUME NEW x \in Exec, CancelExecution(x) \/ Kill(x) \/ TenMinutesPass(x)
      PROVE  CheckpointFollows'
  BY <1>1, <1>4 DEF CancelExecution, Kill, TenMinutesPass, memVars, dbVars
<1>5. CASE ReadStalled \/ FailStalled \/ DayPasses \/ UNCHANGED vars
  BY <1>1, <1>5 DEF ReadStalled, FailStalled, DayPasses, memVars, runVars, dbVars, vars
<1>6. CASE PruneCheckpoints
  <2>1. UNCHANGED run /\ cp' = [x \in Exec |-> IF x \in old THEN NoCheckpoint ELSE cp[x]]
    BY <1>6 DEF PruneCheckpoints, memVars
  <2>2. \A x \in old : ~Live(x)
    BY <1>6 DEF PrunesAtRest, PruneCheckpoints, vars
  <2>3. \A x \in Exec : Live(x) => cp'[x] = cp[x]
    BY <2>1, <2>2
  <2> QED BY <2>1, <2>3, StillFollows
<1>7. CASE Crash
  BY <1>7 DEF Crash, NoRun, CheckpointFollows, Follows, Live
<1>8. CASE Recover
  <2>1. UNCHANGED run /\ phase # "up"
    BY <1>8 DEF Recover, runVars
  <2>2. \A x \in Exec : ~Live(x)
    BY <2>1 DEF DeadAreStill
  <2> QED BY <2>1, <2>2, StillFollows
<1>9. CASE QueueRecovered
  BY <1>1, <1>9 DEF QueueRecovered, dbVars
<1> QED BY <1>2, <1>3, <1>4, <1>5, <1>6, <1>7, <1>8, <1>9 DEF Next, Housekeeping, Boot

-----------------------------------------------------------------------------
(* Each step is one of Durability's.                                       *)
Lives == {x \in Exec : Live(x)}
Knows == [x \in Exec |-> Known(x)]

(* Who is open and who is stopped are executions before and after.         *)
Said == Crashed' \subseteq Exec /\ cancelled' \subseteq Exec

LEMMA SaidNext == TInv /\ [Next]_vars => Said
<1> SUFFICES ASSUME TInv, [Next]_vars PROVE Said
  OBVIOUS
<1>1. cancelled' \subseteq Exec
  BY MemoryType DEF Memory
<1> QED BY <1>1 DEF Said, Crashed

LEMMA Stutters ==
  ASSUME Said, phase # "down", phase' # "down",
         \A x \in Exec : (Live(x)' <=> Live(x)) /\ Known(x)' = Known(x)
  PROVE  Keeps!Next
<1>1. Lives' = Lives /\ Lives = Lives \ {}
  BY DEF Lives
<1>2. Knows' = [x \in Exec |-> IF x \in {} THEN 0 ELSE Knows[x]]
  BY DEF Knows
<1>3. Keeps!Forget({})
  BY <1>1, <1>2 DEF Keeps!Forget, Lives, Knows
<1> QED BY <1>3 DEF Keeps!Next, Said

(* A step of the run of x is one of the actions on x, or none.             *)
LEMMA AloneRecalls ==
  ASSUME TInv, NEW x \in Exec, Said, Alone(x), Recalls(x)
  PROVE  Keeps!Next
<1>0. phase # "down" /\ phase' # "down" /\ (phase # "down")' = (phase # "down")
  BY DEF Alone
<1>1. \A y \in Exec : y # x => (Live(y)' <=> Live(y)) /\ Known(y)' = Known(y)
  BY DEF Alone, Live, Known, Recorded
<1>2. Knows' = [Knows EXCEPT ![x] = Known(x)']
  BY <1>1 DEF Knows
<1>3. Knows[x] = Known(x)
  BY DEF Knows
<1>4. CASE (Live(x)' <=> Live(x)) /\ Known(x)' = Known(x)
  BY <1>0, <1>1, <1>4, Stutters
<1>5. CASE Live(x)' /\ Live(x) /\ Known(x)' = Known(x) + 1
  <2>1. x \in Lives /\ Lives' = Lives
    BY <1>1, <1>5 DEF Lives
  <2>2. Knows' = [Knows EXCEPT ![x] = @ + 1]
    BY <1>2, <1>3, <1>5
  <2>3. Keeps!Advance(x)
    BY <2>1, <2>2 DEF Keeps!Advance, Lives, Knows
  <2> QED BY <1>0, <2>3 DEF Keeps!Next, Said
<1>6. CASE Live(x)' /\ ~Live(x) /\ Known(x)' = Known(x)
  <2>1. x \notin Lives /\ Lives' = Lives \cup {x}
    BY <1>1, <1>6 DEF Lives
  <2>2. Knows' = Knows
    BY <1>1, <1>6 DEF Knows
  <2>3. Keeps!Begin(x)
    BY <2>1, <2>2 DEF Keeps!Begin, Lives, Knows
  <2> QED BY <1>0, <2>3 DEF Keeps!Next, Said
<1>7. CASE Live(x) /\ ~Live(x)' /\ Known(x)' = Known(x)
  <2>1. x \in Lives /\ Lives' = Lives \ {x}
    BY <1>1, <1>7 DEF Lives
  <2>2. Knows' = Knows
    BY <1>1, <1>7 DEF Knows
  <2>3. Keeps!End(x)
    BY <2>1, <2>2 DEF Keeps!End, Lives, Knows
  <2> QED BY <1>0, <2>3 DEF Keeps!Next, Said
<1>8. CASE /\ Live(x) /\ ~Live(x)' /\ x \in cancelled
           /\ Known(x) > 0 /\ Known(x)' = Known(x) - 1
  <2>1. x \in Lives \cap cancelled /\ Lives' = Lives \ {x}
    BY <1>1, <1>8 DEF Lives
  <2>2. Knows' = [Knows EXCEPT ![x] = @ - 1] /\ Knows[x] > 0
    BY <1>2, <1>3, <1>8
  <2>3. Keeps!Stop(x)
    BY <2>1, <2>2 DEF Keeps!Stop, Lives, Knows
  <2> QED BY <1>0, <2>3 DEF Keeps!Next, Said
<1> QED BY <1>4, <1>5, <1>6, <1>7, <1>8 DEF Recalls

(* Replay arrives at no fewer steps than the checkpoint has.               *)
LEMMA ReplayFrom ==
  ASSUME TInv, NEW x \in Exec
  PROVE  Replay(x).total \in Nat /\ cp[x].total \in Nat /\ Replay(x).total >= cp[x].total
<1>1. cp[x] \in Checkpoints /\ cp[x].total \in Nat
  BY TInvRuns
<1>2. CASE cp[x].exists
  <2>1. PICK from \in Nat, seq \in Nat : from = cp[x].total /\ seq = cp[x].seq
    BY <1>1 DEF Checkpoints
  <2>2. PICK n \in Nat : n = ReplayTotal(x) /\ n >= from
    BY <2>1, TInvRuns, ReplayType, ReplayTotalIs
  <2>3. PICK l : l = Len(log)
    OBVIOUS
  <2>4. Replay(x) = [cp[x] EXCEPT !.gen = n, !.total = n, !.seq = l]
    BY <1>2, <2>2, <2>3 DEF Replay
  <2>5. Replay(x).total = n
    BY <1>1, <2>4 DEF Checkpoints
  <2> QED BY <1>1, <2>1, <2>2, <2>5
<1>3. CASE ~cp[x].exists
  BY <1>1, <1>3 DEF Replay
<1> QED BY <1>2, <1>3

LEMMA CrashRecalls ==
  ASSUME TInv, CrashForgetsNothing, CheckpointFollows, Said, Crash
  PROVE  Keeps!Next
<1>1. /\ UNCHANGED <<cp, log, status>> /\ phase # "down" /\ phase' = "down"
      /\ \A x \in Exec : ~Live(x)'
  BY DEF Crash, dbVars, NoRun, Live
<1>2. Lives' = {}
  BY <1>1 DEF Lives
<1>3. \A x \in Exec : Known(x)' = IF x \in Crashed THEN Replay(x).total ELSE cp[x].total
  <2>1. \A x \in Exec : Replay(x)' = Replay(x)
    BY <1>1 DEF Replay, ReplayTotal
  <2> QED BY <1>1, <2>1 DEF Known, Crashed
<1>4. \A x \in Exec : Known(x)' \in Nat
  BY <1>3, ReplayFrom
<1>5. ASSUME NEW x \in Exec
      PROVE  Known(x)' >= IF x \in Lives \ Crashed THEN Knows[x] - 1 ELSE Knows[x]
  <2>1. Knows[x] = IF Live(x) THEN Recorded(x) ELSE cp[x].total
    BY <1>1 DEF Knows, Known
  <2>2. /\ Replay(x).total \in Nat /\ cp[x].total \in Nat /\ Replay(x).total >= cp[x].total
    BY ReplayFrom
  <2>3. CASE ~Live(x)
    BY <1>3, <2>1, <2>2, <2>3 DEF Lives
  <2>4. CASE Live(x) /\ x \in Crashed
    <3>1. Replay(x).total >= Recorded(x)
      BY <2>4 DEF CrashForgetsNothing
    <3> QED BY <1>3, <2>1, <2>4, <3>1
  <2>5. CASE Live(x) /\ x \notin Crashed
    <3>1. Recorded(x) \in {cp[x].total, cp[x].total + 1}
      BY <2>5 DEF CheckpointFollows, Follows
    <3>2. Known(x)' = cp[x].total /\ x \in Lives \ Crashed
      BY <1>3, <2>5 DEF Lives
    <3> QED BY <2>1, <2>2, <2>5, <3>1, <3>2
  <2> QED BY <2>3, <2>4, <2>5
<1>6. Knows' \in [Exec -> Nat]
  BY <1>4 DEF Knows
<1>7. \A x \in Exec : Knows'[x] = Known(x)'
  BY DEF Knows
<1>8. \A x \in Exec : Knows'[x] >= IF x \in Lives \ Crashed THEN Knows[x] - 1 ELSE Knows[x]
  BY <1>5, <1>7
<1>9. Keeps!Crash
  BY <1>1, <1>2, <1>6, <1>8 DEF Keeps!Crash, Lives, Knows
<1> QED BY <1>9 DEF Keeps!Next, Said

LEMMA DurableInit == Init => Keeps!Init
<1> SUFFICES ASSUME Init PROVE Keeps!Init
  OBVIOUS
<1>1. \A x \in Exec : ~Live(x) /\ Known(x) = 0 /\ x \notin Crashed
  BY DEF Init, Live, Known, NoRun, NoCheckpoint, Crashed
<1>2. cancelled = {} /\ Crashed = {} /\ (phase # "down") = TRUE
  BY <1>1 DEF Init, Crashed
<1> QED BY <1>1, <1>2 DEF Keeps!Init

LEMMA DurableNext ==
  IInv /\ TInv /\ DeadAreStill /\ CheckpointFollows /\ CrashForgetsNothing
    /\ [Next]_vars /\ [PrunesAtRest]_vars => [Keeps!Next]_(Keeps!vars)
<1> SUFFICES ASSUME IInv, TInv, DeadAreStill, CheckpointFollows, CrashForgetsNothing,
                    [Next]_vars, [PrunesAtRest]_vars
             PROVE  [Keeps!Next]_(Keeps!vars)
  OBVIOUS
<1>0. Len(log') \in Nat /\ Said
  BY TInvRuns, LogGrows, LongerSeq, SaidNext
<1>1. ASSUME UNCHANGED <<run, cp>>, phase # "down", phase' # "down" PROVE Keeps!Next
  <2>1. \A x \in Exec : (Live(x)' <=> Live(x)) /\ Known(x)' = Known(x)
    BY <1>1 DEF Live, Known, Recorded
  <2> QED BY <1>0, <1>1, <2>1, Stutters
<1>2. ASSUME UNCHANGED <<run, cp, status, phase, log, cancelled>> PROVE UNCHANGED Keeps!vars
  <2>1. /\ Lives' = Lives /\ Knows' = Knows /\ Crashed' = Crashed
        /\ UNCHANGED <<cancelled, phase>>
    BY <1>2 DEF Lives, Knows, Crashed, Live, Known, Recorded, Replay, ReplayTotal
  <2> QED BY <2>1 DEF Keeps!vars, Lives, Knows
<1>3. ASSUME NEW m \in Msg, Send(m) PROVE Keeps!Next
  BY <1>1, <1>3 DEF Send, SendMessage, InsertExecution, DeliverMessage, ScheduleMessage, Sends, runVars, dbVars
<1>4. ASSUME NEW x \in Exec, RunStep(x) \/ ApprovalAnswered(x) PROVE Keeps!Next
  <2>1. Alone(x) /\ Recalls(x)
    BY <1>0, <1>4, RunStepAlone, RunStepFollows DEF CheckpointFollows
  <2> QED BY <1>0, <2>1, AloneRecalls
<1>5. ASSUME NEW x \in Exec, CancelExecution(x) \/ Kill(x) \/ TenMinutesPass(x)
      PROVE  Keeps!Next
  BY <1>1, <1>5 DEF CancelExecution, Kill, TenMinutesPass, memVars, dbVars
<1>6. CASE ReadStalled \/ FailStalled
  BY <1>1, <1>6 DEF ReadStalled, FailStalled, runVars, dbVars
<1>7. CASE DayPasses \/ UNCHANGED vars
  BY <1>2, <1>7 DEF DayPasses, memVars, vars
<1>8. CASE PruneCheckpoints
  <2>1. /\ UNCHANGED run /\ phase = "up" /\ phase' = "up" /\ old \subseteq Exec
        /\ cp' = [x \in Exec |-> IF x \in old THEN NoCheckpoint ELSE cp[x]]
    BY <1>8 DEF PruneCheckpoints, memVars, TInv, TypeOK, CheckpointTypeOK
  <2>2. \A x \in old : ~Live(x)
    BY <1>8 DEF PrunesAtRest, PruneCheckpoints, vars
  <2>3. \A x \in Exec : /\ Live(x)' <=> Live(x)
                        /\ Known(x)' = IF x \in old THEN 0 ELSE Known(x)
    BY <2>1, <2>2 DEF Live, Known, Recorded, NoCheckpoint
  <2>4. Lives' = Lives /\ old \cap Lives = {}
    BY <2>2, <2>3 DEF Lives
  <2>5. Knows' = [x \in Exec |-> IF x \in old THEN 0 ELSE Knows[x]]
    BY <2>3 DEF Knows
  <2>6. Keeps!Forget(old)
    BY <2>4, <2>5 DEF Keeps!Forget, Lives, Knows
  <2> QED BY <1>0, <2>1, <2>6 DEF Keeps!Next, Said
<1>9. CASE Crash
  BY <1>0, <1>9, CrashRecalls
<1>10. CASE Recover
  <2>1. /\ UNCHANGED run /\ phase = "down" /\ phase' = "booting"
        /\ cp' = [x \in Exec |-> IF x \in Crashed THEN Replay(x) ELSE cp[x]]
    BY <1>10 DEF Recover, runVars
  <2>2. \A x \in Exec : ~Live(x) /\ ~Live(x)'
    BY <2>1 DEF DeadAreStill, Live
  <2>3. \A x \in Exec : Known(x)' = Known(x)
    BY <2>1, <2>2 DEF Known, Crashed
  <2>4. Lives' = Lives /\ Knows' = Knows
    BY <2>2, <2>3 DEF Lives, Knows
  <2>5. Keeps!Boot
    BY <2>1, <2>4 DEF Keeps!Boot, Lives, Knows
  <2> QED BY <1>0, <2>5 DEF Keeps!Next, Said
<1>11. CASE QueueRecovered
  BY <1>1, <1>11 DEF QueueRecovered, dbVars
<1> QED BY <1>3, <1>4, <1>5, <1>6, <1>7, <1>8, <1>9, <1>10, <1>11 DEF Next, Housekeeping, Boot

(* Checkpoints, log and recovery together keep what Durability promises,   *)
(* as long as housekeeping prunes no checkpoint under a run: through any   *)
(* number of crashes, an execution that is open loses no step it had taken,*)
(* and only a cancelled run, or one whose row was closed under it, leaves  *)
(* without its last one.                                                   *)
THEOREM RunsAreDurable == Spec /\ [][PrunesAtRest]_vars => ImplementsDurability
<1>1. Init => IInv /\ TInv /\ DeadAreStill /\ CheckpointFollows
  <2>1. Init => DeadAreStill /\ CheckpointFollows
    BY DEF Init, DeadAreStill, CheckpointFollows, Follows, Live, NoRun
  <2> QED BY <2>1, InvInit, TypeInit
<1>2. IInv /\ [Next]_vars => IInv'
  BY NextStep
<1>3. TInv /\ IInv' /\ [Next]_vars => TInv'
  BY TypeNext
<1>4. DeadAreStill /\ [Next]_vars => DeadAreStill'
  BY StillNext
<1>5. IInv /\ TInv /\ DeadAreStill /\ CheckpointFollows /\ [Next]_vars /\ [PrunesAtRest]_vars
        => CheckpointFollows'
  BY FollowsNext
<1>6. Spec /\ [][PrunesAtRest]_vars => []CrashForgetsNothing
  BY CrashesForgetNothing
<1>7. Init => Keeps!Init
  BY DurableInit
<1>8. IInv /\ TInv /\ DeadAreStill /\ CheckpointFollows /\ CrashForgetsNothing
        /\ [Next]_vars /\ [PrunesAtRest]_vars => [Keeps!Next]_(Keeps!vars)
  BY DurableNext
<1> QED BY <1>1, <1>2, <1>3, <1>4, <1>5, <1>6, <1>7, <1>8, PTL
        DEF Spec, ImplementsDurability, Keeps!Spec

=============================================================================
