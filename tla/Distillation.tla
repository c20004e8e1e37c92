---------------------------- MODULE Distillation ----------------------------
(***************************************************************************)
(* The distillation of one conversation (distillation_engine.rs), which    *)
(* housekeeping runs over and over: the messages after the marker are read *)
(* in the order of their time stamps, a model is asked for the facts in    *)
(* them, each fact is stored (Memory), and the marker is moved to the time *)
(* stamp of the last message that was read.  A message takes its stamp     *)
(* before the transaction that stores it, so that messages are not stored  *)
(* in the order of their stamps, and two may have the same.                *)
(***************************************************************************)
EXTENDS Integers, FiniteSets

CONSTANTS
  Message,      \* messages of the conversation
  Stamp,        \* their time stamps, in the order of the database
  Batch         \* messages read at once (30)

ASSUME DistillationAssumption == Stamp \subseteq Nat \ {0} /\ Batch \in Nat

VARIABLES
  sent,         \* the stamp of each stored message, 0 before it is stored
  calm,         \* stamps up to this one are 30 seconds old or older
  distilled,    \* last_distilled_at: the marker, 0 when there is none
  batch,        \* the messages being distilled
  facts,        \* the messages that a model took the facts out of
  lateSent      \* history: messages stored after one of a later or the same stamp

distillVars == <<sent, calm, distilled, batch, facts, lateSent>>

DistillationTypeOK ==
  /\ sent \in [Message -> Stamp \cup {0}]
  /\ calm \in Stamp \cup {0} /\ distilled \in Stamp \cup {0}
  /\ batch \subseteq Message /\ facts \subseteq Message
  /\ lateSent \subseteq Message

DistillationInit ==
  /\ sent = [m \in Message |-> 0] /\ calm = 0 /\ distilled = 0
  /\ batch = {} /\ facts = {} /\ lateSent = {}

Stored == {m \in Message : sent[m] # 0}

(* A message is stored; its stamp was taken some time before.              *)
Post(m, s) ==
  /\ sent[m] = 0
  /\ sent' = [sent EXCEPT ![m] = s]
  /\ lateSent' = lateSent \cup {n \in Stored : sent[n] = s}
                  \cup IF \E n \in Stored : sent[n] >= s THEN {m} ELSE {}
  /\ UNCHANGED <<calm, distilled, batch, facts>>

HalfAMinute ==
  /\ \E s \in Stamp : s > calm /\ calm' = s
  /\ UNCHANGED <<sent, distilled, batch, facts, lateSent>>

(* The oldest messages after the marker, at most Batch of them; which of   *)
(* two with the same stamp comes first is the database's choice.           *)
Batches ==
  LET new == {m \in Stored : sent[m] > distilled}
  IN {b \in SUBSET new :
        /\ Cardinality(b) = IF Cardinality(new) < Batch THEN Cardinality(new) ELSE Batch
        /\ \A m \in b, n \in new \ b : sent[m] <= sent[n]}

Newest(b) == CHOOSE s \in Stamp : (\E m \in b : sent[m] = s) /\ \A m \in b : sent[m] <= s

(* A cycle reads at least two messages, the last of them 30 seconds old.   *)
ReadMessages ==
  /\ batch = {}
  /\ \E b \in Batches :
       /\ Cardinality(b) >= 2
       /\ Newest(b) <= calm
       /\ batch' = b
  /\ UNCHANGED <<sent, calm, distilled, facts, lateSent>>

(* The model fails or answers no JSON, the program stops, or the marker    *)
(* cannot be written: it stays, and the same messages are read again.      *)
GiveUpBatch ==
  /\ batch # {} /\ batch' = {}
  /\ UNCHANGED <<sent, calm, distilled, facts, lateSent>>

(* The model has answered: each fact is stored, or reinforced if it is     *)
(* there already.  A fact that cannot be stored is passed over.            *)
StoreFacts ==
  /\ batch # {} /\ ~(batch \subseteq facts)
  /\ facts' = facts \cup batch
  /\ UNCHANGED <<sent, calm, distilled, batch, lateSent>>

(* Mutant: the marker is the newest message there is by now. *)
MarkNewest ==
  /\ batch # {} /\ batch \subseteq facts
  /\ distilled' = Newest(Stored)
  /\ batch' = {}
  /\ UNCHANGED <<sent, calm, facts, lateSent>>

(* The marker moves to the last message that was read.                     *)
MoveMarker ==
  /\ batch # {} /\ batch \subseteq facts
  /\ distilled' = Newest(batch)
  /\ batch' = {}
  /\ UNCHANGED <<sent, calm, facts, lateSent>>

DistillationNext ==
  \/ \E m \in Message, s \in Stamp : Post(m, s)
  \/ HalfAMinute \/ ReadMessages \/ GiveUpBatch \/ StoreFacts \/ MoveMarker

DistillationSpec == DistillationInit /\ [][DistillationNext]_distillVars

(* The marker passes no message that was not distilled, other than one     *)
(* that was stored after a message with a later stamp, or that shares its  *)
(* stamp with another: such a one may never be read.                       *)
MarkerPassesOnlyRead ==
  \A m \in Stored : sent[m] <= distilled => m \in facts \cup lateSent
=============================================================================
