----------------------------- MODULE Admission -----------------------------
(***************************************************************************)
(* What the scheduler promises about concurrency, without its counters:    *)
(* who owns a slot of which project and who owns one of the global         *)
(* permits.  A task asks for a permit only while it owns a slot, so a      *)
(* project never has more than Cap tasks among those that compete for      *)
(* permits.  Debates compete for permits without a slot.                   *)
(***************************************************************************)
EXTENDS Naturals, FiniteSets

CONSTANTS Task, Debate, Project, MaxAgents, Cap

VARIABLES
  slots,      \* the tasks that own a slot of each project
  owners      \* the tasks and debates that own a permit

vars == <<slots, owners>>

Init ==
  /\ slots = [p \in Project |-> {}]
  /\ owners = {}

Enter(t, p) ==
  /\ \A q \in Project : t \notin slots[q]
  /\ Cardinality(slots[p]) < Cap
  /\ slots' = [slots EXCEPT ![p] = @ \cup {t}]
  /\ UNCHANGED owners

Leave(t, p) ==
  /\ t \in slots[p]
  /\ slots' = [slots EXCEPT ![p] = @ \ {t}]
  /\ UNCHANGED owners

Take(x) ==
  /\ x \notin owners
  /\ x \in Debate \/ \E p \in Project : x \in slots[p]
  /\ Cardinality(owners) < MaxAgents
  /\ owners' = owners \cup {x}
  /\ UNCHANGED slots

Drop(x) ==
  /\ x \in owners
  /\ owners' = owners \ {x}
  /\ UNCHANGED slots

Next ==
  \/ \E t \in Task, p \in Project : Enter(t, p) \/ Leave(t, p)
  \/ \E x \in Task \cup Debate : Take(x) \/ Drop(x)

Spec == Init /\ [][Next]_vars
=============================================================================
