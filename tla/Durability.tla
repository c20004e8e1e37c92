----------------------------- MODULE Durability -----------------------------
(***************************************************************************)
(* What the runtime promises about what an execution remembers, without    *)
(* its database, its log, its checkpoints and its recovery: from how many  *)
(* steps it goes on.  A run adds one at a time and takes none back when it *)
(* ends.  A run that was told to stop may leave without its last step.  A  *)
(* crash ends all runs, and no step of an execution that is open is lost;  *)
(* one that was closed under its run is not recovered, and may lose the    *)
(* step its run had not saved.  Only what does not run is forgotten.       *)
(***************************************************************************)
EXTENDS Integers

CONSTANT Exec

VARIABLES
  live,       \* the executions that have a run
  open,       \* those that are said to be running
  stopped,    \* those whose run was told to stop
  known,      \* from how many steps each of them goes on
  up          \* FALSE from a crash to the next start of the program

vars == <<live, open, stopped, known, up>>

Init ==
  /\ live = {} /\ open = {} /\ stopped = {} /\ up = TRUE
  /\ known = [x \in Exec |-> 0]

Begin(x) == x \notin live /\ live' = live \cup {x} /\ UNCHANGED known

Advance(x) ==
  /\ x \in live /\ UNCHANGED live
  /\ known' = [known EXCEPT ![x] = @ + 1]

End(x) == x \in live /\ live' = live \ {x} /\ UNCHANGED known

Stop(x) ==
  /\ x \in live \cap stopped /\ live' = live \ {x}
  /\ known[x] > 0 /\ known' = [known EXCEPT ![x] = @ - 1]

Crash ==
  /\ up /\ up' = FALSE
  /\ live' = {}
  /\ known' \in [Exec -> Nat]
  /\ \A x \in Exec : known'[x] >= IF x \in live \ open THEN known[x] - 1 ELSE known[x]

Forget(S) ==
  /\ S \cap live = {} /\ UNCHANGED live
  /\ known' = [x \in Exec |-> IF x \in S THEN 0 ELSE known[x]]

Boot == ~up /\ up' = TRUE /\ UNCHANGED <<live, known>>

(* Who opens, closes and stops an execution is nothing it forgets by.      *)
Next ==
  /\ open' \subseteq Exec /\ stopped' \subseteq Exec
  /\ \/ /\ up /\ UNCHANGED up
        /\ \/ \E x \in Exec : Begin(x) \/ Advance(x) \/ End(x) \/ Stop(x)
           \/ \E S \in SUBSET Exec : Forget(S)
     \/ Crash
     \/ Boot

Spec == Init /\ [][Next]_vars
=============================================================================
