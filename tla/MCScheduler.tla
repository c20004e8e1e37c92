---------------------------- MODULE MCScheduler ----------------------------
(***************************************************************************)
(* An instance of Scheduler for TLC: the environment makes at most         *)
(* MaxRequests requests (queue, wake, cancel, shutdown) in a behaviour.    *)
(***************************************************************************)
EXTENDS Scheduler, TLC

CONSTANTS e1, e2, e3, p1, p2, MaxRequests

VARIABLE requests       \* requests made so far

MCProjectOf == [e \in Exec |-> IF e = e3 THEN p2 ELSE p1]

Symmetry == Permutations(Task)

MCInit == Init /\ requests = 0

MCNext ==
  \/ /\ Environment
     /\ requests < MaxRequests
     /\ requests' = requests + 1
  \/ System /\ UNCHANGED requests

MCSafetySpec == MCInit /\ [][MCNext]_<<vars, requests>>

(* Every execution boots: no early return of try_schedule is taken. *)
MCBootsSpec == MCInit /\ [][MCNext /\ \A t \in Task : ~BootFails(t)]_<<vars, requests>>

MCSpec == MCSafetySpec /\ Fairness
=============================================================================
