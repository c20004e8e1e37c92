------------------------------ MODULE Browser ------------------------------
(***************************************************************************)
(* One browser space (browser_space_manager.rs, cdp_manager.rs), shared by *)
(* all runs and commands that name it: its Chrome, launched by the first   *)
(* call, its profile directory and the snapshots of it, one taken before   *)
(* a call is asked about, to be restored when the operator says no         *)
(* (agent_runtime.rs).  Chrome is external: it keeps what the pages did in *)
(* memory and writes it to the profile when it likes, at the latest when   *)
(* it is closed; it is killed when the last reference to it is dropped.    *)
(*                                                                         *)
(* A deed is a call that was reported as a success, by its number.         *)
(***************************************************************************)
EXTENDS Integers, Sequences, FiniteSets

CONSTANT Visitor          \* runs and commands that use the space

VARIABLES
  profile,      \* deeds with their traces in the profile directory
  sessions,     \* the browser of the space, 0 for none
  keeps,        \* for each browser launched, the deeds it has in memory only
  closed,       \* browsers that have been closed
  visit,        \* what each visitor is doing, with which browser and snapshot
  snapshots,    \* the snapshots taken
  deeds,        \* how many deeds there were
  displaced,    \* history: browsers closed, or replaced by one whose launch was
                \*   begun when there was none
  forfeited     \* history: deeds that a restored snapshot need not have

browserVars == <<profile, sessions, keeps, closed, visit, snapshots, deeds, displaced, forfeited>>

Away == [at |-> "away", browser |-> 0, first |-> FALSE, snap |-> 0]

BrowserInit ==
  /\ profile = {} /\ sessions = 0 /\ keeps = <<>> /\ closed = {}
  /\ visit = [c \in Visitor |-> Away] /\ snapshots = <<>> /\ deeds = 0
  /\ displaced = {} /\ forfeited = {}

-----------------------------------------------------------------------------
(* Mutant: every call launches a browser of its own. *)
WhereAlways == "launch"

(* The browser that is there is used; the look is not repeated after the   *)
(* launch.                                                                 *)
Where == IF sessions # 0 THEN "page" ELSE "launch"

(* A call begins, of a tool that needs no answer or has got it.            *)
BeginVisit(c) ==
  /\ visit[c].at \in {"away", "asking"}
  /\ visit' = [visit EXCEPT ![c] = [at |-> Where, first |-> sessions = 0, snap |-> 0,
                                    browser |-> IF Where = "page" THEN sessions ELSE 0]]
  /\ UNCHANGED <<profile, sessions, keeps, closed, snapshots, deeds, displaced, forfeited>>

(* The binary is found, the directory made and Chrome started, which may   *)
(* fail; it takes the place of one that came first.                        *)
Launch(c) ==
  LET b == Len(keeps) + 1
  IN /\ visit[c].at = "launch"
     /\ keeps' = Append(keeps, {}) /\ sessions' = b
     /\ visit' = [visit EXCEPT ![c].at = "page", ![c].browser = b]
     /\ displaced' = displaced \cup (IF visit[c].first THEN {sessions} \ {0} ELSE {})
     /\ UNCHANGED <<profile, closed, snapshots, deeds, forfeited>>

LockPage(c) ==
  /\ visit[c].at = "page"
  /\ \A d \in Visitor : visit[d].at = "acting" => visit[d].browser # visit[c].browser
  /\ visit' = [visit EXCEPT ![c].at = "acting"]
  /\ UNCHANGED <<profile, sessions, keeps, closed, snapshots, deeds, displaced, forfeited>>

(* A navigation ends with a snapshot, a click or a text does not.          *)
Perform(c) ==
  /\ visit[c].at = "acting" /\ visit[c].browser \notin closed
  /\ deeds' = deeds + 1
  /\ keeps' = [keeps EXCEPT ![visit[c].browser] = @ \cup {deeds + 1}]
  /\ \/ visit' = [visit EXCEPT ![c] = [Away EXCEPT !.at = "navigated"]]
     \/ visit' = [visit EXCEPT ![c] = Away]
  /\ UNCHANGED <<profile, sessions, closed, snapshots, displaced, forfeited>>

(* An error -- an address whose domain the space blocks or does not allow  *)
(* is one -- a time limit, the end of a run, or a call that only reads.     *)
Leave(c) ==
  /\ visit[c].at \in {"launch", "page", "acting", "asking"}
  /\ visit' = [visit EXCEPT ![c] = Away]
  /\ UNCHANGED <<profile, sessions, keeps, closed, snapshots, deeds, displaced, forfeited>>

InMemory == UNION {keeps[b] : b \in DOMAIN keeps}
Restoring == \E c \in Visitor : visit[c].at = "copy"

(* The copy of the profile may fail, at its first directory or on the way: *)
(* the snapshot is recorded all the same.  due is what it ought to have.   *)
(* The copy is of one instant; Chrome may write while it is made, but only *)
(* what is not due.                                                        *)
Snapshot ==
  {[there |-> TRUE, content |-> profile,
    due |-> IF Restoring THEN {} ELSE (1 .. deeds) \ InMemory]}
  \cup {[there |-> TRUE, content |-> part, due |-> {}] : part \in SUBSET profile}
  \cup {[there |-> FALSE, content |-> {}, due |-> {}]}

TakeSnapshot(c) ==
  /\ \E s \in Snapshot : snapshots' = Append(snapshots, s)
  /\ \/ visit[c].at = "navigated" /\ visit' = [visit EXCEPT ![c] = Away]
     \/ /\ visit[c].at = "away"
        /\ visit' = [visit EXCEPT ![c].at = "asking", ![c].snap = Len(snapshots) + 1]
  /\ UNCHANGED <<profile, sessions, keeps, closed, deeds, displaced, forfeited>>

(* The operator said no, or wants to go back to some snapshot; or the      *)
(* program closes all browsers, after which no snapshot is restored.       *)
BeginRollback(c) ==
  /\ \/ visit[c].at = "asking" /\ visit' = [visit EXCEPT ![c].at = "close"]
     \/ /\ visit[c].at = "away"
        /\ \E k \in {0} \cup DOMAIN snapshots :
             visit' = [visit EXCEPT ![c].at = "close", ![c].snap = k]
  /\ UNCHANGED <<profile, sessions, keeps, closed, snapshots, deeds, displaced, forfeited>>

CloseSpace(c) ==
  /\ visit[c].at = "close"
  /\ visit' = [visit EXCEPT ![c].at = IF sessions = 0 THEN "clear" ELSE "closing",
                            ![c].browser = sessions]
  /\ sessions' = 0 /\ displaced' = displaced \cup ({sessions} \ {0})
  /\ UNCHANGED <<profile, keeps, closed, snapshots, deeds, forfeited>>

(* Two seconds are waited for Chrome to close.                             *)
CloseEnds(c) ==
  LET b == visit[c].browser
  IN /\ visit[c].at = "closing"
     /\ visit' = [visit EXCEPT ![c].at = "clear", ![c].browser = 0]
     /\ \/ /\ closed' = closed \cup {b}
           /\ profile' = profile \cup keeps[b] /\ keeps' = [keeps EXCEPT ![b] = {}]
        \/ UNCHANGED <<profile, keeps, closed>>
     /\ UNCHANGED <<sessions, snapshots, deeds, displaced, forfeited>>

Lapsed(k) == forfeited \cup ((1 .. deeds) \ snapshots[k].due)

(* restore_physical_snapshot: without a directory nothing is done; what    *)
(* cannot be removed stays.                                                *)
ClearProfile(c) ==
  LET k == visit[c].snap
  IN /\ visit[c].at = "clear"
     /\ IF k = 0 \/ ~snapshots[k].there
        THEN visit' = [visit EXCEPT ![c] = Away] /\ UNCHANGED <<profile, forfeited>>
        ELSE /\ visit' = [visit EXCEPT ![c].at = "copy"]
             /\ profile' \in SUBSET profile
             /\ forfeited' = Lapsed(k)
     /\ UNCHANGED <<sessions, keeps, closed, snapshots, deeds, displaced>>

(* The copy takes the place of what a browser has written meanwhile; it    *)
(* may fail too.                                                           *)
CopySnapshot(c) ==
  /\ visit[c].at = "copy" /\ visit' = [visit EXCEPT ![c] = Away]
  /\ \/ /\ \E kept \in SUBSET profile : profile' = kept \cup snapshots[visit[c].snap].content
        /\ forfeited' = Lapsed(visit[c].snap)
     \/ UNCHANGED profile /\ forfeited' = 1 .. deeds
  /\ UNCHANGED <<sessions, keeps, closed, snapshots, deeds, displaced>>

(* Chrome writes, as long as somebody holds it.                            *)
Flush(b) ==
  /\ b \notin closed /\ (b = sessions \/ \E c \in Visitor : visit[c].browser = b)
  /\ profile' = profile \cup keeps[b] /\ keeps' = [keeps EXCEPT ![b] = {}]
  /\ UNCHANGED <<sessions, closed, visit, snapshots, deeds, displaced, forfeited>>

(* The program is killed, perhaps while a snapshot is being restored.      *)
ProgramDies ==
  /\ visit' = [c \in Visitor |-> Away] /\ sessions' = 0
  /\ displaced' = DOMAIN keeps
  /\ forfeited' = IF Restoring THEN 1 .. deeds ELSE forfeited
  /\ UNCHANGED <<profile, keeps, closed, snapshots, deeds>>

BrowserNext ==
  \/ \E c \in Visitor :
       \/ BeginVisit(c) \/ Launch(c) \/ LockPage(c) \/ Perform(c) \/ Leave(c) \/ TakeSnapshot(c)
       \/ BeginRollback(c) \/ CloseSpace(c) \/ CloseEnds(c) \/ ClearProfile(c) \/ CopySnapshot(c)
  \/ \E b \in DOMAIN keeps : Flush(b)
  \/ ProgramDies

BrowserSpec == BrowserInit /\ [][BrowserNext]_browserVars

-----------------------------------------------------------------------------
BrowserTypeOK ==
  /\ profile \subseteq 1 .. deeds /\ deeds \in Nat /\ forfeited \subseteq 1 .. deeds
  /\ keeps \in Seq(SUBSET (1 .. deeds))
  /\ sessions \in {0} \cup DOMAIN keeps /\ closed \cup displaced \subseteq DOMAIN keeps
  /\ visit \in [Visitor -> [at : {"away", "launch", "page", "acting", "navigated", "asking",
                                  "close", "closing", "clear", "copy"},
                            browser : {0} \cup DOMAIN keeps, first : BOOLEAN,
                            snap : {0} \cup DOMAIN snapshots]]
  /\ snapshots \in Seq([there : BOOLEAN, content : SUBSET (1 .. deeds), due : SUBSET (1 .. deeds)])

(* What a call did in a space that several runs share is in its profile or *)
(* in the memory of its browser -- except for what a restored snapshot     *)
(* lacks because it came later, was not on the disk yet, or the copy       *)
(* failed, and for browsers that were closed or lost the race of two first *)
(* calls.  A denied call takes back no deed its snapshot ought to have.     *)
DeedsAreKept ==
  ~Restoring => \A d \in 1 .. deeds :
    \/ d \in profile \cup forfeited
    \/ \E b \in {sessions} \cup displaced : b # 0 /\ d \in keeps[b]
=============================================================================
