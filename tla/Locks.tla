------------------------------- MODULE Locks -------------------------------
(***************************************************************************)
(* The advisory locks of a project database (lock_repo.rs).  Every         *)
(* operation is one write transaction that reads the clock, and a clock    *)
(* counts the instants at which an expiry can be told from another.  A     *)
(* client knows of its lock only what it was answered: lease is the expiry *)
(* of its last success, and 0 says that it has none.                       *)
(***************************************************************************)
EXTENDS Integers

CONSTANTS
  Holder,       \* names under which locks are taken
  Key,          \* what is locked
  Ttl           \* times to live that are asked for

ASSUME LocksAssumption == Ttl \subseteq Nat

NoRow == [holder |-> {}, expires |-> 0]

VARIABLES
  locks,        \* the row of each key: {} or the set of its one holder, and its expiry
  lease,        \* what each holder was last told of each key
  clock,        \* Utc::now
  setBack       \* history: the clock of the machine has been set back

lockVars == <<locks, lease, clock, setBack>>

LocksTypeOK ==
  /\ locks \in [Key -> [holder: SUBSET Holder, expires: Nat]]
  /\ lease \in [Key -> [Holder -> Nat]]
  /\ clock \in Nat \ {0} /\ setBack \in BOOLEAN

LocksInit ==
  /\ locks = [k \in Key |-> NoRow]
  /\ lease = [k \in Key |-> [h \in Holder |-> 0]]
  /\ clock = 1 /\ setBack = FALSE

Answered(k, h, e) == lease' = [lease EXCEPT ![k][h] = e]

(* DELETE FROM locks WHERE expires_at < now *)
Unexpired(rows) ==
  [k \in Key |-> IF rows[k].expires < clock THEN NoRow ELSE rows[k]]

(* A free key is inserted; a conflict updates the expiry of its own holder *)
(* only, and the answer is the number of rows that were written.           *)
TryAcquire(k, h) ==
  \E ttl \in Ttl :
    LET rows == Unexpired(locks)
        mine == rows[k].holder \subseteq {h}
    IN /\ locks' = IF mine THEN [rows EXCEPT ![k] = [holder |-> {h}, expires |-> clock + ttl]]
                           ELSE rows
       /\ Answered(k, h, IF mine THEN clock + ttl ELSE 0)
       /\ UNCHANGED <<clock, setBack>>

(* Expiry is not looked at: whoever still has the row extends it.          *)
Renew(k, h) ==
  \E ttl \in Ttl :
    LET mine == locks[k].holder = {h}
    IN /\ locks' = IF mine THEN [locks EXCEPT ![k].expires = clock + ttl] ELSE locks
       /\ Answered(k, h, IF mine THEN clock + ttl ELSE 0)
       /\ UNCHANGED <<clock, setBack>>

(* Mutant: the holder is not compared. *)
ReleaseAny(k, h) ==
  /\ locks' = [locks EXCEPT ![k] = NoRow]
  /\ Answered(k, h, 0)
  /\ UNCHANGED <<clock, setBack>>

Release(k, h) ==
  /\ locks' = IF locks[k].holder = {h} THEN [locks EXCEPT ![k] = NoRow] ELSE locks
  /\ Answered(k, h, 0)
  /\ UNCHANGED <<clock, setBack>>

(* The housekeeper's purge. *)
PurgeExpired ==
  /\ locks' = Unexpired(locks)
  /\ UNCHANGED <<lease, clock, setBack>>

Tick ==
  /\ clock' = clock + 1
  /\ UNCHANGED <<locks, lease, setBack>>

(* Utc::now is the wall clock, which the operator or NTP may set back.     *)
SetBack ==
  /\ clock > 1
  /\ clock' = clock - 1
  /\ setBack' = TRUE
  /\ UNCHANGED <<locks, lease>>

LocksNext ==
  \/ \E k \in Key, h \in Holder : TryAcquire(k, h) \/ Renew(k, h) \/ Release(k, h)
  \/ PurgeExpired \/ Tick \/ SetBack

LocksSpec == LocksInit /\ [][LocksNext]_lockVars

-----------------------------------------------------------------------------
Believes(k, h) == lease[k][h] >= clock

(* Whoever was told that it has a lock has it until the time it was told,  *)
(* whatever the others acquire, renew, release or purge meanwhile: its row *)
(* is there, with an expiry no earlier.  Only a clock set back breaks it.  *)
LeaseIsBacked ==
  ~setBack => \A k \in Key, h \in Holder :
    Believes(k, h) => locks[k].holder = {h} /\ locks[k].expires >= lease[k][h]

(* Two holders never believe at a time that they have one lock.            *)
LeaseIsExclusive ==
  ~setBack => \A k \in Key : \A g, h \in Holder : Believes(k, g) /\ Believes(k, h) => g = h
=============================================================================
