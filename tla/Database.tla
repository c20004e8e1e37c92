------------------------------ MODULE Database ------------------------------
(***************************************************************************)
(* The database of one project: opened and migrated on first use by        *)
(* whoever asks for it first, several callers at once if they ask together *)
(* (app_state.rs), in one transaction for all migrations                   *)
(* (migration_runner.rs), then written through one connection and read     *)
(* through a pool (db_handle.rs).                                          *)
(***************************************************************************)
EXTENDS Integers, FiniteSets

CONSTANTS Opener,         \* the tasks that ask for the database
          Migrations,     \* how many migrations this version has
          PoolSize        \* reader connections kept (16)

NoOpener == "none"

ASSUME DatabaseAssumption ==
  Migrations \in Nat /\ PoolSize \in Nat /\ NoOpener \notin Opener

VARIABLES project,        \* the global database has the project
          file,           \* the committed content of project.sqlite
          writeLock,      \* who holds SQLite's write lock
          opening,         \* per opener: where it is in get_project_db
          handles,        \* the handles opened: whose migrations went wrong
          mounted,        \* the handle of project_dbs
          readers,        \* connections of the mounted handle in use
          pool            \* and those idle in its pool

databaseVars == <<project, file, writeLock, opening, handles, mounted, readers, pool>>

Step == 1 .. Migrations

(* An older version may have left the first k migrations behind.           *)
FileOf(k) == [ledger |-> k > 0, recorded |-> 1 .. k, writes |-> 0,
              applied |-> [i \in Step |-> IF i <= k THEN 1 ELSE 0]]
NotAsking == [at |-> "idle", step |-> 0, view |-> FileOf(0)]

DatabaseInit ==
  /\ project = TRUE /\ file \in {FileOf(k) : k \in 0 .. Migrations}
  /\ writeLock = NoOpener /\ opening = [o \in Opener |-> NotAsking]
  /\ handles = [o \in Opener |-> "closed"] /\ mounted = NoOpener
  /\ readers = 0 /\ pool = 0

-----------------------------------------------------------------------------
(* Nothing is mounted yet and the project exists: nothing is reserved, so  *)
(* another caller finds the same.                                          *)
GetProjectDb(o) ==
  /\ opening[o].at = "idle" /\ mounted = NoOpener /\ project
  /\ opening' = [opening EXCEPT ![o].at = "open"]
  /\ UNCHANGED <<project, file, writeLock, handles, mounted, readers, pool>>

OpenFails(o) ==
  /\ opening[o].at = "open"
  /\ opening' = [opening EXCEPT ![o] = NotAsking]
  /\ UNCHANGED <<project, file, writeLock, handles, mounted, readers, pool>>

(* The transaction is deferred: it reads a snapshot, and takes the write   *)
(* lock with its first write, which is the ledger table in a new file.     *)
BeginMigrations(o) ==
  /\ opening[o].at = "open"
  /\ opening' = [opening EXCEPT ![o] = [at |-> "migrate", step |-> 1,
                                      view |-> [file EXCEPT !.ledger = TRUE]]]
  /\ IF file.ledger THEN UNCHANGED writeLock
     ELSE writeLock = NoOpener /\ writeLock' = o
  /\ handles' = [handles EXCEPT ![o] = "fresh"]
  /\ UNCHANGED <<project, file, mounted, readers, pool>>

Skip(o) ==
  /\ opening[o].at = "migrate" /\ opening[o].step \in opening[o].view.recorded
  /\ opening' = [opening EXCEPT ![o].step = @ + 1]
  /\ UNCHANGED <<project, file, writeLock, handles, mounted, readers, pool>>

(* The SQL of a migration and its row in the ledger.  The write lock is    *)
(* refused to a snapshot which is no longer the newest.                    *)
Migrated(content, i) ==
  [content EXCEPT !.applied[i] = @ + 1, !.recorded = @ \cup {i}]
MayWrite(o) == writeLock = o \/ (writeLock = NoOpener /\ opening[o].view = file)

(* Mutant: the SQL runs on the connection, outside of the transaction.     *)
ApplyAtOnce(o) ==
  LET i == opening[o].step IN
  /\ opening[o].at = "migrate" /\ i \in Step \ opening[o].view.recorded
  /\ MayWrite(o) /\ writeLock' = o
  /\ opening' = [opening EXCEPT ![o] = [at |-> "migrate", step |-> i + 1,
                                      view |-> Migrated(@.view, i)]]
  /\ file' = [file EXCEPT !.applied[i] = @ + 1]
  /\ UNCHANGED <<project, handles, mounted, readers, pool>>

ApplyMigration(o) ==
  LET i == opening[o].step IN
  /\ opening[o].at = "migrate" /\ i \in Step \ opening[o].view.recorded
  /\ MayWrite(o) /\ writeLock' = o
  /\ opening' = [opening EXCEPT ![o] = [at |-> "migrate", step |-> i + 1,
                                      view |-> Migrated(@.view, i)]]
  /\ UNCHANGED <<project, file, handles, mounted, readers, pool>>

FreeLock(o) == writeLock' = IF writeLock = o THEN NoOpener ELSE writeLock

CommitMigrations(o) ==
  /\ opening[o].at = "migrate" /\ opening[o].step = Migrations + 1
  /\ file' = IF writeLock = o THEN opening[o].view ELSE file
  /\ FreeLock(o) /\ opening' = [opening EXCEPT ![o].at = "mount"]
  /\ UNCHANGED <<project, handles, mounted, readers, pool>>

(* An error takes all of them back, a lock that is held for too long is    *)
(* one; nobody looks at it.                                                *)
MigrationsFail(o) ==
  /\ opening[o].at \in {"open", "migrate"}
  /\ FreeLock(o) /\ opening' = [opening EXCEPT ![o].at = "mount"]
  /\ handles' = [handles EXCEPT ![o] = "unmigrated"]
  /\ UNCHANGED <<project, file, mounted, readers, pool>>

(* The handle is kept for all later calls, in the place of one which       *)
(* another caller has mounted meanwhile.                                   *)
Mount(o) ==
  /\ opening[o].at = "mount" /\ opening' = [opening EXCEPT ![o] = NotAsking]
  /\ mounted' = o /\ readers' = 0 /\ pool' = 0
  /\ UNCHANGED <<project, file, writeLock, handles>>

(* A write transaction takes the lock at its begin.                        *)
WithWriteTx ==
  /\ mounted # NoOpener /\ writeLock = NoOpener
  /\ file' = [file EXCEPT !.writes = @ + 1]
  /\ UNCHANGED <<project, writeLock, opening, handles, mounted, readers, pool>>

BeginRead ==
  /\ mounted # NoOpener /\ readers' = readers + 1
  /\ pool' = IF pool > 0 THEN pool - 1 ELSE 0
  /\ UNCHANGED <<project, file, writeLock, opening, handles, mounted>>

EndRead ==
  /\ readers > 0 /\ readers' = readers - 1
  /\ pool' = IF pool < PoolSize THEN pool + 1 ELSE pool
  /\ UNCHANGED <<project, file, writeLock, opening, handles, mounted>>

DeleteProject ==
  /\ project' = FALSE /\ mounted' = NoOpener /\ readers' = 0 /\ pool' = 0
  /\ UNCHANGED <<file, writeLock, opening, handles>>

Killed ==
  /\ writeLock' = NoOpener /\ opening' = [o \in Opener |-> NotAsking]
  /\ handles' = [o \in Opener |-> "closed"] /\ mounted' = NoOpener
  /\ readers' = 0 /\ pool' = 0 /\ UNCHANGED <<project, file>>

DatabaseNext ==
  \/ \E o \in Opener : \/ GetProjectDb(o) \/ OpenFails(o) \/ BeginMigrations(o)
                       \/ Skip(o) \/ ApplyMigration(o) \/ CommitMigrations(o)
                       \/ MigrationsFail(o) \/ Mount(o)
  \/ WithWriteTx \/ BeginRead \/ EndRead \/ DeleteProject \/ Killed

DatabaseSpec == DatabaseInit /\ [][DatabaseNext]_databaseVars

-----------------------------------------------------------------------------
FileContent == [ledger : BOOLEAN, recorded : SUBSET Step, writes : Nat, applied : [Step -> Nat]]

DatabaseTypeOK ==
  /\ project \in BOOLEAN /\ file \in FileContent
  /\ writeLock \in Opener \cup {NoOpener} /\ mounted \in Opener \cup {NoOpener}
  /\ opening \in [Opener -> [at : {"idle", "open", "migrate", "mount"},
                            step : 0 .. Migrations + 1, view : FileContent]]
  /\ handles \in [Opener -> {"closed", "fresh", "unmigrated"}]
  /\ readers \in Nat /\ pool \in 0 .. PoolSize

(* The SQL of a migration has run in the file once if the ledger has it,   *)
(* and not at all if it has not, whoever else was migrating and wherever   *)
(* the program was killed: half of them cannot be run again (ALTER TABLE). *)
RanOnce == \A i \in Step : file.applied[i] = IF i \in file.recorded THEN 1 ELSE 0

(* A handle whose migrations gave no error is kept for all to use only     *)
(* when the file has them all.                                             *)
MountedIsMigrated ==
  mounted # NoOpener /\ handles[mounted] = "fresh" => file.recorded = Step
=============================================================================
