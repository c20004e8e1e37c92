------------------------- MODULE KnowledgeProofs --------------------------
(*************************************************************************)
(* Proofs about what the program stores and finds again: the project's   *)
(* database (Database), the memory store (Memory), the distillation of   *)
(* conversations (Distillation), the index of documents and the chunks   *)
(* it is made of (Documents), and the history that a run puts into its   *)
(* prompts (Context). Each is proved for every value of its constants    *)
(* and by itself.                                                        *)
(*************************************************************************)
EXTENDS Database, Memory, Distillation, Documents, Context, DataLemmas

---------------------------------------------------------------------------
(*************************************************************************)
(* Proofs about Database, for any number of callers that open the project  *)
(* at the same time and any number of migrations.  A caller that writes    *)
(* has the write lock and a view that was the newest when it took it; one  *)
(* that does not write commits nothing, and what it has seen is still in   *)
(* the file.                                                               *)
(*************************************************************************)

(* The SQL of the migrations of some content has run as its ledger says.   *)
Once(c) == \A i \in Step : c.applied[i] = IF i \in c.recorded THEN 1 ELSE 0

Opening == [at : {"idle", "open", "migrate", "mount"},
            step : 0 .. Migrations + 1, view : FileContent]

(* What a migrating caller sees: all of its steps so far, and no less than *)
(* the file if it writes, no more than the file if it does not.            *)
ViewFits(o) ==
  opening[o].at = "migrate" =>
    /\ Once(opening[o].view) /\ opening[o].step \in 1 .. Migrations + 1
    /\ 1 .. opening[o].step - 1 \subseteq opening[o].view.recorded
    /\ writeLock = o => file.recorded \subseteq opening[o].view.recorded
    /\ writeLock # o => opening[o].view.recorded \subseteq file.recorded

WriterMigrates(o) == writeLock = o => opening[o].at = "migrate"

MountFits(o) ==
  /\ opening[o].at = "mount" /\ handles[o] = "fresh" => file.recorded = Step
  /\ mounted = o => opening[o].at = "idle"

DatabaseInv ==
  /\ DatabaseTypeOK /\ RanOnce /\ MountedIsMigrated
  /\ \A o \in Opener : ViewFits(o) /\ WriterMigrates(o) /\ MountFits(o)

-----------------------------------------------------------------------------
LEMMA FileOfType ==
  ASSUME NEW k \in 0 .. Migrations
  PROVE  /\ FileOf(k) \in FileContent /\ Once(FileOf(k))
<1>1. 1 .. k \subseteq Step
  BY DatabaseAssumption DEF Step
<1>2. [i \in Step |-> IF i <= k THEN 1 ELSE 0] \in [Step -> Nat]
  OBVIOUS
<1>3. FileOf(k) \in FileContent
  BY <1>1, <1>2 DEF FileOf, FileContent
<1>4. Once(FileOf(k))
  BY DatabaseAssumption DEF FileOf, Once, Step
<1> QED BY <1>3, <1>4

LEMMA NotAskingType == NotAsking \in Opening /\ NotAsking.at = "idle"
<1>1. FileOf(0) \in FileContent
  BY FileOfType, DatabaseAssumption
<1> QED BY <1>1, DatabaseAssumption DEF NotAsking, Opening

LEMMA DatabaseInitInv == DatabaseInit => DatabaseInv
<1> SUFFICES ASSUME DatabaseInit PROVE DatabaseInv
  OBVIOUS
<1>1. PICK k \in 0 .. Migrations : file = FileOf(k)
  BY DEF DatabaseInit
<1>2. DatabaseTypeOK
  BY <1>1, FileOfType, NotAskingType, DatabaseAssumption DEF DatabaseInit, DatabaseTypeOK, Opening
<1>3. RanOnce
  BY <1>1, FileOfType DEF RanOnce, Once
<1>4. \A o \in Opener : opening[o].at = "idle" /\ writeLock # o /\ mounted # o
  BY NotAskingType, DatabaseAssumption DEF DatabaseInit
<1>5. \A o \in Opener : ViewFits(o) /\ WriterMigrates(o) /\ MountFits(o)
  BY <1>4 DEF ViewFits, WriterMigrates, MountFits
<1>6. MountedIsMigrated
  BY DEF DatabaseInit, MountedIsMigrated
<1> QED BY <1>2, <1>3, <1>5, <1>6 DEF DatabaseInv

(* What a step of caller o leaves of the invariant to the others: the file *)
(* has lost no migration, and gained none while another is writing.        *)
LEMMA OthersKeepTheirView ==
  ASSUME DatabaseInv, NEW p \in Opener, opening'[p] = opening[p], handles'[p] = handles[p],
         file.recorded \subseteq file'.recorded, file'.recorded \subseteq Step,
         writeLock' = p <=> writeLock = p,
         writeLock = p => file'.recorded = file.recorded,
         mounted' = p => mounted = p
  PROVE  (ViewFits(p) /\ WriterMigrates(p) /\ MountFits(p))'
<1>1. ViewFits(p) /\ WriterMigrates(p) /\ MountFits(p)
  BY DEF DatabaseInv
<1>2. ViewFits(p)'
  BY <1>1 DEF ViewFits, Once
<1>3. WriterMigrates(p)'
  BY <1>1 DEF WriterMigrates
<1>4. MountFits(p)'
  BY <1>1 DEF MountFits
<1> QED BY <1>2, <1>3, <1>4

(* Records keep the fields that EXCEPT does not name.                      *)
LEMMA OpeningAt ==
  ASSUME NEW r \in Opening, NEW a \in {"idle", "open", "migrate", "mount"}
  PROVE  /\ [r EXCEPT !.at = a] \in Opening /\ [r EXCEPT !.at = a].at = a
BY DEF Opening

LEMMA OpeningStep ==
  ASSUME NEW r \in Opening, NEW s \in 0 .. Migrations + 1
  PROVE  /\ [r EXCEPT !.step = s] \in Opening /\ [r EXCEPT !.step = s].at = r.at
         /\ [r EXCEPT !.step = s].step = s /\ [r EXCEPT !.step = s].view = r.view
BY DEF Opening

(* One migration more has run, once.                                       *)
LEMMA MigratedOnce ==
  ASSUME NEW c \in FileContent, Once(c), NEW i \in Step \ c.recorded
  PROVE  /\ Migrated(c, i) \in FileContent /\ Once(Migrated(c, i))
         /\ Migrated(c, i).recorded = c.recorded \cup {i}
<1> DEFINE new == [c EXCEPT !.applied[i] = c.applied[i] + 1, !.recorded = c.recorded \cup {i}]
<1>1. Migrated(c, i) = new
  BY DEF Migrated
<1>2. c.applied \in [Step -> Nat] /\ c.recorded \subseteq Step
  BY DEF FileContent
<1>3. new.recorded = c.recorded \cup {i}
  BY DEF FileContent
<1>4. new.applied = [c.applied EXCEPT ![i] = c.applied[i] + 1]
  BY DEF FileContent
<1>5. new.applied \in [Step -> Nat]
  BY <1>2, <1>4
<1>6. new \in FileContent
  BY <1>2, <1>5 DEF FileContent
<1>7. Once(new)
  BY <1>2, <1>3, <1>4 DEF Once
<1> QED BY <1>1, <1>3, <1>6, <1>7

-----------------------------------------------------------------------------
(* The steps of one caller.                                                *)

LEMMA OneOpening ==
  ASSUME DatabaseInv, NEW o \in Opener, NEW new \in Opening,
         opening' = [opening EXCEPT ![o] = new]
  PROVE  /\ opening' \in [Opener -> Opening] /\ opening'[o] = new
         /\ \A p \in Opener \ {o} : opening'[p] = opening[p]
BY DEF DatabaseInv, DatabaseTypeOK, Opening

LEMMA GetProjectDbKeepsInv ==
  ASSUME DatabaseInv, NEW o \in Opener, GetProjectDb(o)
  PROVE  DatabaseInv'
<1> DEFINE new == [opening[o] EXCEPT !.at = "open"]
<1>1. opening[o] \in Opening
  BY DEF DatabaseInv, DatabaseTypeOK, Opening
<1>2. new \in Opening /\ new.at = "open"
  BY <1>1, OpeningAt
<1>3. opening' = [opening EXCEPT ![o] = new] /\ mounted = NoOpener
      /\ opening[o].at = "idle"
      /\ UNCHANGED <<project, file, writeLock, handles, mounted, readers, pool>>
  BY DEF GetProjectDb
<1> HIDE DEF new
<1>4. opening' \in [Opener -> Opening] /\ opening'[o] = new
      /\ \A p \in Opener \ {o} : opening'[p] = opening[p]
  BY <1>2, <1>3, OneOpening
<1>5. \A p \in Opener \ {o} : (ViewFits(p) /\ WriterMigrates(p) /\ MountFits(p))'
  BY <1>3, <1>4, OthersKeepTheirView DEF DatabaseInv, DatabaseTypeOK, FileContent
<1>6. (ViewFits(o) /\ WriterMigrates(o) /\ MountFits(o))'
  BY <1>2, <1>3, <1>4, DatabaseAssumption
     DEF DatabaseInv, ViewFits, WriterMigrates, MountFits
<1> QED
  BY <1>3, <1>4, <1>5, <1>6
     DEF DatabaseInv, DatabaseTypeOK, RanOnce, MountedIsMigrated, Opening

LEMMA OpenFailsKeepsInv ==
  ASSUME DatabaseInv, NEW o \in Opener, OpenFails(o)
  PROVE  DatabaseInv'
<1>1. opening' = [opening EXCEPT ![o] = NotAsking] /\ opening[o].at = "open"
      /\ UNCHANGED <<project, file, writeLock, handles, mounted, readers, pool>>
  BY DEF OpenFails
<1>2. opening' \in [Opener -> Opening] /\ opening'[o] = NotAsking
      /\ \A p \in Opener \ {o} : opening'[p] = opening[p]
  BY <1>1, NotAskingType, OneOpening
<1>3. \A p \in Opener \ {o} : (ViewFits(p) /\ WriterMigrates(p) /\ MountFits(p))'
  BY <1>1, <1>2, OthersKeepTheirView DEF DatabaseInv, DatabaseTypeOK, FileContent
<1>4. (ViewFits(o) /\ WriterMigrates(o) /\ MountFits(o))'
  BY <1>1, <1>2, NotAskingType DEF DatabaseInv, ViewFits, WriterMigrates, MountFits
<1> QED
  BY <1>1, <1>2, <1>3, <1>4
     DEF DatabaseInv, DatabaseTypeOK, RanOnce, MountedIsMigrated, Opening

LEMMA BeginMigrationsKeepsInv ==
  ASSUME DatabaseInv, NEW o \in Opener, BeginMigrations(o)
  PROVE  DatabaseInv'
<1> DEFINE view == [file EXCEPT !.ledger = TRUE]
           new == [at |-> "migrate", step |-> 1, view |-> view]
<1>1. /\ opening' = [opening EXCEPT ![o] = new] /\ opening[o].at = "open"
      /\ handles' = [handles EXCEPT ![o] = "fresh"]
      /\ UNCHANGED <<project, file, mounted, readers, pool>>
      /\ writeLock' = writeLock \/ (writeLock = NoOpener /\ writeLock' = o)
  BY DEF BeginMigrations
<1>2. view \in FileContent /\ view.recorded = file.recorded /\ view.applied = file.applied
  BY DEF DatabaseInv, DatabaseTypeOK, FileContent
<1>3. Once(view)
  BY <1>2 DEF DatabaseInv, RanOnce, Once
<1>4. new \in Opening /\ new.at = "migrate" /\ new.step = 1 /\ new.view = view
  BY <1>2, DatabaseAssumption DEF Opening
<1> HIDE DEF view, new
<1>5. opening' \in [Opener -> Opening] /\ opening'[o] = new
      /\ \A p \in Opener \ {o} : opening'[p] = opening[p]
  BY <1>1, <1>4, OneOpening
<1>6. \A p \in Opener \ {o} : (ViewFits(p) /\ WriterMigrates(p) /\ MountFits(p))'
  BY <1>1, <1>5, DatabaseAssumption, OthersKeepTheirView
     DEF DatabaseInv, DatabaseTypeOK, FileContent
<1>7. mounted # o
  BY <1>1 DEF DatabaseInv, MountFits
<1>8. (ViewFits(o) /\ WriterMigrates(o) /\ MountFits(o))'
  BY <1>1, <1>2, <1>3, <1>4, <1>5, <1>7, DatabaseAssumption
     DEF ViewFits, WriterMigrates, MountFits, Once
<1>9. DatabaseTypeOK'
  BY <1>1, <1>5 DEF DatabaseInv, DatabaseTypeOK, Opening
<1>10. MountedIsMigrated'
  BY <1>1, <1>7 DEF DatabaseInv, DatabaseTypeOK, MountedIsMigrated
<1> QED BY <1>1, <1>6, <1>8, <1>9, <1>10 DEF DatabaseInv, RanOnce

LEMMA SkipKeepsInv ==
  ASSUME DatabaseInv, NEW o \in Opener, Skip(o)
  PROVE  DatabaseInv'
<1> DEFINE s == opening[o].step
           new == [opening[o] EXCEPT !.step = s + 1]
<1>1. /\ opening[o].at = "migrate" /\ s \in opening[o].view.recorded
      /\ opening' = [opening EXCEPT ![o] = new]
      /\ UNCHANGED <<project, file, writeLock, handles, mounted, readers, pool>>
  BY DEF Skip
<1>2. opening[o] \in Opening /\ opening[o].view.recorded \subseteq Step
  BY DEF DatabaseInv, DatabaseTypeOK, Opening, FileContent
<1>3. s \in Step /\ s + 1 \in 1 .. Migrations + 1 /\ 1 .. s = (1 .. s - 1) \cup {s}
  BY <1>1, <1>2, DatabaseAssumption DEF Step
<1>4. new \in Opening /\ new.at = "migrate" /\ new.step = s + 1 /\ new.view = opening[o].view
  BY <1>1, <1>2, <1>3, OpeningStep
<1> HIDE DEF new
<1>5. opening' \in [Opener -> Opening] /\ opening'[o] = new
      /\ \A p \in Opener \ {o} : opening'[p] = opening[p]
  BY <1>1, <1>4, OneOpening
<1>6. \A p \in Opener \ {o} : (ViewFits(p) /\ WriterMigrates(p) /\ MountFits(p))'
  BY <1>1, <1>5, OthersKeepTheirView DEF DatabaseInv, DatabaseTypeOK, FileContent
<1>7. 1 .. s - 1 \subseteq opening[o].view.recorded
  BY <1>1 DEF DatabaseInv, ViewFits
<1>8. 1 .. (s + 1) - 1 \subseteq opening[o].view.recorded
  BY <1>1, <1>3, <1>7 DEF Step
<1> HIDE DEF s
<1>9. ViewFits(o)'
  BY <1>1, <1>3, <1>4, <1>5, <1>8 DEF DatabaseInv, ViewFits, Once
<1>10. (WriterMigrates(o) /\ MountFits(o))'
  BY <1>1, <1>4, <1>5 DEF DatabaseInv, WriterMigrates, MountFits
<1> QED
  BY <1>1, <1>5, <1>6, <1>9, <1>10
     DEF DatabaseInv, DatabaseTypeOK, RanOnce, MountedIsMigrated, Opening

LEMMA ApplyMigrationKeepsInv ==
  ASSUME DatabaseInv, NEW o \in Opener, ApplyMigration(o)
  PROVE  DatabaseInv'
<1> DEFINE i == opening[o].step
           view == opening[o].view
           next == Migrated(view, i)
           new == [at |-> "migrate", step |-> i + 1, view |-> next]
<1>1. /\ opening[o].at = "migrate" /\ i \in Step \ view.recorded /\ writeLock' = o
      /\ opening' = [opening EXCEPT ![o] = new]
      /\ writeLock = o \/ (writeLock = NoOpener /\ view = file)
      /\ UNCHANGED <<project, file, handles, mounted, readers, pool>>
  BY DEF ApplyMigration, MayWrite
<1>2. opening[o] \in Opening /\ view \in FileContent
  BY DEF DatabaseInv, DatabaseTypeOK, Opening
<1>3. Once(view) /\ 1 .. i - 1 \subseteq view.recorded
      /\ (writeLock = o => file.recorded \subseteq view.recorded)
  BY <1>1 DEF DatabaseInv, ViewFits
<1>4. i + 1 \in 1 .. Migrations + 1 /\ 1 .. (i + 1) - 1 = (1 .. i - 1) \cup {i}
  BY <1>1, DatabaseAssumption DEF Step
<1>5. next \in FileContent /\ Once(next) /\ next.recorded = view.recorded \cup {i}
  BY <1>1, <1>2, <1>3, MigratedOnce
<1> HIDE DEF next
<1>6. new \in Opening /\ new.at = "migrate" /\ new.step = i + 1 /\ new.view = next
  BY <1>4, <1>5 DEF Opening
<1> HIDE DEF new
<1>7. opening' \in [Opener -> Opening] /\ opening'[o] = new
      /\ \A p \in Opener \ {o} : opening'[p] = opening[p]
  BY <1>1, <1>6, OneOpening
<1>8. \A p \in Opener \ {o} : (ViewFits(p) /\ WriterMigrates(p) /\ MountFits(p))'
  BY <1>1, <1>7, DatabaseAssumption, OthersKeepTheirView
     DEF DatabaseInv, DatabaseTypeOK, FileContent
<1>9. file.recorded \subseteq next.recorded /\ 1 .. (i + 1) - 1 \subseteq next.recorded
  BY <1>1, <1>3, <1>4, <1>5
<1> HIDE DEF i, view
<1>10. ViewFits(o)'
  BY <1>1, <1>4, <1>5, <1>6, <1>7, <1>9 DEF ViewFits, Once
<1>11. (WriterMigrates(o) /\ MountFits(o))'
  BY <1>1, <1>6, <1>7 DEF DatabaseInv, WriterMigrates, MountFits
<1>12. DatabaseTypeOK'
  BY <1>1, <1>7 DEF DatabaseInv, DatabaseTypeOK, Opening
<1> QED
  BY <1>1, <1>8, <1>10, <1>11, <1>12 DEF DatabaseInv, RanOnce, MountedIsMigrated

LEMMA CommitMigrationsKeepsInv ==
  ASSUME DatabaseInv, NEW o \in Opener, CommitMigrations(o)
  PROVE  DatabaseInv'
<1> DEFINE new == [opening[o] EXCEPT !.at = "mount"]
<1>1. /\ opening[o].at = "migrate" /\ opening[o].step = Migrations + 1
      /\ opening' = [opening EXCEPT ![o] = new]
      /\ file' = (IF writeLock = o THEN opening[o].view ELSE file)
      /\ writeLock' = (IF writeLock = o THEN NoOpener ELSE writeLock)
      /\ UNCHANGED <<project, handles, mounted, readers, pool>>
  BY DEF CommitMigrations, FreeLock
<1>2. opening[o] \in Opening /\ opening[o].view \in FileContent /\ file \in FileContent
  BY DEF DatabaseInv, DatabaseTypeOK, Opening
<1>3. new \in Opening /\ new.at = "mount"
  BY <1>2, OpeningAt
<1> HIDE DEF new
<1>4. opening' \in [Opener -> Opening] /\ opening'[o] = new
      /\ \A p \in Opener \ {o} : opening'[p] = opening[p]
  BY <1>1, <1>3, OneOpening
<1>5. opening[o].view.recorded = Step
  <2>1. 1 .. (Migrations + 1) - 1 \subseteq opening[o].view.recorded
    BY <1>1 DEF DatabaseInv, ViewFits
  <2>2. 1 .. (Migrations + 1) - 1 = Step
    BY DatabaseAssumption DEF Step
  <2> QED BY <1>2, <2>1, <2>2 DEF FileContent
<1>6. file'.recorded = Step /\ file.recorded \subseteq Step /\ Once(file')
      /\ file' \in FileContent
  <2>1. CASE writeLock = o
    BY <1>1, <1>2, <1>5, <2>1 DEF DatabaseInv, ViewFits, FileContent
  <2>2. CASE writeLock # o
    <3>1. file' = file /\ file.recorded \subseteq Step
      BY <1>1, <1>2, <2>2 DEF FileContent
    <3>2. Step \subseteq file.recorded
      BY <1>1, <1>5, <2>2 DEF DatabaseInv, ViewFits
    <3>3. Once(file)
      BY DEF DatabaseInv, RanOnce, Once
    <3> QED BY <1>2, <3>1, <3>2, <3>3 DEF Once
  <2> QED BY <2>1, <2>2
<1>7. \A p \in Opener \ {o} : (ViewFits(p) /\ WriterMigrates(p) /\ MountFits(p))'
  BY <1>1, <1>4, <1>6, DatabaseAssumption, OthersKeepTheirView
<1>8. (ViewFits(o) /\ WriterMigrates(o) /\ MountFits(o))'
  BY <1>1, <1>3, <1>4, <1>6, DatabaseAssumption
     DEF DatabaseInv, ViewFits, WriterMigrates, MountFits
<1>9. DatabaseTypeOK'
  BY <1>1, <1>4, <1>6 DEF DatabaseInv, DatabaseTypeOK, Opening
<1>10. RanOnce' /\ MountedIsMigrated'
  BY <1>6 DEF RanOnce, Once, MountedIsMigrated
<1> QED BY <1>7, <1>8, <1>9, <1>10 DEF DatabaseInv

LEMMA MigrationsFailKeepsInv ==
  ASSUME DatabaseInv, NEW o \in Opener, MigrationsFail(o)
  PROVE  DatabaseInv'
<1> DEFINE new == [opening[o] EXCEPT !.at = "mount"]
<1>1. /\ opening[o].at \in {"open", "migrate"}
      /\ opening' = [opening EXCEPT ![o] = new]
      /\ handles' = [handles EXCEPT ![o] = "unmigrated"]
      /\ writeLock' = (IF writeLock = o THEN NoOpener ELSE writeLock)
      /\ UNCHANGED <<project, file, mounted, readers, pool>>
  BY DEF MigrationsFail, FreeLock
<1>2. new \in Opening /\ new.at = "mount"
  BY OpeningAt DEF DatabaseInv, DatabaseTypeOK, Opening
<1> HIDE DEF new
<1>3. opening' \in [Opener -> Opening] /\ opening'[o] = new
      /\ \A p \in Opener \ {o} : opening'[p] = opening[p]
  BY <1>1, <1>2, OneOpening
<1>4. handles'[o] = "unmigrated" /\ \A p \in Opener \ {o} : handles'[p] = handles[p]
  BY <1>1 DEF DatabaseInv, DatabaseTypeOK
<1>5. \A p \in Opener \ {o} : (ViewFits(p) /\ WriterMigrates(p) /\ MountFits(p))'
  BY <1>1, <1>3, <1>4, DatabaseAssumption, OthersKeepTheirView
     DEF DatabaseInv, DatabaseTypeOK, FileContent
<1>6. mounted # o
  BY <1>1 DEF DatabaseInv, MountFits
<1>7. (ViewFits(o) /\ WriterMigrates(o) /\ MountFits(o))'
  BY <1>1, <1>2, <1>3, <1>4, <1>6, DatabaseAssumption DEF ViewFits, WriterMigrates, MountFits
<1>8. DatabaseTypeOK'
  BY <1>1, <1>3 DEF DatabaseInv, DatabaseTypeOK, Opening
<1>9. MountedIsMigrated'
  BY <1>1, <1>4, <1>6 DEF DatabaseInv, DatabaseTypeOK, MountedIsMigrated
<1> QED BY <1>1, <1>5, <1>7, <1>8, <1>9 DEF DatabaseInv, RanOnce

LEMMA MountKeepsInv ==
  ASSUME DatabaseInv, NEW o \in Opener, Mount(o)
  PROVE  DatabaseInv'
<1>1. /\ opening[o].at = "mount" /\ opening' = [opening EXCEPT ![o] = NotAsking]
      /\ mounted' = o /\ readers' = 0 /\ pool' = 0
      /\ UNCHANGED <<project, file, writeLock, handles>>
  BY DEF Mount
<1>2. opening' \in [Opener -> Opening] /\ opening'[o] = NotAsking
      /\ \A p \in Opener \ {o} : opening'[p] = opening[p]
  BY <1>1, NotAskingType, OneOpening
<1>3. \A p \in Opener \ {o} : (ViewFits(p) /\ WriterMigrates(p) /\ MountFits(p))'
  BY <1>1, <1>2, OthersKeepTheirView DEF DatabaseInv, DatabaseTypeOK, FileContent
<1>4. (ViewFits(o) /\ WriterMigrates(o) /\ MountFits(o))'
  BY <1>1, <1>2, NotAskingType DEF DatabaseInv, ViewFits, WriterMigrates, MountFits
<1>5. MountedIsMigrated'
  BY <1>1 DEF DatabaseInv, MountFits, MountedIsMigrated
<1>6. DatabaseTypeOK'
  BY <1>1, <1>2, DatabaseAssumption DEF DatabaseInv, DatabaseTypeOK, Opening
<1> QED BY <1>1, <1>3, <1>4, <1>5, <1>6 DEF DatabaseInv, RanOnce

-----------------------------------------------------------------------------
(* The rest: writers and readers of the mounted handle, the deletion of    *)
(* the project, and the kill of the program.                               *)

LEMMA UseKeepsInv ==
  ASSUME DatabaseInv, WithWriteTx \/ BeginRead \/ EndRead \/ DeleteProject
                        \/ UNCHANGED databaseVars
  PROVE  DatabaseInv'
<1>1. /\ UNCHANGED <<opening, handles, writeLock>>
      /\ project' \in BOOLEAN /\ mounted' \in {mounted, NoOpener}
      /\ readers' \in Nat /\ pool' \in 0 .. PoolSize
  <2>1. CASE WithWriteTx \/ UNCHANGED databaseVars
    BY <2>1 DEF DatabaseInv, DatabaseTypeOK, WithWriteTx, databaseVars
  <2>2. CASE BeginRead \/ EndRead
    BY <2>2, DatabaseAssumption DEF DatabaseInv, DatabaseTypeOK, BeginRead, EndRead
  <2>3. CASE DeleteProject
    <3>1. project' \in BOOLEAN
      BY ONLY <2>3, Zenon DEF DeleteProject
    <3> QED BY <2>3, <3>1, DatabaseAssumption DEF DeleteProject
  <2> QED BY <2>1, <2>2, <2>3
<1>2. file' = file \/ file' = [file EXCEPT !.writes = @ + 1]
  BY DEF WithWriteTx, BeginRead, EndRead, DeleteProject, databaseVars
<1>3. file' \in FileContent /\ file'.recorded = file.recorded /\ file'.applied = file.applied
  BY <1>2 DEF DatabaseInv, DatabaseTypeOK, FileContent
<1>4. \A p \in Opener : (ViewFits(p) /\ WriterMigrates(p) /\ MountFits(p))'
  BY <1>1, <1>3, DatabaseAssumption, OthersKeepTheirView DEF FileContent
<1>5. DatabaseTypeOK'
  BY <1>1, <1>3 DEF DatabaseInv, DatabaseTypeOK
<1> QED BY <1>1, <1>3, <1>4, <1>5 DEF DatabaseInv, RanOnce, MountedIsMigrated

LEMMA KilledKeepsInv == DatabaseInv /\ Killed => DatabaseInv'
<1> SUFFICES ASSUME DatabaseInv, Killed PROVE DatabaseInv'
  OBVIOUS
<1>1. \A o \in Opener : opening'[o].at = "idle" /\ writeLock' # o /\ mounted' # o
  BY NotAskingType, DatabaseAssumption DEF Killed
<1>2. \A o \in Opener : (ViewFits(o) /\ WriterMigrates(o) /\ MountFits(o))'
  BY <1>1 DEF ViewFits, WriterMigrates, MountFits
<1>3. DatabaseTypeOK'
  BY NotAskingType, DatabaseAssumption DEF Killed, DatabaseInv, DatabaseTypeOK, Opening
<1> QED BY <1>2, <1>3 DEF Killed, DatabaseInv, RanOnce, MountedIsMigrated

(* The views of all callers, the write lock and the file fit together.     *)
THEOREM OpeningsStayInv == DatabaseSpec => []DatabaseInv
<1>1. DatabaseInv /\ [DatabaseNext]_databaseVars => DatabaseInv'
  BY GetProjectDbKeepsInv, OpenFailsKeepsInv, BeginMigrationsKeepsInv, SkipKeepsInv,
     ApplyMigrationKeepsInv, CommitMigrationsKeepsInv, MigrationsFailKeepsInv, MountKeepsInv,
     UseKeepsInv, KilledKeepsInv DEF DatabaseNext
<1> QED BY <1>1, DatabaseInitInv, PTL DEF DatabaseSpec

(* No migration runs twice in the file, however many callers open the      *)
(* project at once and wherever the program is killed: the one transaction *)
(* of migration_runner.rs and SQLite's write lock are enough for it.       *)
THEOREM MigrationsRunOnce == DatabaseSpec => []RanOnce
<1>1. DatabaseInv => RanOnce
  BY DEF DatabaseInv
<1> QED BY <1>1, OpeningsStayInv, PTL

(* A handle that get_project_db mounts without an error of its migrations  *)
(* has the newest schema, also when another caller did the work.           *)
THEOREM MountedHasSchema == DatabaseSpec => []MountedIsMigrated
<1>1. DatabaseInv => MountedIsMigrated
  BY DEF DatabaseInv
<1> QED BY <1>1, OpeningsStayInv, PTL

---------------------------------------------------------------------------
(* Memory.  An errand writes what it has looked up before.  What keeps the *)
(* promise is that the id an errand carries is nobody's: no row has it, no *)
(* other errand will store under it or has found it (IdsAreFresh); and     *)
(* that the row a tool found, if it is still there, has the content it     *)
(* looked for (ErrandHolds).                                               *)
MemRow(n) ==
  [content: Content, tier: Tier, life: {"Candidate", "Persisted"},
   weight: 0..100, uses: Nat, depth: Nat, age: {"new", "settled", "stale"},
   end: {"open", "today", "past"}, heir: 0..(n - 1)]

Errands(n) ==
  [kind: {"insert", "distill", "replace", "supersede"}, target: 0..(n - 1),
   id: 1..(n - 1), row: MemRow(n)]

Looks(e) == e.kind \in {"insert", "distill"}

ErrandHolds(e) ==
  /\ e \in Errands(nextId)
  /\ e.kind # "distill" => Retrievable(e.row)
  /\ e.id \notin DOMAIN rows
  /\ Looks(e) /\ e.target \in DOMAIN rows => rows[e.target].content = e.row.content

ErrandsHold == \A a \in Author : errand[a] = Idle \/ ErrandHolds(errand[a])

IdsAreFresh ==
  \A a, b \in Author : errand[a] # Idle /\ errand[b] # Idle =>
    /\ a # b => errand[a].id # errand[b].id
    /\ errand[a].id # errand[b].target

MemoryTyped ==
  /\ nextId \in Nat \ {0} /\ DOMAIN rows \subseteq 1..(nextId - 1)
  /\ \A i \in DOMAIN rows : rows[i] \in MemRow(nextId)
  /\ promoter \in [pass: 0..3, list: SUBSET (1..(nextId - 1))]
  /\ promoter.pass = 0 => promoter.list = {}
  /\ DOMAIN errand = Author

MemoryInv == MemoryTyped /\ ErrandsHold /\ IdsAreFresh /\ KnowledgeKept

LEMMA TypedMemory == MemoryInv => MemoryTypeOK
BY DEF MemoryInv, MemoryTyped, MemoryTypeOK, MemRow

LEMMA MemoryInitInv == MemoryInit => MemoryInv
BY DEF MemoryInit, MemoryInv, MemoryTyped, ErrandsHold, IdsAreFresh, KnowledgeKept, Resting

(* Updates that leave a row as valid as it was, and those that end it.     *)
Touches(r, q) ==
  \/ \E bump \in {5, 10} : q = Reinforced(r, bump)
  \/ \E tier \in Tier : q = [r EXCEPT !.tier = tier]
  \/ q = [r EXCEPT !.uses = @ + 1]
  \/ \E age \in {"settled", "stale"} : q = [r EXCEPT !.age = age]

Ends(n, r, q) ==
  (\E heir \in 0..(n - 1) : q = Ended(r, heir)) \/ q = [r EXCEPT !.end = "past"]

LEMMA RowUpdates ==
  ASSUME NEW n \in Nat \ {0}, NEW r \in MemRow(n), NEW q, Touches(r, q) \/ Ends(n, r, q)
  PROVE  /\ q \in MemRow(n) /\ q.content = r.content
         /\ Touches(r, q) /\ Retrievable(r) => Retrievable(q)
<1>1. ASSUME NEW b \in {5, 10}, q = Reinforced(r, b)
      PROVE  q \in MemRow(n) /\ q.content = r.content /\ (Retrievable(r) => Retrievable(q))
  <2>1. PICK w : w = IF r.weight + b > 100 THEN 100 ELSE r.weight + b
    OBVIOUS
  <2>2. w \in 0..100 /\ r.uses + 1 \in Nat
    BY <2>1 DEF MemRow
  <2>3. q = [r EXCEPT !.uses = r.uses + 1, !.weight = w]
    BY <1>1, <2>1 DEF Reinforced
  <2> QED BY <2>2, <2>3 DEF MemRow, Retrievable
<1>2. ASSUME NEW t \in Tier, q = [r EXCEPT !.tier = t]
      PROVE  q \in MemRow(n) /\ q.content = r.content /\ (Retrievable(r) => Retrievable(q))
  BY <1>2 DEF MemRow, Retrievable
<1>3. ASSUME q = [r EXCEPT !.uses = @ + 1]
      PROVE  q \in MemRow(n) /\ q.content = r.content /\ (Retrievable(r) => Retrievable(q))
  BY <1>3 DEF MemRow, Retrievable
<1>4. ASSUME NEW g \in {"settled", "stale"}, q = [r EXCEPT !.age = g]
      PROVE  q \in MemRow(n) /\ q.content = r.content /\ (Retrievable(r) => Retrievable(q))
  BY <1>4 DEF MemRow, Retrievable
<1>5. ASSUME NEW h \in 0..(n - 1), q = Ended(r, h)
      PROVE  q \in MemRow(n) /\ q.content = r.content
  BY <1>5 DEF Ended, MemRow
<1>6. ASSUME q = [r EXCEPT !.end = "past"]
      PROVE  q \in MemRow(n) /\ q.content = r.content
  BY <1>6 DEF MemRow
<1>7. Touches(r, q) => q \in MemRow(n) /\ q.content = r.content /\ (Retrievable(r) => Retrievable(q))
  BY <1>1, <1>2, <1>3, <1>4, Zenon DEF Touches
<1>8. Ends(n, r, q) => q \in MemRow(n) /\ q.content = r.content
  BY <1>5, <1>6, Zenon DEF Ends
<1> QED BY <1>7, <1>8

(* No row is added and none changes its content, no errand begins: what is *)
(* left to show is that what was told is still there.                      *)
RowsEndure ==
  /\ nextId' = nextId /\ DOMAIN rows' \subseteq DOMAIN rows
  /\ \A i \in DOMAIN rows' : rows'[i] \in MemRow(nextId) /\ rows'[i].content = rows[i].content

ErrandsGoOn ==
  /\ DOMAIN errand' = Author
  /\ \A a \in Author :
       \/ errand'[a] = Idle \/ errand'[a] = errand[a]
       \/ errand[a].kind = "replace" /\ errand'[a] = [errand[a] EXCEPT !.kind = "supersede"]

PromoterTyped ==
  /\ promoter \in [pass: 0..3, list: SUBSET (1..(nextId - 1))]
  /\ promoter.pass = 0 => promoter.list = {}

LEMMA RowsEndureKeeps ==
  ASSUME MemoryInv, RowsEndure, ErrandsGoOn, PromoterTyped'
  PROVE  MemoryTyped' /\ ErrandsHold' /\ IdsAreFresh'
<1>1. MemoryTyped'
  BY DEF MemoryInv, MemoryTyped, RowsEndure, ErrandsGoOn, PromoterTyped
<1>2. ASSUME NEW a \in Author, errand'[a] # Idle
      PROVE  /\ errand[a] # Idle /\ ErrandHolds(errand[a])
             /\ errand'[a].id = errand[a].id /\ errand'[a].target = errand[a].target
             /\ errand'[a] \in Errands(nextId) /\ errand'[a].row = errand[a].row
             /\ errand'[a].kind = errand[a].kind \/ errand'[a].kind = "supersede"
             /\ errand[a].kind = "distill" => errand'[a].kind = "distill"
  <2>1. CASE errand'[a] = errand[a]
    BY <1>2, <2>1 DEF MemoryInv, ErrandsHold, ErrandHolds
  <2>2. CASE errand[a].kind = "replace" /\ errand'[a] = [errand[a] EXCEPT !.kind = "supersede"]
    <3>1. errand[a] # Idle
      BY <2>2 DEF Idle, Errand
    <3>2. ErrandHolds(errand[a]) /\ errand[a] \in Errands(nextId)
      BY <3>1 DEF MemoryInv, ErrandsHold, ErrandHolds
    <3>3. /\ errand'[a].id = errand[a].id /\ errand'[a].target = errand[a].target
          /\ errand'[a] \in Errands(nextId) /\ errand'[a].row = errand[a].row
          /\ errand'[a].kind = "supersede"
      BY <2>2, <3>2 DEF Errands
    <3> QED BY <2>2, <3>1, <3>2, <3>3
  <2> QED BY <1>2, <2>1, <2>2 DEF ErrandsGoOn
<1>3. ErrandsHold'
  <2> SUFFICES ASSUME NEW a \in Author, errand'[a] # Idle PROVE ErrandHolds(errand[a])'
    BY DEF ErrandsHold
  <2>1. errand'[a].id \notin DOMAIN rows'
    BY <1>2 DEF RowsEndure, ErrandHolds
  <2>2. Looks(errand'[a]) => Looks(errand[a])
    BY <1>2 DEF Looks
  <2>3. Looks(errand'[a]) /\ errand'[a].target \in DOMAIN rows' =>
          rows'[errand'[a].target].content = errand'[a].row.content
    BY <1>2, <2>2 DEF RowsEndure, ErrandHolds
  <2>4. errand'[a].kind # "distill" => Retrievable(errand'[a].row)
    BY <1>2 DEF ErrandHolds
  <2>5. errand'[a] \in Errands(nextId')
    BY <1>2 DEF RowsEndure
  <2> QED BY <2>1, <2>3, <2>4, <2>5 DEF ErrandHolds
<1>4. IdsAreFresh'
  BY <1>2 DEF MemoryInv, IdsAreFresh
<1> QED BY <1>1, <1>3, <1>4

(* What is left of told has its row still.                                 *)
LEMMA ToldRowsStay ==
  ASSUME MemoryInv, told' \subseteq told,
         \A i \in DOMAIN rows : Retrievable(rows[i]) /\ rows[i].content \in told' =>
           i \in DOMAIN rows' /\ Retrievable(rows'[i]) /\ rows'[i].content = rows[i].content
  PROVE  KnowledgeKept'
BY DEF MemoryInv, KnowledgeKept

LEMMA CommandKeepsMemory ==
  ASSUME MemoryInv, NEW i \in DOMAIN rows,
         Archive(i) \/ DeleteMemory(i) \/ GrowOld(i) \/ \E tier \in Tier : UpdateMemoryTier(i, tier)
  PROVE  MemoryInv'
<1>1. /\ UNCHANGED <<nextId, errand, promoter>>
      /\ told' \subseteq told
      /\ \A j \in DOMAIN rows' : j \in DOMAIN rows /\ (j # i => rows'[j] = rows[j])
      /\ \A j \in DOMAIN rows \ {i} : j \in DOMAIN rows'
  BY DEF Archive, DeleteMemory, DeleteMemories, GrowOld, UpdateMemoryTier
<1>2. rows[i] \in MemRow(nextId) /\ nextId \in Nat \ {0}
  BY DEF MemoryInv, MemoryTyped
<1>3. \/ i \notin DOMAIN rows' /\ rows[i].content \notin told'
      \/ /\ i \in DOMAIN rows' /\ rows'[i] \in MemRow(nextId) /\ rows'[i].content = rows[i].content
         /\ rows[i].content \in told' => (Retrievable(rows[i]) => Retrievable(rows'[i]))
  <2>1. CASE Archive(i)
    <3>1. rows'[i] = Ended(rows[i], 0) /\ i \in DOMAIN rows' /\ rows[i].content \notin told'
      BY <2>1 DEF Archive
    <3>2. Ends(nextId, rows[i], rows'[i])
      BY <1>2, <3>1 DEF Ends
    <3> QED BY <1>2, <3>1, <3>2, RowUpdates
  <2>2. CASE DeleteMemory(i)
    BY <2>2 DEF DeleteMemory, DeleteMemories
  <2>3. CASE GrowOld(i)
    <3>1. Touches(rows[i], rows'[i]) /\ i \in DOMAIN rows'
      BY <2>3 DEF GrowOld, Touches
    <3> QED BY <1>2, <3>1, RowUpdates
  <2>4. ASSUME NEW tier \in Tier, UpdateMemoryTier(i, tier)
        PROVE  /\ i \in DOMAIN rows' /\ rows'[i] \in MemRow(nextId) /\ rows'[i].content = rows[i].content
               /\ Retrievable(rows[i]) => Retrievable(rows'[i])
    <3>1. Touches(rows[i], rows'[i]) /\ i \in DOMAIN rows'
      BY <2>4 DEF UpdateMemoryTier, Touches
    <3> QED BY <1>2, <3>1, RowUpdates
  <2> QED BY <2>1, <2>2, <2>3, <2>4
<1>4. RowsEndure /\ ErrandsGoOn /\ PromoterTyped'
  BY <1>1, <1>3 DEF RowsEndure, ErrandsGoOn, PromoterTyped, MemoryInv, MemoryTyped
<1>5. KnowledgeKept'
  <2>1. \A j \in DOMAIN rows : Retrievable(rows[j]) /\ rows[j].content \in told' =>
           j \in DOMAIN rows' /\ Retrievable(rows'[j]) /\ rows'[j].content = rows[j].content
    BY <1>1, <1>3
  <2> QED BY <1>1, <2>1, ToldRowsStay
<1> QED BY <1>4, <1>5, RowsEndureKeeps DEF MemoryInv

LEMMA SearchKeepsMemory ==
  ASSUME MemoryInv, NEW found \in SUBSET DOMAIN rows, Search(found) \/ DayEnds
  PROVE  MemoryInv'
<1>1. UNCHANGED <<nextId, errand, promoter, told>> /\ DOMAIN rows' = DOMAIN rows
  BY DEF Search, CountUses, DayEnds
<1>2. ASSUME NEW i \in DOMAIN rows
      PROVE  /\ rows'[i] \in MemRow(nextId) /\ rows'[i].content = rows[i].content
             /\ Retrievable(rows[i]) => Retrievable(rows'[i])
  <2>1. rows[i] \in MemRow(nextId) /\ nextId \in Nat \ {0}
    BY DEF MemoryInv, MemoryTyped
  <2>2. \/ rows'[i] = rows[i] \/ Touches(rows[i], rows'[i])
        \/ Ends(nextId, rows[i], rows'[i]) /\ rows[i].end = "today"
    BY DEF Search, CountUses, DayEnds, Touches, Ends
  <2>3. rows[i].end = "today" => ~Retrievable(rows[i])
    BY DEF Retrievable
  <2> QED BY <2>1, <2>2, <2>3, RowUpdates
<1>3. RowsEndure /\ ErrandsGoOn /\ PromoterTyped'
  BY <1>1, <1>2 DEF RowsEndure, ErrandsGoOn, PromoterTyped, MemoryInv, MemoryTyped
<1> QED BY <1>1, <1>2, <1>3, RowsEndureKeeps, ToldRowsStay DEF MemoryInv

LEMMA PromoterKeepsMemory ==
  ASSUME MemoryInv, ListDue \/ (\E i \in promoter.list : PromoteMemory(i)) \/ AbortCycle \/ Prune
  PROVE  MemoryInv'
<1>1. UNCHANGED <<nextId, errand>> /\ told' \subseteq told
  BY DEF ListDue, PromoteMemory, AbortCycle, Prune, DeleteMemories
<1>2. PromoterTyped'
  <2>1. CASE ListDue
    <3>1. Due(promoter.pass + 1) \subseteq DOMAIN rows
      BY DEF Due
    <3>2. promoter' = [pass |-> promoter.pass + 1, list |-> Due(promoter.pass + 1)]
          /\ promoter.pass < 3 /\ nextId' = nextId
      BY <2>1 DEF ListDue
    <3> QED BY <3>1, <3>2 DEF PromoterTyped, MemoryInv, MemoryTyped
  <2>2. CASE AbortCycle \/ Prune
    BY <2>2 DEF AbortCycle, Prune, Resting, PromoterTyped
  <2>3. CASE \E i \in promoter.list : PromoteMemory(i)
    BY <2>3 DEF PromoteMemory, PromoterTyped, MemoryInv, MemoryTyped
  <2> QED BY <2>1, <2>2, <2>3
<1>3. ASSUME NEW i \in DOMAIN rows
      PROVE  \/ i \notin DOMAIN rows' /\ rows[i].content \notin told'
             \/ /\ i \in DOMAIN rows' /\ rows'[i] \in MemRow(nextId)
                /\ rows'[i].content = rows[i].content
                /\ Retrievable(rows[i]) => Retrievable(rows'[i])
  <2>1. rows[i] \in MemRow(nextId) /\ nextId \in Nat \ {0}
    BY DEF MemoryInv, MemoryTyped
  <2>2. CASE Prune
    BY <2>1, <2>2 DEF Prune, DeleteMemories
  <2>3. CASE ListDue \/ AbortCycle
    BY <2>1, <2>3 DEF ListDue, AbortCycle
  <2>4. ASSUME NEW k \in promoter.list, PromoteMemory(k)
        PROVE  /\ i \in DOMAIN rows' /\ rows'[i] \in MemRow(nextId)
               /\ rows'[i].content = rows[i].content
               /\ Retrievable(rows[i]) => Retrievable(rows'[i])
    <3>1. promoter.pass \in 1..3
      BY DEF MemoryInv, MemoryTyped
    <3>2. \E t \in Tier : Rank[t] = promoter.pass + 1
      <4>1. Rank["Episodic"] = 2 /\ Rank["Semantic"] = 3 /\ Rank["Procedural"] = 4
        BY DEF Rank, Tier
      <4>2. promoter.pass = 1 \/ promoter.pass = 2 \/ promoter.pass = 3
        BY <3>1
      <4>3. {"Episodic", "Semantic", "Procedural"} \subseteq Tier
        BY DEF Tier
      <4> QED BY <4>1, <4>2, <4>3
    <3>3. NextTier(promoter.pass) \in Tier
      BY <3>2 DEF NextTier
    <3>4. /\ i \in DOMAIN rows'
          /\ rows'[i] = rows[i] \/ rows'[i] = [rows[i] EXCEPT !.tier = NextTier(promoter.pass)]
      BY <2>4 DEF PromoteMemory
    <3>5. rows'[i] = rows[i] \/ Touches(rows[i], rows'[i])
      BY <3>3, <3>4 DEF Touches
    <3> QED BY <2>1, <3>4, <3>5, RowUpdates
  <2> QED BY <2>2, <2>3, <2>4
<1>4. DOMAIN rows' \subseteq DOMAIN rows
  BY DEF ListDue, PromoteMemory, AbortCycle, Prune, DeleteMemories
<1>5. RowsEndure /\ ErrandsGoOn
  BY <1>1, <1>3, <1>4 DEF RowsEndure, ErrandsGoOn, MemoryInv, MemoryTyped
<1>6. KnowledgeKept'
  BY <1>1, <1>3, ToldRowsStay
<1> QED BY <1>2, <1>5, <1>6, RowsEndureKeeps DEF MemoryInv

(* An errand begins, under an id that nobody has.                          *)
LEMMA ErrandBegins ==
  ASSUME MemoryInv, NEW a \in Author, NEW e,
         errand[a] = Idle, errand' = [errand EXCEPT ![a] = e],
         nextId' = nextId + 1, UNCHANGED <<rows, promoter, told>>,
         e.id = nextId, e.target \in {0} \cup DOMAIN rows, e.row \in MemRow(nextId),
         e \in [kind: {"insert", "distill", "replace"}, target: 0..(nextId - 1),
                id: 1..nextId, row: MemRow(nextId)],
         e.kind # "distill" => Retrievable(e.row),
         Looks(e) /\ e.target \in DOMAIN rows => rows[e.target].content = e.row.content
  PROVE  MemoryInv'
<1>1. MemRow(nextId) \subseteq MemRow(nextId + 1) /\ nextId \in Nat \ {0}
  BY DEF MemRow, MemoryInv, MemoryTyped
<1>2. Errands(nextId) \subseteq Errands(nextId + 1) /\ e \in Errands(nextId + 1)
  BY <1>1 DEF Errands
<1>3. MemoryTyped'
  <2>1. nextId' \in Nat \ {0} /\ DOMAIN rows' \subseteq 1..(nextId' - 1)
    BY <1>1 DEF MemoryInv, MemoryTyped
  <2>2. \A i \in DOMAIN rows' : rows'[i] \in MemRow(nextId')
    BY <1>1 DEF MemoryInv, MemoryTyped
  <2>3. promoter' \in [pass: 0..3, list: SUBSET (1..(nextId' - 1))]
    BY <1>1 DEF MemoryInv, MemoryTyped
  <2> QED BY <2>1, <2>2, <2>3 DEF MemoryInv, MemoryTyped
<1>4. errand'[a] = e /\ \A b \in Author \ {a} : errand'[b] = errand[b]
  BY DEF MemoryInv, MemoryTyped
<1>5. \A b \in Author : errand[b] # Idle => ErrandHolds(errand[b]) /\ errand[b] \in Errands(nextId)
  BY DEF MemoryInv, ErrandsHold, ErrandHolds
<1>6. ErrandsHold'
  <2> SUFFICES ASSUME NEW b \in Author, errand'[b] # Idle PROVE ErrandHolds(errand[b])'
    BY DEF ErrandsHold
  <2>1. CASE b = a
    <3>1. e.id \notin DOMAIN rows
      BY <1>1 DEF MemoryInv, MemoryTyped
    <3> QED BY <2>1, <1>2, <1>4, <3>1 DEF ErrandHolds
  <2>2. CASE b # a
    BY <2>2, <1>2, <1>4, <1>5 DEF ErrandHolds
  <2> QED BY <2>1, <2>2
<1>7. IdsAreFresh'
  <2>1. \A b \in Author : errand[b] # Idle =>
          /\ errand[b].id \in 1..(nextId - 1) /\ errand[b].target \in 0..(nextId - 1)
          /\ errand[b].id \notin DOMAIN rows
    BY <1>5 DEF Errands, ErrandHolds
  <2>2. e.target # nextId /\ 0 \notin 1..(nextId - 1)
    BY <1>1 DEF MemoryInv, MemoryTyped
  <2> SUFFICES ASSUME NEW b \in Author, NEW c \in Author, errand'[b] # Idle, errand'[c] # Idle
               PROVE  (b # c => errand'[b].id # errand'[c].id) /\ errand'[b].id # errand'[c].target
    BY DEF IdsAreFresh
  <2>3. CASE b = a /\ c = a
    BY <1>4, <2>2, <2>3
  <2>4. CASE b = a /\ c # a
    BY <1>1, <1>4, <2>1, <2>4
  <2>5. CASE b # a /\ c = a
    BY <1>1, <1>4, <2>1, <2>2, <2>5
  <2>6. CASE b # a /\ c # a
    BY <1>4, <2>6 DEF MemoryInv, IdsAreFresh
  <2> QED BY <2>3, <2>4, <2>5, <2>6
<1>8. KnowledgeKept'
  BY DEF MemoryInv, KnowledgeKept
<1> QED BY <1>3, <1>6, <1>7, <1>8 DEF MemoryInv

(* The latest of the rows that match: it has the content. *)
LEMMA MatchHasContent ==
  ASSUME MemoryInv, NEW c \in Content
  PROVE  Match(c) \in {0} \cup DOMAIN rows /\ (Match(c) \in DOMAIN rows => rows[Match(c)].content = c)
<1> DEFINE hits == {i \in DOMAIN rows : rows[i].content = c /\ rows[i].end # "past"}
<1>1. 0 \notin DOMAIN rows /\ hits \in SUBSET Nat /\ nextId \in Nat /\ \A i \in hits : i <= nextId
  BY DEF MemoryInv, MemoryTyped
<1>2. CASE hits = {}
  BY <1>1, <1>2 DEF Match
<1>3. CASE hits # {}
  <2>1. \E i \in hits : \A j \in hits : j <= i
    <3> HIDE DEF hits
    <3> QED BY <1>1, <1>3, GreatestElement
  <2>2. Match(c) = CHOOSE i \in hits : \A j \in hits : j <= i
    BY <1>3 DEF Match
  <2>3. Match(c) \in hits
    <3> HIDE DEF hits
    <3> QED BY <2>1, <2>2
  <2> QED BY <1>1, <2>3
<1> QED BY <1>2, <1>3

LEMMA LookKeepsMemory ==
  ASSUME MemoryInv, NEW a \in Author, NEW c \in Content, NEW kind \in {"insert", "distill"},
         NEW tier \in Tier, NEW w \in Weights, Look(a, kind, c, tier, w)
  PROVE  MemoryInv'
<1> DEFINE row == IF kind = "insert" THEN Row(c, tier, "Persisted", w, 0)
                                     ELSE Row(c, tier, "Candidate", w, 1)
           e == Errand(kind, Match(c), nextId, row)
<1>1. nextId \in Nat \ {0} /\ DOMAIN rows \subseteq 1..(nextId - 1)
  BY DEF MemoryInv, MemoryTyped
<1>2. /\ row \in MemRow(nextId) /\ row.content = c
      /\ kind # "distill" => Retrievable(row)
  BY <1>1, MemoryAssumption DEF Row, MemRow, Retrievable
<1>3. /\ Match(c) \in {0} \cup DOMAIN rows
      /\ Match(c) \in DOMAIN rows => rows[Match(c)].content = c
  BY MatchHasContent
<1>4. /\ errand[a] = Idle /\ errand' = [errand EXCEPT ![a] = e]
      /\ nextId' = nextId + 1 /\ UNCHANGED <<rows, promoter, told>>
  BY DEF Look
<1> HIDE DEF row
<1>5. /\ e.id = nextId /\ e.target = Match(c) /\ e.row = row /\ e.kind = kind
      /\ e \in [kind: {"insert", "distill", "replace"}, target: 0..(nextId - 1),
                id: 1..nextId, row: MemRow(nextId)]
  BY <1>1, <1>2, <1>3 DEF Errand
<1> HIDE DEF e
<1> QED BY <1>2, <1>3, <1>4, <1>5, ErrandBegins

LEMMA BeginReplaceKeepsMemory ==
  ASSUME MemoryInv, NEW a \in Author, NEW c \in Content, NEW i \in DOMAIN rows, BeginReplace(a, i, c)
  PROVE  MemoryInv'
<1> DEFINE row == Row(c, rows[i].tier, "Persisted", rows[i].weight, IF rows[i].depth = 0 THEN 1 ELSE 2)
           e == Errand("replace", i, nextId, row)
<1>1. nextId \in Nat \ {0} /\ DOMAIN rows \subseteq 1..(nextId - 1) /\ rows[i] \in MemRow(nextId)
  BY DEF MemoryInv, MemoryTyped
<1>2. row \in MemRow(nextId) /\ Retrievable(row)
  <2>1. rows[i].tier \in Tier /\ rows[i].weight \in 0..100
    BY <1>1 DEF MemRow
  <2> QED BY <1>1, <2>1 DEF Row, MemRow, Retrievable
<1>3. /\ errand[a] = Idle /\ errand' = [errand EXCEPT ![a] = e]
      /\ nextId' = nextId + 1 /\ UNCHANGED <<rows, promoter, told>>
  BY DEF BeginReplace
<1> HIDE DEF row
<1>4. /\ e.id = nextId /\ e.target = i /\ e.row = row /\ e.kind = "replace"
      /\ e \in [kind: {"insert", "distill", "replace"}, target: 0..(nextId - 1),
                id: 1..nextId, row: MemRow(nextId)]
  BY <1>1, <1>2 DEF Errand
<1>5. ~Looks(e)
  BY <1>4 DEF Looks
<1> HIDE DEF e
<1> QED BY <1>1, <1>2, <1>3, <1>4, <1>5, ErrandBegins

(* The row of an errand is stored: no row is written over.                 *)
LEMMA StoreKeepsMemory ==
  ASSUME MemoryInv, NEW a \in Author, errand[a] # Idle,
         StoreMemory(errand[a].id, errand[a].row), errand' = [errand EXCEPT ![a] = Idle],
         UNCHANGED <<nextId, promoter>>,
         \/ told' = told
         \/ errand[a].kind # "distill" /\ told' = told \cup {errand[a].row.content}
  PROVE  MemoryInv'
<1> DEFINE id == errand[a].id
           row == errand[a].row
<1>1. /\ ErrandHolds(errand[a]) /\ id \in 1..(nextId - 1) /\ row \in MemRow(nextId)
      /\ id \notin DOMAIN rows
  BY DEF MemoryInv, ErrandsHold, ErrandHolds, Errands
<1>2. DOMAIN rows' = DOMAIN rows \cup {id} /\ rows'[id] = row
      /\ \A i \in DOMAIN rows : rows'[i] = rows[i]
  BY <1>1 DEF StoreMemory
<1>3. errand'[a] = Idle /\ \A b \in Author \ {a} : errand'[b] = errand[b]
  BY DEF MemoryInv, MemoryTyped
<1>4. MemoryTyped'
  BY <1>1, <1>2 DEF MemoryInv, MemoryTyped
<1>5. ErrandsHold'
  <2> SUFFICES ASSUME NEW b \in Author, errand'[b] # Idle PROVE ErrandHolds(errand[b])'
    BY DEF ErrandsHold
  <2>1. b # a /\ errand'[b] = errand[b] /\ ErrandHolds(errand[b])
    BY <1>3 DEF MemoryInv, ErrandsHold
  <2>2. errand[b].id # id /\ errand[b].target # id
    BY <1>3, <2>1 DEF MemoryInv, IdsAreFresh
  <2> HIDE DEF id
  <2> QED BY <1>2, <2>1, <2>2 DEF ErrandHolds
<1>6. IdsAreFresh'
  BY <1>3 DEF MemoryInv, IdsAreFresh
<1>7. KnowledgeKept'
  <2> SUFFICES ASSUME NEW c \in told'
               PROVE  \E i \in DOMAIN rows' : rows'[i].content = c /\ Retrievable(rows'[i])
    BY DEF KnowledgeKept, Retrievable
  <2>1. CASE c \in told
    BY <2>1, <1>2 DEF MemoryInv, KnowledgeKept
  <2>2. CASE c \notin told
    <3>1. c = row.content /\ Retrievable(row)
      BY <1>1, <2>2 DEF ErrandHolds
    <3> QED BY <1>2, <3>1
  <2> QED BY <2>1, <2>2
<1> QED BY <1>4, <1>5, <1>6, <1>7 DEF MemoryInv

LEMMA ErrandKeepsMemory ==
  ASSUME MemoryInv, NEW a \in Author,
         Reinforce(a) \/ Insert(a) \/ Invalidate(a) \/ Supersede(a) \/ Fail(a)
  PROVE  MemoryInv'
<1> DEFINE e == errand[a]
<1>1. e # Idle /\ ErrandHolds(e) /\ e.target \in 0..(nextId - 1) /\ e.id \in 0..(nextId - 1)
  <2>1. e # Idle
    <3>1. Idle.kind = "idle"
      BY DEF Idle, Errand
    <3>2. Fail(a) \/ e.kind \in {"insert", "distill", "replace", "supersede"}
      BY DEF Reinforce, Insert, Invalidate, Supersede
    <3> QED BY <3>1, <3>2 DEF Fail
  <2>2. ErrandHolds(e)
    BY <2>1 DEF MemoryInv, ErrandsHold
  <2> QED BY <2>1, <2>2 DEF ErrandHolds, Errands
<1>2. nextId \in Nat \ {0} /\ a \in DOMAIN errand /\ PromoterTyped
  BY DEF MemoryInv, MemoryTyped, PromoterTyped
<1>3. CASE Insert(a) \/ Supersede(a)
  <2>1. /\ StoreMemory(e.id, e.row) /\ errand' = [errand EXCEPT ![a] = Idle]
        /\ UNCHANGED <<nextId, promoter>>
        /\ told' = told \/ (e.kind # "distill" /\ told' = told \cup {e.row.content})
    BY <1>3 DEF Insert, Supersede, Tell
  <2> QED BY <1>1, <2>1, StoreKeepsMemory
<1>4. CASE Fail(a)
  <2>1. UNCHANGED <<rows, nextId, promoter, told>> /\ errand' = [errand EXCEPT ![a] = Idle]
    BY <1>4 DEF Fail
  <2>2. RowsEndure /\ ErrandsGoOn /\ PromoterTyped'
    BY <1>2, <2>1 DEF RowsEndure, ErrandsGoOn, PromoterTyped, MemoryInv, MemoryTyped
  <2> QED BY <2>1, <2>2, RowsEndureKeeps, ToldRowsStay DEF MemoryInv
<1>5. CASE Reinforce(a)
  <2> DEFINE i == e.target
  <2>1. /\ errand' = [errand EXCEPT ![a] = Idle] /\ UNCHANGED <<nextId, promoter>>
        /\ Looks(e) /\ DOMAIN rows' = DOMAIN rows
        /\ \A j \in DOMAIN rows \ {i} : rows'[j] = rows[j]
        /\ i \in DOMAIN rows => Touches(rows[i], rows'[i])
    BY <1>5 DEF Reinforce, Looks, Touches
  <2>2. \A j \in DOMAIN rows : rows'[j] = rows[j] \/ Touches(rows[j], rows'[j])
    BY <2>1
  <2>3. \A j \in DOMAIN rows :
          /\ rows'[j] \in MemRow(nextId) /\ rows'[j].content = rows[j].content
          /\ Retrievable(rows[j]) => Retrievable(rows'[j])
    <3> SUFFICES ASSUME NEW j \in DOMAIN rows
                 PROVE  /\ rows'[j] \in MemRow(nextId) /\ rows'[j].content = rows[j].content
                        /\ Retrievable(rows[j]) => Retrievable(rows'[j])
      OBVIOUS
    <3>1. rows[j] \in MemRow(nextId)
      BY DEF MemoryInv, MemoryTyped
    <3> QED BY <1>2, <2>2, <3>1, RowUpdates
  <2>4. RowsEndure /\ ErrandsGoOn /\ PromoterTyped'
    BY <1>2, <2>1, <2>3 DEF RowsEndure, ErrandsGoOn, PromoterTyped, MemoryInv, MemoryTyped
  <2>5. KnowledgeKept'
    <3>1. \/ told' = told
          \/ /\ told' = told \cup {e.row.content}
             /\ i \in DOMAIN rows /\ Retrievable(rows[i])
      BY <1>5 DEF Reinforce, Tell
    <3>2. i \in DOMAIN rows => rows[i].content = e.row.content
      BY <1>1, <2>1 DEF ErrandHolds
    <3> HIDE DEF i, e
    <3> SUFFICES ASSUME NEW c \in told'
                 PROVE  \E j \in DOMAIN rows' : rows'[j].content = c /\ Retrievable(rows'[j])
      BY DEF KnowledgeKept, Retrievable
    <3>3. \E j \in DOMAIN rows : rows[j].content = c /\ Retrievable(rows[j])
      BY <3>1, <3>2 DEF MemoryInv, KnowledgeKept
    <3> QED BY <2>1, <2>3, <3>3
  <2> QED BY <2>4, <2>5, RowsEndureKeeps DEF MemoryInv
<1>6. CASE Invalidate(a)
  <2> DEFINE i == e.target
  <2>1. /\ UNCHANGED <<nextId, promoter>> /\ DOMAIN rows' = DOMAIN rows
        /\ e.kind = "replace" /\ errand' = [errand EXCEPT ![a].kind = "supersede"]
        /\ \A j \in DOMAIN rows \ {i} : rows'[j] = rows[j]
        /\ i \in DOMAIN rows => rows'[i] = Ended(rows[i], e.id) /\ rows[i].content \notin told'
        /\ told' \subseteq told
    BY <1>6 DEF Invalidate
  <2>2. \A j \in DOMAIN rows :
          /\ rows'[j] \in MemRow(nextId) /\ rows'[j].content = rows[j].content
          /\ rows'[j] = rows[j] \/ rows[j].content \notin told'
    <3> SUFFICES ASSUME NEW j \in DOMAIN rows
                 PROVE  /\ rows'[j] \in MemRow(nextId) /\ rows'[j].content = rows[j].content
                        /\ rows'[j] = rows[j] \/ rows[j].content \notin told'
      OBVIOUS
    <3>1. rows[j] \in MemRow(nextId)
      BY DEF MemoryInv, MemoryTyped
    <3>2. CASE j = i
      <4>1. Ends(nextId, rows[j], rows'[j])
        BY <1>1, <2>1, <3>2 DEF Ends
      <4> QED BY <1>2, <2>1, <3>1, <3>2, <4>1, RowUpdates
    <3> QED BY <2>1, <3>1, <3>2
  <2>3. ErrandsGoOn
    <3>1. DOMAIN errand' = Author /\ errand'[a] = [errand[a] EXCEPT !.kind = "supersede"]
          /\ \A b \in Author \ {a} : errand'[b] = errand[b]
      BY <2>1 DEF MemoryInv, MemoryTyped
    <3> QED BY <2>1, <3>1 DEF ErrandsGoOn
  <2>4. RowsEndure /\ PromoterTyped'
    BY <1>2, <2>1, <2>2 DEF RowsEndure, PromoterTyped
  <2>5. KnowledgeKept'
    BY <2>1, <2>2, ToldRowsStay
  <2> QED BY <2>3, <2>4, <2>5, RowsEndureKeeps DEF MemoryInv
<1> QED BY <1>3, <1>4, <1>5, <1>6

(* What an agent was told is remembered can be retrieved until somebody    *)
(* takes it back, for any number of agents that write at once.             *)
THEOREM ToldKnowledgeIsKept == MemorySpec => [](MemoryTypeOK /\ KnowledgeKept)
<1>1. MemoryInv /\ [MemoryNext]_memoryVars => MemoryInv'
  <2> SUFFICES ASSUME MemoryInv, [MemoryNext]_memoryVars PROVE MemoryInv'
    OBVIOUS
  <2>1. CASE UNCHANGED memoryVars
    <3>1. UNCHANGED <<rows, nextId, errand, promoter, told>>
      BY <2>1 DEF memoryVars
    <3>2. RowsEndure /\ ErrandsGoOn /\ PromoterTyped'
      BY <3>1 DEF RowsEndure, ErrandsGoOn, PromoterTyped, MemoryInv, MemoryTyped
    <3> QED BY <3>1, <3>2, RowsEndureKeeps, ToldRowsStay DEF MemoryInv
  <2>2. CASE MemoryNext
    BY <2>2, LookKeepsMemory, BeginReplaceKeepsMemory, ErrandKeepsMemory, CommandKeepsMemory,
       SearchKeepsMemory, PromoterKeepsMemory DEF MemoryNext
  <2> QED BY <2>1, <2>2
<1>2. MemoryInv => MemoryTypeOK /\ KnowledgeKept
  BY TypedMemory DEF MemoryInv
<1> QED BY <1>1, <1>2, MemoryInitInv, PTL DEF MemorySpec

---------------------------------------------------------------------------
(* Distillation.  What the marker has passed, and what it will pass when   *)
(* the batch is done, is distilled or was late (BatchIsNext); that two     *)
(* messages with one stamp both count as late (EqualStamps) is what makes  *)
(* up for a batch that ends between them.                                  *)
EqualStamps ==
  \A m, n \in Stored : m # n /\ sent[m] = sent[n] => m \in lateSent

BatchIsNext ==
  /\ batch \subseteq Stored
  /\ \A x \in batch, m \in Stored : sent[m] <= sent[x] => m \in batch \cup facts \cup lateSent

MarkerIsStamp == distilled # 0 => \E m \in Stored : sent[m] = distilled

DistillationInv ==
  /\ DistillationTypeOK /\ IsFiniteSet(Stored)
  /\ EqualStamps /\ BatchIsNext /\ MarkerIsStamp /\ MarkerPassesOnlyRead

LEMMA StampsAreNumbers ==
  ASSUME DistillationTypeOK
  PROVE  /\ \A s \in Stamp : s \in Nat /\ s # 0
         /\ \A m \in Message : sent[m] \in Nat /\ (sent[m] # 0 => sent[m] \in Stamp)
         /\ distilled \in Nat
<1>1. \A s \in Stamp : s \in Nat /\ s # 0
  BY DistillationAssumption
<1>2. \A m \in Message : sent[m] = 0 \/ sent[m] \in Stamp
  BY DEF DistillationTypeOK
<1>3. distilled = 0 \/ distilled \in Stamp
  BY DEF DistillationTypeOK
<1> QED BY <1>1, <1>2, <1>3

(* The newest of some stored messages is the stamp of one of them. *)
LEMMA NewestIsLast ==
  ASSUME DistillationInv, NEW b \in SUBSET Stored, b # {}
  PROVE  \E x \in b : Newest(b) = sent[x] /\ \A m \in b : sent[m] <= sent[x]
<1> DEFINE f == [m \in b |-> sent[m]]
<1>1. sent \in [Message -> Stamp \cup {0}] /\ \A m \in b : sent[m] \in Stamp /\ sent[m] \in Int
  BY StampsAreNumbers DEF DistillationInv, DistillationTypeOK, Stored
<1>2. IsFiniteSet(b)
  BY FS_Subset DEF DistillationInv
<1>3. PICK x \in b : \A m \in b : f[m] <= f[x]
  <2>1. f \in [b -> Int]
    BY <1>1
  <2> HIDE DEF f
  <2> QED BY <1>2, <2>1, GreatestValue
<1>4. \E s \in Stamp : (\E m \in b : sent[m] = s) /\ \A m \in b : sent[m] <= s
  BY <1>1, <1>3
<1>5. /\ Newest(b) \in Stamp /\ (\E m \in b : sent[m] = Newest(b))
      /\ \A m \in b : sent[m] <= Newest(b)
  BY <1>4 DEF Newest
<1> QED BY <1>5

LEMMA PostKeepsDistillation ==
  ASSUME DistillationInv, NEW m \in Message, NEW s \in Stamp, Post(m, s)
  PROVE  DistillationInv'
<1>1. /\ sent \in [Message -> Stamp \cup {0}] /\ s \in Nat /\ s # 0 /\ sent[m] = 0
      /\ \A n \in Message : sent[n] \in Nat
      /\ distilled \in Nat
  BY StampsAreNumbers DEF DistillationInv, DistillationTypeOK, Post
<1>2. /\ sent'[m] = s /\ \A n \in Message \ {m} : sent'[n] = sent[n]
      /\ UNCHANGED <<calm, distilled, batch, facts>>
  BY <1>1 DEF Post
<1>3. m \notin Stored /\ Stored' = Stored \cup {m}
  BY <1>1, <1>2 DEF Stored
<1>4. lateSent' \subseteq Message /\ lateSent \subseteq lateSent'
  BY DEF Post, DistillationInv, DistillationTypeOK, Stored
<1>5. DistillationTypeOK' /\ IsFiniteSet(Stored')
  <2>1. IsFiniteSet(Stored')
    BY <1>3, FS_AddElement DEF DistillationInv
  <2> QED BY <1>2, <1>4, <2>1 DEF Post, DistillationInv, DistillationTypeOK
<1>6. ASSUME NEW n \in Stored PROVE /\ sent[n] = s => n \in lateSent'
                                    /\ sent[n] >= s => m \in lateSent'
  BY <1>6 DEF Post
<1>7. \A n \in Stored : n # m /\ sent'[n] = sent[n] /\ n \in Message
  BY <1>2, <1>3 DEF Stored
<1>8. EqualStamps'
  <2> SUFFICES ASSUME NEW x \in Stored', NEW y \in Stored', x # y, sent'[x] = sent'[y]
               PROVE  x \in lateSent'
    BY DEF EqualStamps
  <2>1. CASE x = m
    BY <1>1, <1>2, <1>3, <1>6, <1>7, <2>1
  <2>2. CASE y = m
    BY <1>2, <1>3, <1>6, <1>7, <2>2
  <2>3. CASE x # m /\ y # m
    BY <1>3, <1>4, <1>7, <2>3 DEF DistillationInv, EqualStamps
  <2> QED BY <2>1, <2>2, <2>3
<1>9. BatchIsNext'
  <2> SUFFICES ASSUME NEW x \in batch, NEW n \in Stored', sent'[n] <= sent'[x]
               PROVE  n \in batch \cup facts \cup lateSent'
    BY <1>2, <1>3 DEF DistillationInv, BatchIsNext
  <2>1. x \in Stored /\ sent'[x] = sent[x] /\ sent[x] \in Nat
    BY <1>1, <1>7 DEF DistillationInv, BatchIsNext
  <2>2. CASE n = m
    BY <1>1, <1>2, <1>6, <2>1, <2>2
  <2>3. CASE n # m
    BY <1>3, <1>4, <1>7, <2>1, <2>3 DEF DistillationInv, BatchIsNext
  <2> QED BY <2>2, <2>3
<1>10. MarkerIsStamp'
  BY <1>2, <1>3, <1>7 DEF DistillationInv, MarkerIsStamp
<1>11. MarkerPassesOnlyRead'
  <2> SUFFICES ASSUME NEW n \in Stored', sent'[n] <= distilled
               PROVE  n \in facts \cup lateSent'
    BY <1>2 DEF MarkerPassesOnlyRead
  <2>1. CASE n = m
    <3>1. PICK k \in Stored : sent[k] = distilled
      BY <1>1, <1>2, <2>1 DEF DistillationInv, MarkerIsStamp
    <3> QED BY <1>1, <1>2, <1>6, <2>1, <3>1
  <2>2. CASE n # m
    BY <1>3, <1>4, <1>7, <2>2 DEF DistillationInv, MarkerPassesOnlyRead
  <2> QED BY <2>1, <2>2
<1> QED BY <1>5, <1>8, <1>9, <1>10, <1>11 DEF DistillationInv

LEMMA ReadKeepsDistillation ==
  ASSUME DistillationInv, ReadMessages
  PROVE  DistillationInv'
<1>1. PICK b \in Batches : batch' = b
  BY DEF ReadMessages
<1>2. UNCHANGED <<sent, calm, distilled, facts, lateSent>> /\ Stored' = Stored
  BY DEF ReadMessages, Stored
<1>3. /\ b \subseteq Stored
      /\ \A m \in b : sent[m] > distilled
      /\ \A m \in b, n \in Stored \ b : sent[n] > distilled => sent[m] <= sent[n]
  BY <1>1 DEF Batches
<1>4. /\ \A n \in Stored : sent[n] \in Nat
      /\ distilled \in Nat
  BY StampsAreNumbers DEF DistillationInv, Stored
<1>5. BatchIsNext'
  <2> SUFFICES ASSUME NEW x \in b, NEW m \in Stored, sent[m] <= sent[x], m \notin b
               PROVE  m \in facts \cup lateSent
    BY <1>1, <1>2, <1>3 DEF BatchIsNext
  <2>1. CASE sent[m] <= distilled
    BY <2>1 DEF DistillationInv, MarkerPassesOnlyRead
  <2>2. CASE sent[m] > distilled
    <3>1. sent[m] = sent[x] /\ x \in Stored /\ x # m
      BY <1>3, <1>4, <2>2
    <3> QED BY <3>1 DEF DistillationInv, EqualStamps
  <2> QED BY <1>4, <2>1, <2>2
<1>6. DistillationTypeOK' /\ IsFiniteSet(Stored')
  BY <1>1, <1>2, <1>3 DEF DistillationInv, DistillationTypeOK, Stored
<1>7. EqualStamps' /\ MarkerIsStamp' /\ MarkerPassesOnlyRead'
  BY <1>2 DEF DistillationInv, EqualStamps, MarkerIsStamp, MarkerPassesOnlyRead
<1> QED BY <1>5, <1>6, <1>7 DEF DistillationInv

LEMMA MarkerKeepsDistillation ==
  ASSUME DistillationInv, MoveMarker
  PROVE  DistillationInv'
<1>1. /\ batch # {} /\ batch \subseteq facts /\ distilled' = Newest(batch) /\ batch' = {}
      /\ UNCHANGED <<sent, calm, facts, lateSent>> /\ Stored' = Stored
  BY DEF MoveMarker, Stored
<1>2. PICK x \in batch : Newest(batch) = sent[x] /\ \A m \in batch : sent[m] <= sent[x]
  BY <1>1, NewestIsLast DEF DistillationInv, BatchIsNext
<1>3. x \in Stored /\ sent[x] \in Stamp
  BY DEF DistillationInv, DistillationTypeOK, BatchIsNext, Stored
<1>4. DistillationTypeOK' /\ IsFiniteSet(Stored')
  BY <1>1, <1>2, <1>3 DEF DistillationInv, DistillationTypeOK
<1>5. MarkerPassesOnlyRead' /\ MarkerIsStamp'
  BY <1>1, <1>2, <1>3 DEF DistillationInv, BatchIsNext, MarkerPassesOnlyRead, MarkerIsStamp
<1>6. EqualStamps' /\ BatchIsNext'
  BY <1>1 DEF DistillationInv, EqualStamps, BatchIsNext
<1> QED BY <1>4, <1>5, <1>6 DEF DistillationInv

LEMMA OtherStepsKeepDistillation ==
  ASSUME DistillationInv, HalfAMinute \/ GiveUpBatch \/ StoreFacts \/ UNCHANGED distillVars
  PROVE  DistillationInv'
<1>1. Stored' = Stored /\ sent' = sent /\ distilled' = distilled /\ lateSent' = lateSent
      /\ facts \subseteq facts' /\ batch' \in {{}, batch}
  BY DEF HalfAMinute, GiveUpBatch, StoreFacts, distillVars, Stored
<1>2. DistillationTypeOK'
  BY DEF HalfAMinute, GiveUpBatch, StoreFacts, distillVars, DistillationInv, DistillationTypeOK
<1> QED BY <1>1, <1>2 DEF DistillationInv, EqualStamps, BatchIsNext, MarkerIsStamp, MarkerPassesOnlyRead

(* The marker of a conversation passes no message that was not distilled,  *)
(* for any batch size and any order in which messages arrive and cycles    *)
(* fail; the exceptions are the ones that MarkerPassesOnlyRead names.      *)
THEOREM MarkersPassOnlyRead == DistillationSpec => [](DistillationTypeOK /\ MarkerPassesOnlyRead)
<1>1. DistillationInit => DistillationInv
  <2> SUFFICES ASSUME DistillationInit PROVE DistillationInv
    OBVIOUS
  <2>1. Stored = {}
    BY DEF DistillationInit, Stored
  <2> QED BY <2>1, FS_EmptySet
          DEF DistillationInit, DistillationInv, DistillationTypeOK, EqualStamps, BatchIsNext,
              MarkerIsStamp, MarkerPassesOnlyRead
<1>2. DistillationInv /\ [DistillationNext]_distillVars => DistillationInv'
  BY PostKeepsDistillation, ReadKeepsDistillation, MarkerKeepsDistillation,
     OtherStepsKeepDistillation DEF DistillationNext
<1>3. DistillationInv => DistillationTypeOK /\ MarkerPassesOnlyRead
  BY DEF DistillationInv
<1> QED BY <1>1, <1>2, <1>3, PTL DEF DistillationSpec

---------------------------------------------------------------------------
(* Documents.  A migration copies what it loaded at its start, so that at  *)
(* each of its steps every embedded chunk must be accounted for in the     *)
(* target as well as in the backend that is asked (MigrationCovers); an    *)
(* ingestion deletes vectors by the ids of its file, so that no two rows   *)
(* may share an id (RowsAreTyped).                                         *)
RowsAreTyped ==
  /\ nextChunk \in Nat \ {0}
  /\ chunkRows \subseteq [id : 1..(nextChunk - 1), file : File, version : Version, embedded : BOOLEAN]
  /\ \A r, q \in chunkRows : r.id = q.id => r = q
  /\ vectors \in [Backend -> SUBSET (1..(nextChunk - 1))]
  /\ missed \subseteq 1..(nextChunk - 1)

IngestTyped(g, n) ==
  /\ g.step \in {"idle", "embed", "store", "lance"}
  /\ g.step \in {"embed", "store"} => g.file \in File /\ g.version \in Version
  /\ g.step = "lance" => g.id \in 1..(n - 1)

StoresAreTyped ==
  /\ disk \in [File -> Version \cup {0}] /\ ingestState \in [File -> Version \cup {0}]
  /\ backend \in Backend /\ lines \in Seq(Line)
  /\ DOMAIN ingest = Ingestor /\ \A i \in Ingestor : IngestTyped(ingest[i], nextChunk)
  /\ migration.step \in {"idle", "copy", "verify"}
  /\ migration.step # "idle" => migration.to \in Backend
  /\ migration.step = "copy" => migration.loaded \subseteq 1..(nextChunk - 1)

MigrationCovers ==
  \A r \in chunkRows : r.embedded =>
    /\ migration.step = "copy" => r.id \in migration.loaded \cup missed \cup vectors[migration.to]
    /\ migration.step = "verify" => r.id \in missed \cup vectors[migration.to]

AllServed == \A r \in chunkRows : r.embedded => r.id \in vectors[backend] \cup missed

DocumentsInv == RowsAreTyped /\ StoresAreTyped /\ MigrationCovers /\ AllServed

LEMMA DocumentsFollow == DocumentsInv => DocumentsTypeOK /\ ActiveBackendServes
<1> SUFFICES ASSUME DocumentsInv PROVE DocumentsTypeOK /\ ActiveBackendServes
  OBVIOUS
<1>1. DocumentsTypeOK
  <2>1. 1..(nextChunk - 1) \subseteq 1..nextChunk
    BY DEF DocumentsInv, RowsAreTyped
  <2>2. chunkRows \subseteq [id : 1..nextChunk, file : File, version : Version, embedded : BOOLEAN]
    BY <2>1 DEF DocumentsInv, RowsAreTyped
  <2>3. vectors \in [Backend -> SUBSET (1..nextChunk)] /\ missed \subseteq 1..nextChunk
    BY <2>1 DEF DocumentsInv, RowsAreTyped
  <2> QED BY <2>2, <2>3 DEF DocumentsInv, RowsAreTyped, StoresAreTyped, IngestTyped, DocumentsTypeOK
<1>2. ActiveBackendServes
  BY DEF DocumentsInv, AllServed, ActiveBackendServes, Embedded, Found
<1> QED BY <1>1, <1>2

LEMMA DocumentsInitInv == DocumentsInit => DocumentsInv
BY DEF DocumentsInit, DocumentsInv, RowsAreTyped, StoresAreTyped, IngestTyped, MigrationCovers,
     AllServed, Backend, NotIngesting, NotMigrating

(* The steps that leave the rows and their vectors alone. *)
LEMMA ReadingKeepsDocuments ==
  ASSUME DocumentsInv,
         \/ \E f \in File, v \in Version \cup {0} : EditFile(f, v)
         \/ \E i \in Ingestor : ReadBackend(i) \/ IngestFails(i) \/ \E f \in File : ReadFile(i, f)
         \/ \E l \in Line : ChunkNextLine(l)
  PROVE  DocumentsInv'
<1>1. UNCHANGED <<chunkRows, ingestState, vectors, backend, migration, nextChunk, missed>>
  BY DEF EditFile, ReadBackend, IngestFails, ReadFile, ChunkNextLine
<1>2. RowsAreTyped' /\ MigrationCovers' /\ AllServed'
  BY <1>1 DEF DocumentsInv, RowsAreTyped, MigrationCovers, AllServed
<1>3. disk' \in [File -> Version \cup {0}] /\ lines' \in Seq(Line)
  BY DEF EditFile, ReadBackend, IngestFails, ReadFile, ChunkNextLine, DocumentsInv, StoresAreTyped
<1>4. DOMAIN ingest' = Ingestor /\ \A i \in Ingestor : IngestTyped(ingest'[i], nextChunk)
  <2>1. ASSUME NEW i \in Ingestor, NEW g, ingest' = [ingest EXCEPT ![i] = g], IngestTyped(g, nextChunk)
        PROVE  DOMAIN ingest' = Ingestor /\ \A j \in Ingestor : IngestTyped(ingest'[j], nextChunk)
    BY <2>1 DEF DocumentsInv, StoresAreTyped
  <2>2. ASSUME NEW i \in Ingestor, NEW f \in File, ReadFile(i, f)
        PROVE  DOMAIN ingest' = Ingestor /\ \A j \in Ingestor : IngestTyped(ingest'[j], nextChunk)
    <3> DEFINE g == [step |-> "embed", file |-> f, version |-> disk[f]]
    <3>1. ingest' = [ingest EXCEPT ![i] = g] /\ disk[f] # 0
      BY <2>2 DEF ReadFile, Discovered
    <3>2. IngestTyped(g, nextChunk)
      BY <3>1 DEF IngestTyped, DocumentsInv, StoresAreTyped
    <3> HIDE DEF g
    <3> QED BY <2>1, <3>1, <3>2
  <2>3. ASSUME NEW i \in Ingestor, ReadBackend(i)
        PROVE  DOMAIN ingest' = Ingestor /\ \A j \in Ingestor : IngestTyped(ingest'[j], nextChunk)
    <3> DEFINE g == [step |-> "store", file |-> ingest[i].file, version |-> ingest[i].version,
                     lance |-> backend = "lancedb"]
    <3>1. ingest' = [ingest EXCEPT ![i] = g] /\ ingest[i].step = "embed"
      BY <2>3 DEF ReadBackend
    <3>2. IngestTyped(g, nextChunk)
      BY <3>1 DEF IngestTyped, DocumentsInv, StoresAreTyped
    <3> HIDE DEF g
    <3> QED BY <2>1, <3>1, <3>2
  <2>4. ASSUME NEW i \in Ingestor, IngestFails(i)
        PROVE  DOMAIN ingest' = Ingestor /\ \A j \in Ingestor : IngestTyped(ingest'[j], nextChunk)
    <3>1. ingest' = [ingest EXCEPT ![i] = NotIngesting] /\ IngestTyped(NotIngesting, nextChunk)
      BY <2>4 DEF IngestFails, IngestTyped, NotIngesting
    <3> QED BY <2>1, <3>1
  <2>5. CASE ingest' = ingest
    BY <2>5 DEF DocumentsInv, StoresAreTyped
  <2> QED BY <2>2, <2>3, <2>4, <2>5 DEF EditFile, ChunkNextLine
<1>5. StoresAreTyped'
  BY <1>1, <1>3, <1>4 DEF DocumentsInv, StoresAreTyped, IngestTyped
<1> QED BY <1>2, <1>5 DEF DocumentsInv

LEMMA MigrationKeepsDocuments ==
  ASSUME DocumentsInv, LoadEmbeddings \/ CopyEmbeddings \/ SwitchBackend \/ MigrationFails
  PROVE  DocumentsInv'
<1>1. UNCHANGED <<disk, chunkRows, ingestState, ingest, nextChunk, missed, lines>>
  BY DEF LoadEmbeddings, CopyEmbeddings, SwitchBackend, MigrationFails
<1>2. CASE LoadEmbeddings
  <2>1. /\ migration' = [step |-> "copy", to |-> OtherBackend(backend), loaded |-> Embedded]
        /\ UNCHANGED <<vectors, backend>>
    BY <1>2 DEF LoadEmbeddings
  <2>2. OtherBackend(backend) \in Backend
    <3>1. \E c \in Backend : c # backend
      BY DEF Backend
    <3> QED BY <3>1 DEF OtherBackend
  <2>3. Embedded \subseteq 1..(nextChunk - 1) /\ \A r \in chunkRows : r.embedded => r.id \in Embedded
    BY DEF Embedded, DocumentsInv, RowsAreTyped
  <2>4. StoresAreTyped'
    BY <1>1, <2>1, <2>2, <2>3 DEF DocumentsInv, StoresAreTyped, IngestTyped
  <2> QED BY <1>1, <2>1, <2>3, <2>4 DEF DocumentsInv, RowsAreTyped, MigrationCovers, AllServed
<1>3. CASE CopyEmbeddings
  <2>1. /\ migration.step = "copy" /\ migration.to \in Backend
        /\ migration.loaded \subseteq 1..(nextChunk - 1)
        /\ vectors' = [vectors EXCEPT ![migration.to] = @ \cup migration.loaded]
        /\ migration' = [migration EXCEPT !.step = "verify"] /\ backend' = backend
    BY <1>3 DEF CopyEmbeddings, BatchUpsert, DocumentsInv, StoresAreTyped
  <2>2. migration'.step = "verify" /\ migration'.to = migration.to
    BY <2>1
  <2>3. /\ vectors' \in [Backend -> SUBSET (1..(nextChunk - 1))]
        /\ \A b \in Backend : vectors[b] \subseteq vectors'[b]
        /\ vectors'[migration.to] = vectors[migration.to] \cup migration.loaded
    BY <2>1 DEF DocumentsInv, RowsAreTyped
  <2>4. RowsAreTyped'
    BY <1>1, <2>3 DEF DocumentsInv, RowsAreTyped
  <2>5. StoresAreTyped'
    BY <1>1, <2>1, <2>2 DEF DocumentsInv, StoresAreTyped, IngestTyped
  <2>6. MigrationCovers'
    BY <1>1, <2>1, <2>2, <2>3 DEF DocumentsInv, MigrationCovers
  <2>7. AllServed'
    BY <1>1, <2>1, <2>3 DEF DocumentsInv, AllServed, StoresAreTyped
  <2> QED BY <2>4, <2>5, <2>6, <2>7 DEF DocumentsInv
<1>4. CASE SwitchBackend
  <2>1. /\ migration.step = "verify" /\ backend' \in {backend, migration.to}
        /\ migration'.step = "idle" /\ vectors' = vectors
    BY <1>4 DEF SwitchBackend, NotMigrating
  <2>2. StoresAreTyped'
    BY <1>1, <2>1 DEF DocumentsInv, StoresAreTyped, IngestTyped
  <2> QED BY <1>1, <2>1, <2>2 DEF DocumentsInv, RowsAreTyped, MigrationCovers, AllServed
<1>5. CASE MigrationFails
  <2>1. migration'.step = "idle" /\ UNCHANGED <<vectors, backend>>
    BY <1>5 DEF MigrationFails, NotMigrating
  <2>2. StoresAreTyped'
    BY <1>1, <2>1 DEF DocumentsInv, StoresAreTyped, IngestTyped
  <2> QED BY <1>1, <2>1, <2>2 DEF DocumentsInv, RowsAreTyped, MigrationCovers, AllServed
<1> QED BY <1>2, <1>3, <1>4, <1>5

LEMMA StoreKeepsDocuments ==
  ASSUME DocumentsInv, NEW i \in Ingestor, NEW embedded \in BOOLEAN, NEW fails \in BOOLEAN,
         StoreChunks(i, embedded, fails)
  PROVE  DocumentsInv'
<1> DEFINE g == ingest[i]
           new == ChunkRow(g, embedded)
<1>1. /\ g.step = "store" /\ UNCHANGED <<disk, backend, migration, lines>>
      /\ nextChunk' = nextChunk + 1
      /\ chunkRows' = (chunkRows \ RowsOf(g.file)) \cup {new}
      /\ vectors' = [vectors EXCEPT !["sqlite-vec"] =
           (@ \ IdsOf(g.file)) \cup (IF embedded /\ ~fails THEN {nextChunk} ELSE {})]
      /\ ingestState' = [ingestState EXCEPT ![g.file] = g.version]
      /\ missed' = IF embedded /\ (fails \/ backend = "lancedb" \/ migration.step # "idle")
                   THEN missed \cup {nextChunk} ELSE missed
  BY DEF StoreChunks
<1>2. g.file \in File /\ g.version \in Version /\ nextChunk \in Nat \ {0}
  BY <1>1 DEF DocumentsInv, StoresAreTyped, RowsAreTyped, IngestTyped
<1>3. /\ new.id = nextChunk /\ new.embedded = embedded
      /\ new \in [id : 1..nextChunk, file : File, version : Version, embedded : BOOLEAN]
  BY <1>2 DEF ChunkRow
<1>4. 1..(nextChunk - 1) \subseteq 1..nextChunk /\ nextChunk' - 1 = nextChunk
  BY <1>1, <1>2
<1> HIDE DEF new
<1>5. /\ \A r \in chunkRows' \ {new} : r \in chunkRows /\ r.id \notin IdsOf(g.file)
                                      /\ r.id \in 1..(nextChunk - 1)
  BY <1>1 DEF RowsOf, IdsOf, DocumentsInv, RowsAreTyped
<1>6. /\ vectors' \in [Backend -> SUBSET (1..nextChunk)]
      /\ \A b \in Backend : vectors[b] \ IdsOf(g.file) \subseteq vectors'[b]
      /\ embedded /\ ~fails => nextChunk \in vectors'["sqlite-vec"]
  <2>1. "sqlite-vec" \in Backend /\ vectors \in [Backend -> SUBSET (1..(nextChunk - 1))]
    BY DEF Backend, DocumentsInv, RowsAreTyped
  <2> DEFINE V == (vectors["sqlite-vec"] \ IdsOf(g.file)) \cup (IF embedded /\ ~fails THEN {nextChunk} ELSE {})
  <2>2. V \subseteq 1..nextChunk /\ vectors["sqlite-vec"] \ IdsOf(g.file) \subseteq V
        /\ (embedded /\ ~fails => nextChunk \in V)
    BY <1>2, <1>4, <2>1
  <2>3. vectors' = [vectors EXCEPT !["sqlite-vec"] = V]
    BY <1>1
  <2> HIDE DEF V
  <2> QED BY <1>4, <2>1, <2>2, <2>3
<1>7. missed \subseteq missed' /\ missed' \subseteq 1..nextChunk
  BY <1>1, <1>2, <1>4 DEF DocumentsInv, RowsAreTyped
<1>8. RowsAreTyped'
  <2>1. chunkRows' \subseteq [id : 1..nextChunk, file : File, version : Version, embedded : BOOLEAN]
    <3>1. chunkRows \subseteq [id : 1..nextChunk, file : File, version : Version, embedded : BOOLEAN]
      BY <1>4 DEF DocumentsInv, RowsAreTyped
    <3> QED BY <1>1, <1>3, <3>1
  <2>2. ASSUME NEW r \in chunkRows', NEW q \in chunkRows', r.id = q.id PROVE r = q
    BY <1>2, <1>3, <1>5, <2>2 DEF DocumentsInv, RowsAreTyped
  <2> QED BY <1>1, <1>2, <1>4, <1>6, <1>7, <2>1, <2>2 DEF RowsAreTyped
<1>9. StoresAreTyped'
  <2> DEFINE h == IF embedded /\ g.lance
                  THEN [step |-> "lance", file |-> g.file, id |-> nextChunk] ELSE NotIngesting
  <2>1. ingest' = [ingest EXCEPT ![i] = h]
    BY DEF StoreChunks
  <2>2. IngestTyped(h, nextChunk')
    BY <1>1, <1>2, <1>4 DEF IngestTyped, NotIngesting
  <2> HIDE DEF h
  <2>3. \A j \in Ingestor : IngestTyped(ingest'[j], nextChunk')
    BY <2>1, <2>2, <1>1, <1>4 DEF DocumentsInv, StoresAreTyped, IngestTyped
  <2>4. ingestState' \in [File -> Version \cup {0}] /\ DOMAIN ingest' = Ingestor
    BY <1>1, <1>2, <2>1 DEF DocumentsInv, StoresAreTyped
  <2> QED BY <1>1, <1>4, <2>3, <2>4 DEF DocumentsInv, StoresAreTyped
<1>10. CASE embedded
  <2>1. backend = "sqlite-vec" \/ backend = "lancedb"
    BY DEF DocumentsInv, StoresAreTyped, Backend
  <2>2. new.id \in vectors'[backend'] \cup missed'
    BY <1>1, <1>3, <1>6, <1>10, <2>1
  <2>3. migration'.step # "idle" => new.id \in missed'
    BY <1>1, <1>3, <1>10
  <2>4. AllServed'
    BY <1>1, <1>5, <1>6, <1>7, <2>2 DEF DocumentsInv, AllServed, StoresAreTyped
  <2>5. MigrationCovers'
    BY <1>1, <1>5, <1>6, <1>7, <2>3 DEF DocumentsInv, MigrationCovers, StoresAreTyped
  <2> QED BY <1>8, <1>9, <2>4, <2>5 DEF DocumentsInv
<1>11. CASE ~embedded
  <2>1. AllServed'
    BY <1>1, <1>3, <1>5, <1>6, <1>7, <1>11 DEF DocumentsInv, AllServed, StoresAreTyped
  <2>2. MigrationCovers'
    BY <1>1, <1>3, <1>5, <1>6, <1>7, <1>11 DEF DocumentsInv, MigrationCovers, StoresAreTyped
  <2> QED BY <1>8, <1>9, <2>1, <2>2 DEF DocumentsInv
<1> QED BY <1>10, <1>11

LEMMA WriteLanceKeepsDocuments ==
  ASSUME DocumentsInv, NEW i \in Ingestor, NEW fails \in BOOLEAN, WriteLance(i, fails)
  PROVE  DocumentsInv'
<1>1. /\ UNCHANGED <<disk, chunkRows, ingestState, backend, migration, nextChunk, lines>>
      /\ ingest' = [ingest EXCEPT ![i] = NotIngesting] /\ ingest[i].step = "lance"
  BY DEF WriteLance
<1>2. StoresAreTyped'
  BY <1>1 DEF DocumentsInv, StoresAreTyped, IngestTyped, NotIngesting
<1>3. CASE fails
  <2>1. UNCHANGED <<vectors, missed>>
    BY <1>3 DEF WriteLance
  <2> QED BY <1>1, <1>2, <2>1 DEF DocumentsInv, RowsAreTyped, MigrationCovers, AllServed
<1>4. CASE ~fails
  <2> DEFINE id == ingest[i].id
  <2>1. /\ vectors' = [vectors EXCEPT !["lancedb"] = @ \cup {id}]
        /\ missed' = IF id \in vectors["sqlite-vec"] THEN missed \ {id} ELSE missed
        /\ id \in 1..(nextChunk - 1)
    BY <1>1, <1>4 DEF WriteLance, BatchUpsert, DocumentsInv, StoresAreTyped, IngestTyped
  <2> HIDE DEF id
  <2>2. /\ vectors' \in [Backend -> SUBSET (1..(nextChunk - 1))]
        /\ \A b \in Backend : vectors[b] \subseteq vectors'[b]
        /\ missed' \subseteq missed
        /\ \A x \in missed \ missed' : \A b \in Backend : x \in vectors'[b]
    BY <2>1 DEF Backend, DocumentsInv, RowsAreTyped
  <2>3. RowsAreTyped'
    BY <1>1, <2>2 DEF DocumentsInv, RowsAreTyped
  <2>4. AllServed' /\ MigrationCovers'
    BY <1>1, <2>2 DEF DocumentsInv, AllServed, MigrationCovers, StoresAreTyped
  <2> QED BY <1>2, <2>3, <2>4 DEF DocumentsInv
<1> QED BY <1>3, <1>4

(* Search finds every chunk that has a vector of its own, for any number   *)
(* of files, ingestions and migrations, at every step of a migration.      *)
THEOREM SearchIsServed == DocumentsSpec => [](DocumentsTypeOK /\ ActiveBackendServes)
<1>1. DocumentsInv /\ [DocumentsNext]_documentVars => DocumentsInv'
  <2> SUFFICES ASSUME DocumentsInv, [DocumentsNext]_documentVars PROVE DocumentsInv'
    OBVIOUS
  <2>1. CASE UNCHANGED documentVars
    BY <2>1 DEF documentVars, DocumentsInv, RowsAreTyped, StoresAreTyped, IngestTyped,
         MigrationCovers, AllServed
  <2>2. CASE DocumentsNext
    BY <2>2, ReadingKeepsDocuments, StoreKeepsDocuments, WriteLanceKeepsDocuments,
       MigrationKeepsDocuments DEF DocumentsNext
  <2> QED BY <2>1, <2>2
<1> QED BY <1>1, DocumentsInitInv, DocumentsFollow, PTL DEF DocumentsSpec

---------------------------------------------------------------------------
(* Documents, the chunker. The scan over the lines is a recursive        *)
(* function; what is carried from line to line is that the pieces cut so *)
(* far follow one another up to the line before the piece begun, and     *)
(* that the piece begun is within the ceiling (Scanned).                 *)

IsPart(t, s, a, b) ==
  /\ Len(t) = IF a <= b THEN (b - a) + 1 ELSE 0
  /\ \A i \in 1..Len(t) : a + (i - 1) \in 1..Len(s) /\ t[i] = s[a + (i - 1)]

LEMMA PartOfSeq ==
  ASSUME NEW S, NEW s \in Seq(S), NEW a \in Nat \ {0}, NEW b \in 0..Len(s),
         NEW t, t = SubSeq(s, a, b)
  PROVE  t \in Seq(S) /\ IsPart(t, s, a, b)
<1>1. Len(s) \in Nat
  OBVIOUS
<1>2. PICK m \in Nat : m = IF a <= b THEN (b - a) + 1 ELSE 0
  <2>1. CASE a <= b
    BY <1>1, <2>1
  <2>2. CASE ~(a <= b)
    BY <2>2
  <2> QED BY <2>1, <2>2
<1>3. t = [i \in 1..m |-> s[a + (i - 1)]]
  <2>1. t = [i \in 1..((b - a) + 1) |-> s[(a + i) - 1]]
    BY <1>1
  <2>2. 1..((b - a) + 1) = 1..m
    BY <1>1, <1>2
  <2>3. \A i \in 1..m : (a + i) - 1 = a + (i - 1)
    BY <1>1
  <2> QED BY <2>1, <2>2, <2>3
<1>4. \A i \in 1..m : a + (i - 1) \in 1..Len(s) /\ s[a + (i - 1)] \in S
  BY <1>1, <1>2
<1>5. t \in Seq(S) /\ Len(t) = m
  BY <1>2, <1>3, <1>4
<1> QED BY <1>2, <1>3, <1>4, <1>5 DEF IsPart

LineTokens(s) == [n \in DOMAIN s |-> s[n].tokens]

LEMMA TokensAreSum ==
  ASSUME NEW s
  PROVE  Tokens(s) = SumTo(LineTokens(s), Len(s))
BY DEF Tokens, SumTo, LineTokens

LEMMA LineTokensType ==
  ASSUME NEW s \in Seq(Line)
  PROVE  Len(s) \in Nat /\ \A k \in 1..Len(s) : LineTokens(s)[k] = s[k].tokens /\ LineTokens(s)[k] \in Nat
<1>1. Len(s) \in Nat /\ DOMAIN s = 1..Len(s)
  OBVIOUS
<1>2. ASSUME NEW k \in 1..Len(s) PROVE s[k].tokens \in Nat
  <2>1. PICK l \in Line : l = s[k]
    BY SeqElement
  <2> QED BY <2>1, DocumentAssumption
<1> QED BY <1>1, <1>2 DEF LineTokens

LEMMA TokensType ==
  ASSUME NEW s \in Seq(Line)
  PROVE  Tokens(s) \in Nat
<1>1. PICK n, f : n \in Nat /\ n = Len(s) /\ f = LineTokens(s) /\ \A k \in 1..n : f[k] \in Nat
  BY LineTokensType
<1> QED BY <1>1, SumToNat, TokensAreSum

LEMMA TokensOfNone ==
  ASSUME NEW s, Len(s) = 0
  PROVE  Tokens(s) = 0
BY SumToZero, TokensAreSum

(* A line more is its tokens more. *)
LEMMA TokensGrow ==
  ASSUME NEW s \in Seq(Line), NEW a \in Nat \ {0}, NEW b \in 1..Len(s), a <= b
  PROVE  Tokens(SubSeq(s, a, b - 1)) <= Tokens(SubSeq(s, a, b))
<1>1. PICK c \in 0..Len(s) : c = b - 1
  OBVIOUS
<1>2. PICK t : t = SubSeq(s, a, b)
  OBVIOUS
<1>3. PICK u : u = SubSeq(s, a, c)
  OBVIOUS
<1>4. t \in Seq(Line) /\ IsPart(t, s, a, b)
  <2>1. b \in 0..Len(s)
    OBVIOUS
  <2> QED BY <1>2, <2>1, PartOfSeq
<1>5. u \in Seq(Line) /\ IsPart(u, s, a, c)
  BY <1>1, <1>3, PartOfSeq
<1>6. PICK n \in Nat : n = Len(u) /\ Len(t) = n + 1
  BY <1>1, <1>4, <1>5 DEF IsPart
<1>7. \A k \in 1..n : t[k] = u[k]
  BY <1>4, <1>5, <1>6 DEF IsPart
<1>8. PICK f, g : f = LineTokens(t) /\ g = LineTokens(u)
  OBVIOUS
<1>9. /\ \A k \in 1..(n + 1) : f[k] = t[k].tokens /\ f[k] \in Nat
      /\ \A k \in 1..n : g[k] = u[k].tokens /\ g[k] \in Nat
  BY <1>4, <1>5, <1>6, <1>8, LineTokensType
<1>10. Terms(f, n + 1) /\ Terms(f, n) /\ \A k \in 1..n : g[k] = f[k]
  <2>1. 1..n \subseteq 1..(n + 1)
    OBVIOUS
  <2>2. Terms(f, n + 1)
    BY <1>9 DEF Terms
  <2>3. Terms(f, n)
    BY <2>1, <2>2 DEF Terms
  <2>4. \A k \in 1..n : g[k] = f[k]
    BY <1>7, <1>9, <2>1
  <2> QED BY <2>2, <2>3, <2>4
<1>11. SumTo(f, n + 1) = SumTo(f, n) + f[n + 1]
  BY <1>10, SumToStep
<1>12. SumTo(g, n) = SumTo(f, n) /\ SumTo(f, n) \in Int
  BY <1>10, SumToSame, SumToType
<1>13. f[n + 1] \in Nat
  BY <1>9
<1>14. SumTo(g, n) <= SumTo(f, n + 1)
  BY <1>11, <1>12, <1>13
<1> QED BY <1>1, <1>2, <1>3, <1>6, <1>8, <1>14, TokensAreSum

LEMMA PartTokens ==
  ASSUME NEW s \in Seq(Line), NEW a \in Nat \ {0}, NEW b \in Int, b >= 0, b <= Len(s)
  PROVE  Tokens(SubSeq(s, a, b)) \in Nat
<1>1. PICK t : t = SubSeq(s, a, b)
  OBVIOUS
<1>2. t \in Seq(Line)
  <2>1. b \in 0..Len(s)
    OBVIOUS
  <2> QED BY <1>1, <2>1, PartOfSeq
<1> QED BY <1>1, <1>2, TokensType

LEMMA NoLines ==
  ASSUME NEW s \in Seq(Line), NEW n \in 1..(Len(s) + 1)
  PROVE  Tokens(SubSeq(s, n, n - 1)) = 0
<1>1. PICK b \in 0..Len(s) : b = n - 1
  OBVIOUS
<1>2. PICK t : t = SubSeq(s, n, b)
  OBVIOUS
<1>3. IsPart(t, s, n, b)
  <2>1. n \in Nat \ {0} /\ s \in Seq(Line)
    OBVIOUS
  <2> QED BY <1>2, <2>1, PartOfSeq
<1>4. Len(t) = 0
  BY <1>1, <1>3 DEF IsPart
<1> QED BY <1>1, <1>2, <1>4, TokensOfNone

-----------------------------------------------------------------------------
Cuts == [line_start : Nat, line_end : Nat]

(* The chunks cut so far cover the lines up to the given one.              *)
CutTo(s, cut, end) ==
  /\ cut \in Seq(Cuts)
  /\ \A k \in 1..Len(cut) :
       /\ cut[k].line_start = (IF k = 1 THEN 1 ELSE cut[k - 1].line_end + 1)
       /\ cut[k].line_start <= cut[k].line_end
       /\ Tokens(SubSeq(s, cut[k].line_start, cut[k].line_end - 1)) <= Ceiling
  /\ end = IF cut = <<>> THEN 0 ELSE cut[Len(cut)].line_end

LEMMA CutOneMore ==
  ASSUME NEW s, NEW cut, NEW end, CutTo(s, cut, end), NEW a \in Nat, a = end + 1,
         NEW b \in Nat, a <= b, Tokens(SubSeq(s, a, b - 1)) <= Ceiling, NEW c,
         c = Append(cut, Piece(a, b))
  PROVE  CutTo(s, c, b)
<1>1. PICK p \in Cuts : p = Piece(a, b) /\ p.line_start = a /\ p.line_end = b
  BY DEF Cuts, Piece
<1>2. cut \in Seq(Cuts) /\ Len(cut) \in Nat
  BY DEF CutTo
<1>3. /\ c \in Seq(Cuts) /\ Len(c) = Len(cut) + 1 /\ DOMAIN cut = 1..Len(cut)
      /\ \A i \in DOMAIN cut : c[i] = cut[i]
      /\ c[Len(cut) + 1] = p
  BY <1>1, <1>2, AppendSeq
<1>4. ASSUME NEW k \in 1..Len(c)
      PROVE  /\ c[k].line_start = (IF k = 1 THEN 1 ELSE c[k - 1].line_end + 1)
             /\ c[k].line_start <= c[k].line_end
             /\ Tokens(SubSeq(s, c[k].line_start, c[k].line_end - 1)) <= Ceiling
  <2>1. CASE k <= Len(cut)
    <3>1. k \in 1..Len(cut) /\ c[k] = cut[k] /\ (k # 1 => c[k - 1] = cut[k - 1])
      BY <1>2, <1>3, <2>1
    <3> QED BY <3>1 DEF CutTo
  <2>2. CASE k = Len(cut) + 1
    <3>1. c[k] = p
      BY <1>3, <2>2
    <3>2. CASE k = 1
      <4>1. end = 0
        <5>1. cut = <<>>
          BY <1>2, <2>2, <3>2
        <5> QED BY <5>1 DEF CutTo
      <4> QED BY <1>1, <3>1, <3>2, <4>1
    <3>3. CASE k # 1
      <4>1. Len(cut) \in DOMAIN cut /\ cut # <<>> /\ k - 1 = Len(cut)
        BY <1>2, <1>3, <2>2, <3>3
      <4>2. c[k - 1] = cut[Len(cut)] /\ end = cut[Len(cut)].line_end
        BY <1>3, <4>1 DEF CutTo
      <4> QED BY <1>1, <3>1, <3>3, <4>2
    <3> QED BY <3>2, <3>3
  <2>3. k <= Len(cut) \/ k = Len(cut) + 1
    BY <1>2, <1>3
  <2> QED BY <2>1, <2>2, <2>3
<1>5. c # <<>> /\ c[Len(c)].line_end = b
  BY <1>1, <1>2, <1>3
<1> QED BY <1>3, <1>4, <1>5 DEF CutTo

Accs == [cut : Seq(Cuts), start : Nat]

Scanned(s, acc, n) ==
  /\ acc \in Accs /\ acc.start \in 1..(n + 1)
  /\ CutTo(s, acc.cut, acc.start - 1)
  /\ Tokens(SubSeq(s, acc.start, n)) <= Ceiling

LEMMA ScanLineType ==
  ASSUME NEW s, NEW acc \in Accs, NEW n \in Nat
  PROVE  ScanLine(s, acc, n) \in Accs
<1>1. acc.cut \in Seq(Cuts) /\ acc.start \in Nat
  BY DEF Accs
<1> DEFINE flush == s[n].boundary /\ acc.start < n /\ Tokens(SubSeq(s, acc.start, n - 1)) >= Floor
<1>2. CASE n = 0
  <2>1. ~(acc.start < n)
    BY <1>1, <1>2
  <2>2. Piece(acc.start, n) \in Cuts
    BY <1>1 DEF Cuts, Piece
  <2>3. Append(acc.cut, Piece(acc.start, n)) \in Seq(Cuts)
    BY <1>1, <2>2, AppendSeq
  <2> QED BY <1>1, <1>2, <2>1, <2>3 DEF ScanLine, Accs
<1>3. CASE n # 0
  <2>1. PICK cut1 : cut1 = IF flush THEN Append(acc.cut, Piece(acc.start, LineBefore(n))) ELSE acc.cut
    OBVIOUS
  <2>2. PICK start1 : start1 = IF flush THEN n ELSE acc.start
    OBVIOUS
  <2>3. cut1 \in Seq(Cuts) /\ start1 \in Nat
    <3>1. Piece(acc.start, LineBefore(n)) \in Cuts
      BY <1>1, <1>3 DEF Cuts, Piece, LineBefore
    <3>2. Append(acc.cut, Piece(acc.start, LineBefore(n))) \in Seq(Cuts)
      BY <1>1, <3>1, AppendSeq
    <3> HIDE DEF flush
    <3> QED BY <1>1, <2>1, <2>2, <3>2
  <2>4. Append(cut1, Piece(start1, n)) \in Seq(Cuts)
    <3>1. Piece(start1, n) \in Cuts
      BY <2>3 DEF Cuts, Piece
    <3> QED BY <2>3, <3>1, AppendSeq
  <2>5. PICK full : full = (Tokens(SubSeq(s, start1, n)) > Ceiling)
    OBVIOUS
  <2>6. ScanLine(s, acc, n) = [cut |-> IF full THEN Append(cut1, Piece(start1, n)) ELSE cut1,
                               start |-> IF full THEN n + 1 ELSE start1]
    BY <2>1, <2>2, <2>5 DEF ScanLine
  <2> QED BY <2>3, <2>4, <2>6 DEF Accs
<1> QED BY <1>2, <1>3

LEMMA ScanLineKeeps ==
  ASSUME NEW s \in Seq(Line), NEW n \in 1..Len(s), NEW acc, Scanned(s, acc, n - 1)
  PROVE  Scanned(s, ScanLine(s, acc, n), n)
<1>1. /\ acc \in Accs /\ acc.start \in 1..n /\ CutTo(s, acc.cut, acc.start - 1)
      /\ Tokens(SubSeq(s, acc.start, n - 1)) <= Ceiling
  BY DEF Scanned
<1> DEFINE flush == s[n].boundary /\ acc.start < n /\ Tokens(SubSeq(s, acc.start, n - 1)) >= Floor
<1>2. PICK cut1 : cut1 = IF flush THEN Append(acc.cut, Piece(acc.start, LineBefore(n))) ELSE acc.cut
  OBVIOUS
<1>3. PICK start1 : start1 = IF flush THEN n ELSE acc.start
  OBVIOUS
<1>4. PICK r : r = ScanLine(s, acc, n)
  OBVIOUS
<1>5. PICK full : full = (Tokens(SubSeq(s, start1, n)) > Ceiling)
  OBVIOUS
<1>6. r = [cut |-> IF full THEN Append(cut1, Piece(start1, n)) ELSE cut1,
           start |-> IF full THEN n + 1 ELSE start1]
  BY <1>2, <1>3, <1>4, <1>5 DEF ScanLine
<1>7. r \in Accs
  BY <1>1, <1>4, ScanLineType
(* What is flushed ends before the line, and the line opens a chunk.       *)
<1>8. /\ start1 \in 1..n /\ CutTo(s, cut1, start1 - 1)
      /\ Tokens(SubSeq(s, start1, n - 1)) <= Ceiling
  <2>1. CASE flush
    <3>1. PICK a \in Nat \ {0}, b \in Nat : a = acc.start /\ b = n - 1 /\ a <= b /\ b \in 1..Len(s)
      BY <1>1, <2>1
    <3>2. Tokens(SubSeq(s, a, b - 1)) <= Ceiling
      <4>1. Tokens(SubSeq(s, a, b - 1)) <= Tokens(SubSeq(s, a, b))
        BY <3>1, TokensGrow
      <4>2. Tokens(SubSeq(s, a, b - 1)) \in Nat /\ Tokens(SubSeq(s, a, b)) \in Nat
        <5>1. PICK c \in Int : c = b - 1 /\ c >= 0 /\ c <= Len(s)
          BY <3>1
        <5>2. Tokens(SubSeq(s, a, c)) \in Nat
          BY <5>1, PartTokens
        <5>3. b \in Int /\ b >= 0 /\ b <= Len(s)
          BY <3>1
        <5>4. Tokens(SubSeq(s, a, b)) \in Nat
          BY <5>3, PartTokens
        <5> QED BY <5>1, <5>2, <5>4
      <4> QED BY <1>1, <3>1, <4>1, <4>2, DocumentAssumption
    <3>3. cut1 = Append(acc.cut, Piece(a, b)) /\ start1 = n
      BY <1>2, <1>3, <2>1, <3>1 DEF LineBefore
    <3>4. PICK end : end = acc.start - 1 /\ CutTo(s, acc.cut, end) /\ a = end + 1
      BY <1>1, <3>1
    <3>5. CutTo(s, cut1, b)
      BY <3>1, <3>2, <3>3, <3>4, CutOneMore
    <3>6. Tokens(SubSeq(s, n, n - 1)) = 0
      BY NoLines
    <3> QED BY <3>1, <3>3, <3>5, <3>6, DocumentAssumption
  <2>2. CASE ~flush
    BY <1>1, <1>2, <1>3, <2>2
  <2> QED BY <2>1, <2>2
<1>9. CASE full
  <2>1. r.cut = Append(cut1, Piece(start1, n)) /\ r.start = n + 1
    BY <1>6, <1>9
  <2>2. PICK end : end = start1 - 1 /\ start1 = end + 1 /\ CutTo(s, cut1, end)
    BY <1>8
  <2>3. CutTo(s, r.cut, n)
    <3>1. start1 \in Nat /\ n \in Nat /\ start1 <= n
      BY <1>8
    <3> QED BY <1>8, <2>1, <2>2, <3>1, CutOneMore
  <2>4. Tokens(SubSeq(s, n + 1, n)) = 0
    <3>1. PICK m \in 1..(Len(s) + 1) : m = n + 1 /\ m - 1 = n
      OBVIOUS
    <3> QED BY <3>1, NoLines
  <2> QED BY <1>4, <1>7, <2>1, <2>3, <2>4, DocumentAssumption DEF Scanned
<1>10. CASE ~full
  <2>1. r.cut = cut1 /\ r.start = start1
    BY <1>6, <1>10
  <2>2. Tokens(SubSeq(s, start1, n)) <= Ceiling
    <3>1. Tokens(SubSeq(s, start1, n)) \in Nat
      <4>1. n \in Int /\ n >= 0 /\ n <= Len(s) /\ start1 \in Nat \ {0}
        BY <1>8
      <4> QED BY <4>1, PartTokens
    <3>2. ~(Tokens(SubSeq(s, start1, n)) > Ceiling)
      BY <1>5, <1>10, Zenon
    <3> QED BY <3>1, <3>2, DocumentAssumption
  <2> QED BY <1>4, <1>7, <1>8, <2>1, <2>2 DEF Scanned
<1> QED BY <1>5, <1>9, <1>10

(* The scan of a file: what is open after each of its lines.               *)
LEMMA ScanExists ==
  ASSUME NEW s \in Seq(Line)
  PROVE  \E scan, n :
           /\ n \in Nat /\ n = Len(s) /\ Scanned(s, scan[n], n)
           /\ Pieces(s) = IF scan[n].start > n THEN scan[n].cut
                          ELSE Append(scan[n].cut, Piece(scan[n].start, n))
<1>1. PICK n \in Nat : n = Len(s)
  OBVIOUS
<1>2. PICK T : T = Accs
  OBVIOUS
<1>3. PICK first : first = [cut |-> <<>>, start |-> 1]
  OBVIOUS
<1>4. first \in T
  BY <1>2, <1>3 DEF Accs
<1> DEFINE step == [p \in (1..n) \X T |-> ScanLine(s, p[2], p[1])]
           Rec(f) == [k \in 0..n |-> IF k = 0 THEN first ELSE ScanLine(s, f[k-1], k)]
           scan == CHOOSE f : f = Rec(f)
<1>5. step \in [(1..n) \X T -> T]
  BY <1>2, ScanLineType
<1>6. PICK g : Recursive(g, n, T, first, step)
  <2> HIDE DEF step
  <2> QED BY <1>4, <1>5, RecursionExists
<1>7. g \in [0..n -> T] /\ g[0] = first /\ \A k \in 1..n : g[k] = step[<<k, g[k-1]>>]
  BY <1>6 DEF Recursive
<1>8. ASSUME NEW k \in 1..n PROVE g[k] = ScanLine(s, g[k-1], k)
  <2>1. k - 1 \in 0..n
    OBVIOUS
  <2>2. <<k, g[k-1]>> \in (1..n) \X T
    BY <1>7, <2>1
  <2> QED BY <1>7, <2>2
<1>9. g = Rec(g)
  BY <1>7, <1>8
<1>10. scan = Rec(scan)
  <2> HIDE DEF Rec
  <2> QED BY <1>9
<1>11. scan[0] = first /\ \A k \in 1..n : scan[k] = ScanLine(s, scan[k-1], k)
  <2>1. \A k \in 0..n : scan[k] = IF k = 0 THEN first ELSE ScanLine(s, scan[k-1], k)
    <3> HIDE DEF scan
    <3> QED BY <1>10
  <2> HIDE DEF scan
  <2> QED BY <2>1
<1>12. Pieces(s) = IF scan[n].start > n THEN scan[n].cut
                   ELSE Append(scan[n].cut, Piece(scan[n].start, n))
  BY <1>1, <1>3 DEF Pieces
<1> HIDE DEF scan
<1> DEFINE S == {k \in Nat : k <= n => Scanned(s, scan[k], k)}
<1>13. 0 \in S
  <2>1. Scanned(s, first, 0)
    <3>1. Tokens(SubSeq(s, 1, 0)) = 0
      <4>1. PICK m \in 1..(Len(s) + 1) : m = 1 /\ m - 1 = 0
        BY <1>1
      <4> QED BY <4>1, NoLines
    <3>2. first.cut = <<>> /\ first.start = 1 /\ <<>> \in Seq(Cuts) /\ Len(<<>>) = 0
      BY <1>3
    <3>3. CutTo(s, <<>>, 0)
      BY <3>2 DEF CutTo
    <3> QED BY <1>2, <1>4, <3>1, <3>2, <3>3, DocumentAssumption DEF Scanned
  <2> QED BY <1>11, <2>1
<1>14. ASSUME NEW k \in Nat, k \in S, k + 1 <= n PROVE Scanned(s, scan[k+1], k + 1)
  <2>1. PICK m \in 1..Len(s) : m = k + 1 /\ m - 1 = k
    BY <1>1, <1>14
  <2>2. Scanned(s, scan[k], m - 1)
    BY <1>14, <2>1
  <2>3. Scanned(s, ScanLine(s, scan[k], m), m)
    BY <2>2, ScanLineKeeps
  <2>4. scan[m] = ScanLine(s, scan[k], m)
    BY <1>1, <1>11, <2>1
  <2> QED BY <2>1, <2>3, <2>4
<1>15. n \in S
  <2>1. \A k \in Nat : k \in S => k + 1 \in S
    BY <1>14
  <2> HIDE DEF S
  <2> QED BY <1>13, <2>1, SetInduction
<1>16. Scanned(s, scan[n], n)
  BY <1>15
<1> QED BY <1>1, <1>12, <1>16

LEMMA PiecesCover ==
  ASSUME NEW s \in Seq(Line)
  PROVE  CutTo(s, Pieces(s), Len(s))
<1>1. PICK scan, n :
        /\ n \in Nat /\ n = Len(s) /\ Scanned(s, scan[n], n)
        /\ Pieces(s) = IF scan[n].start > n THEN scan[n].cut
                       ELSE Append(scan[n].cut, Piece(scan[n].start, n))
  BY ScanExists
<1>2. PICK acc : acc = scan[n]
  OBVIOUS
<1>3. /\ acc.start \in 1..(n + 1) /\ CutTo(s, acc.cut, acc.start - 1)
      /\ Tokens(SubSeq(s, acc.start, n)) <= Ceiling
  BY <1>1, <1>2 DEF Scanned
<1>4. CASE acc.start > n
  <2>1. acc.start - 1 = n
    BY <1>1, <1>3, <1>4
  <2> QED BY <1>1, <1>2, <1>3, <1>4, <2>1
<1>5. CASE ~(acc.start > n)
  <2>1. PICK a \in Nat \ {0} : a = acc.start /\ a <= n /\ n \in 1..Len(s)
    BY <1>1, <1>3, <1>5
  <2>2. PICK end : end = acc.start - 1 /\ CutTo(s, acc.cut, end) /\ a = end + 1
    BY <1>3, <2>1
  <2>3. Tokens(SubSeq(s, a, n - 1)) <= Ceiling
    <3>1. Tokens(SubSeq(s, a, n - 1)) <= Tokens(SubSeq(s, a, n))
      BY <2>1, TokensGrow
    <3>2. Tokens(SubSeq(s, a, n - 1)) \in Nat /\ Tokens(SubSeq(s, a, n)) \in Nat
      <4>1. PICK c \in Int : c = n - 1 /\ c >= 0 /\ c <= Len(s)
        BY <1>1, <2>1
      <4>2. Tokens(SubSeq(s, a, c)) \in Nat
        BY <4>1, PartTokens
      <4>3. n \in Int /\ n >= 0 /\ n <= Len(s)
        BY <1>1
      <4>4. Tokens(SubSeq(s, a, n)) \in Nat
        BY <4>3, PartTokens
      <4> QED BY <4>1, <4>2, <4>4
    <3> QED BY <1>3, <2>1, <3>1, <3>2, DocumentAssumption
  <2>4. Pieces(s) = Append(acc.cut, Piece(a, n))
    BY <1>1, <1>2, <1>5, <2>1
  <2> QED BY <1>1, <2>1, <2>2, <2>3, <2>4, CutOneMore
<1> QED BY <1>4, <1>5

LEMMA LinesCovered == lines \in Seq(Line) => ChunksCoverFile
<1> SUFFICES ASSUME lines \in Seq(Line) PROVE ChunksCoverFile
  OBVIOUS
<1>1. CutTo(lines, Pieces(lines), Len(lines))
  BY PiecesCover
<1> QED BY <1>1 DEF CutTo, ChunksCoverFile, Last

(* The chunks of a file follow one another from its first line to its last *)
(* and only the last line of a chunk may take it over the ceiling, for     *)
(* every file and every ceiling.                                           *)
THEOREM ChunksCover == DocumentsSpec => []ChunksCoverFile
<1>1. DocumentsInit => lines \in Seq(Line)
  BY DEF DocumentsInit
<1>2. lines \in Seq(Line) /\ [DocumentsNext]_documentVars => (lines \in Seq(Line))'
  <2> SUFFICES ASSUME lines \in Seq(Line), [DocumentsNext]_documentVars PROVE lines' \in Seq(Line)
    OBVIOUS
  <2>1. ASSUME NEW l \in Line, ChunkNextLine(l) PROVE lines' \in Seq(Line)
    BY <2>1, AppendSeq DEF ChunkNextLine
  <2>2. CASE ~\E l \in Line : ChunkNextLine(l)
    <3>1. lines' = lines
      BY <2>2 DEF DocumentsNext, documentVars, EditFile, ReadBackend, IngestFails, ReadFile,
         StoreChunks, WriteLance, LoadEmbeddings, CopyEmbeddings, SwitchBackend, MigrationFails
    <3> QED BY <3>1
  <2> QED BY <2>1, <2>2
<1> QED BY <1>1, <1>2, LinesCovered, PTL DEF DocumentsSpec

---------------------------------------------------------------------------
(* Context. Each number of a step that was taken is in one entry of the  *)
(* history or among the steps dropped for the summary in the making      *)
(* (Covers, Apart), and the newest entries are single steps in their     *)
(* order (NewestLast), which is why a compaction that spares the newest  *)
(* entries spares the newest steps. The same holds of the history last   *)
(* saved.                                                                *)

Entries == [numbers : SUBSET Nat, kind : {"user", "act", "summary"}, bpe : Nat, est : Nat]

(* What a history and the steps taken out of it say of n steps.            *)
Covers(h, out, n) ==
  \A k \in Nat : (k \in out \/ \E i \in DOMAIN h : k \in h[i].numbers) <=> k \in 1..n
Apart(h, out) ==
  /\ \A i, j \in DOMAIN h : i # j => h[i].numbers \cap h[j].numbers = {}
  /\ \A i \in DOMAIN h : out \cap h[i].numbers = {}
(* The newest are at the end, each by itself and in their order.           *)
NewestLast(h, n) ==
  \A k \in 0..Preserve-1 : n - k >= 1 =>
    Len(h) - k >= 1 /\ h[Len(h) - k].numbers = {n - k}

Told(h, out, n) ==
  /\ h \in Seq(Entries) /\ n \in Nat /\ out \in SUBSET Nat
  /\ Covers(h, out, n) /\ Apart(h, out) /\ NewestLast(h, n)

LEMMA NumbersOf ==
  ASSUME NEW h \in Seq(Entries), NEW i \in DOMAIN h
  PROVE  h[i].numbers \in SUBSET Nat
<1>1. i \in 1..Len(h)
  OBVIOUS
<1>2. PICK e \in Entries : e = h[i]
  BY <1>1, SeqElement
<1> QED BY <1>2 DEF Entries

LEMMA ToldIsAccounted ==
  ASSUME NEW h, NEW out, NEW n, Told(h, out, n)
  PROVE  Accounted(h, out, n)
<1>1. h \in Seq(Entries) /\ n \in Nat /\ out \in SUBSET Nat /\ Preserve \in Nat
  BY ContextAssumption DEF Told
<1>2. \A i \in DOMAIN h : h[i].numbers \in SUBSET Nat
  BY <1>1, NumbersOf
<1>3. (UNION {h[i].numbers : i \in DOMAIN h}) \cup out = 1..n
  <2> DEFINE U == (UNION {h[i].numbers : i \in DOMAIN h}) \cup out
  <2>1. \A k : k \in U <=> k \in out \/ \E i \in DOMAIN h : k \in h[i].numbers
    OBVIOUS
  <2>2. \A k : k \in U => k \in Nat
    BY <1>1, <1>2, <2>1
  <2>3. \A k \in Nat : k \in U <=> k \in 1..n
    BY <2>1 DEF Told, Covers
  <2> HIDE DEF U
  <2>4. \A k : k \in U <=> k \in 1..n
    <3>1. \A k : k \in 1..n => k \in Nat
      BY <1>1
    <3> QED BY <2>2, <2>3, <3>1
  <2>5. U = 1..n
    BY <2>4, Zenon
  <2> QED BY <2>5 DEF U
<1>4. ASSUME NEW k \in 1..n, k > n - Preserve
      PROVE  \E i \in DOMAIN h : h[i].numbers = {k}
  <2>1. n - k \in 0..Preserve-1 /\ n - (n - k) = k /\ k >= 1
    BY <1>1, <1>4
  <2>2. Len(h) - (n - k) >= 1 /\ h[Len(h) - (n - k)].numbers = {k}
    BY <2>1 DEF Told, NewestLast
  <2>3. Len(h) - (n - k) \in DOMAIN h
    BY <1>1, <2>1, <2>2
  <2> QED BY <2>2, <2>3
<1> QED BY <1>3, <1>4 DEF Told, Apart, Accounted

LEMMA ToldNothing == Told(<<>>, {}, 0)
<1>1. <<>> \in Seq(Entries) /\ DOMAIN <<>> = {}
  OBVIOUS
<1>2. \A k \in 0..Preserve-1 : ~(0 - k >= 1)
  BY ContextAssumption
<1> QED BY <1>1, <1>2 DEF Told, Covers, Apart, NewestLast

LEMMA ToldOneMore ==
  ASSUME NEW h, NEW n, Told(h, {}, n), NEW e \in Entries, e.numbers = {n + 1}
  PROVE  Told(Append(h, e), {}, n + 1)
<1>1. h \in Seq(Entries) /\ n \in Nat /\ Preserve \in Nat
  BY ContextAssumption DEF Told
<1>2. PICK g \in Seq(Entries) : g = Append(h, e)
  BY <1>1, AppendSeq
<1>3. /\ Len(g) = Len(h) + 1 /\ DOMAIN g = 1..(Len(h) + 1) /\ DOMAIN h = 1..Len(h)
      /\ \A i \in DOMAIN h : i \in DOMAIN g /\ g[i] = h[i]
      /\ g[Len(h) + 1] = e /\ Len(h) \in Nat
  BY <1>1, <1>2, AppendSeq
<1>4. \A i \in DOMAIN g : i \in DOMAIN h \/ i = Len(h) + 1
  BY <1>3
<1>5. \A i \in DOMAIN h : \A k \in h[i].numbers : k \in 1..n
  BY <1>1, NumbersOf DEF Told, Covers
<1>6. Covers(g, {}, n + 1)
  <2> SUFFICES ASSUME NEW k \in Nat
               PROVE  (\E i \in DOMAIN g : k \in g[i].numbers) <=> k \in 1..(n + 1)
    BY DEF Covers
  <2>1. (\E i \in DOMAIN g : k \in g[i].numbers) <=>
          (\E i \in DOMAIN h : k \in h[i].numbers) \/ k = n + 1
    BY <1>3, <1>4
  <2>2. (\E i \in DOMAIN h : k \in h[i].numbers) <=> k \in 1..n
    BY DEF Told, Covers
  <2> QED BY <1>1, <2>1, <2>2
<1>7. Apart(g, {})
  <2>1. ASSUME NEW i \in DOMAIN g, NEW j \in DOMAIN g, i # j
        PROVE  g[i].numbers \cap g[j].numbers = {}
    <3>1. CASE i \in DOMAIN h /\ j \in DOMAIN h
      BY <1>3, <2>1, <3>1 DEF Told, Apart
    <3>2. CASE i = Len(h) + 1 /\ j \in DOMAIN h
      BY <1>1, <1>3, <1>5, <3>2
    <3>3. CASE j = Len(h) + 1 /\ i \in DOMAIN h
      BY <1>1, <1>3, <1>5, <3>3
    <3> QED BY <1>4, <2>1, <3>1, <3>2, <3>3
  <2> QED BY <2>1 DEF Apart
<1>8. NewestLast(g, n + 1)
  <2> SUFFICES ASSUME NEW k \in 0..Preserve-1, (n + 1) - k >= 1
               PROVE  Len(g) - k >= 1 /\ g[Len(g) - k].numbers = {(n + 1) - k}
    BY DEF NewestLast
  <2>1. CASE k = 0
    BY <1>1, <1>3, <2>1
  <2>2. CASE k # 0
    <3>1. PICK m \in 0..Preserve-1 : m = k - 1
      BY <1>1, <2>2
    <3>2. n - m >= 1 /\ n - m = (n + 1) - k /\ Len(g) - k = Len(h) - m
      BY <1>1, <1>3, <3>1
    <3>3. Len(h) - m >= 1 /\ h[Len(h) - m].numbers = {n - m}
      BY <3>2 DEF Told, NewestLast
    <3>4. Len(h) - m \in DOMAIN h
      BY <1>3, <3>3
    <3> QED BY <1>3, <3>2, <3>3, <3>4
  <2> QED BY <2>1, <2>2
<1> QED BY <1>1, <1>2, <1>6, <1>7, <1>8 DEF Told

LEMMA ToldCut ==
  ASSUME NEW h, NEW n, Told(h, {}, n), NEW d \in 1..Len(h), Len(h) - d >= Preserve
  PROVE  Told(SubSeq(h, d + 1, Len(h)), UNION {h[i].numbers : i \in 1..d}, n)
<1>1. h \in Seq(Entries) /\ n \in Nat /\ Preserve \in Nat /\ Len(h) \in Nat /\ DOMAIN h = 1..Len(h)
  BY ContextAssumption DEF Told
<1>2. PICK g : g = SubSeq(h, d + 1, Len(h))
  OBVIOUS
<1>3. /\ g \in Seq(Entries) /\ Len(g) = Len(h) - d /\ DOMAIN g = 1..(Len(h) - d)
      /\ \A i \in DOMAIN g : d + i \in DOMAIN h /\ g[i] = h[d + i]
  <2>1. d \in 0..Len(h)
    BY <1>1
  <2>2. PICK c : c = d + 1
    OBVIOUS
  <2>3. g = SubSeq(h, c, Len(h))
    BY <1>2, <2>2
  <2>4. g \in Seq(Entries) /\ RestOf(g, h, d)
    BY <1>1, <2>1, <2>2, <2>3, RestOfSeq
  <2> QED BY <2>4 DEF RestOf
<1>4. PICK out : out = UNION {h[i].numbers : i \in 1..d}
  OBVIOUS
<1>5. out \in SUBSET Nat
  BY <1>1, <1>4, NumbersOf
<1>6. \A i \in DOMAIN h : i \in 1..d \/ (i - d \in DOMAIN g /\ g[i - d] = h[i])
  <2> TAKE i \in DOMAIN h
  <2>1. CASE i > d
    <3>1. i - d \in DOMAIN g /\ d + (i - d) = i
      BY <1>1, <1>3, <2>1
    <3> QED BY <1>3, <3>1
  <2>2. CASE ~(i > d)
    BY <1>1, <2>2
  <2> QED BY <2>1, <2>2
<1>7. Covers(g, out, n)
  <2> SUFFICES ASSUME NEW k \in Nat
               PROVE  (k \in out \/ \E i \in DOMAIN g : k \in g[i].numbers) <=> k \in 1..n
    BY DEF Covers
  <2>1. (\E i \in DOMAIN h : k \in h[i].numbers) <=> k \in 1..n
    BY DEF Told, Covers
  <2>2. k \in out <=> \E i \in 1..d : k \in h[i].numbers
    BY <1>4
  <2>3. \A i \in 1..d : i \in DOMAIN h
    BY <1>1
  <2> QED BY <1>3, <1>6, <2>1, <2>2, <2>3
<1>8. Apart(g, out)
  <2>1. ASSUME NEW i \in DOMAIN g, NEW j \in DOMAIN g, i # j
        PROVE  g[i].numbers \cap g[j].numbers = {}
    <3>1. d + i # d + j
      BY <1>3, <2>1
    <3> QED BY <1>3, <3>1 DEF Told, Apart
  <2>2. ASSUME NEW i \in DOMAIN g, NEW j \in 1..d
        PROVE  h[j].numbers \cap g[i].numbers = {}
    <3>1. d + i # j /\ j \in DOMAIN h
      BY <1>1, <1>3
    <3> QED BY <1>3, <3>1 DEF Told, Apart
  <2>3. \A i \in DOMAIN g : out \cap g[i].numbers = {}
    BY <1>4, <2>2
  <2> QED BY <2>1, <2>3 DEF Apart
<1>9. NewestLast(g, n)
  <2> SUFFICES ASSUME NEW k \in 0..Preserve-1, n - k >= 1
               PROVE  Len(g) - k >= 1 /\ g[Len(g) - k].numbers = {n - k}
    BY DEF NewestLast
  <2>1. h[Len(h) - k].numbers = {n - k}
    BY DEF Told, NewestLast
  <2>2. PICK j : j = Len(g) - k
    OBVIOUS
  <2>3. j \in DOMAIN g /\ d + j = Len(h) - k /\ j >= 1
    BY <1>1, <1>3, <2>2
  <2>4. g[j] = h[d + j]
    BY <1>3, <2>3
  <2> QED BY <2>1, <2>2, <2>3, <2>4
<1> QED BY <1>1, <1>2, <1>3, <1>4, <1>5, <1>7, <1>8, <1>9 DEF Told

LEMMA ToldSummed ==
  ASSUME NEW h, NEW out, NEW n, Told(h, out, n), NEW e \in Entries, e.numbers = out
  PROVE  Told(<<e>> \o h, {}, n)
<1>1. h \in Seq(Entries) /\ n \in Nat /\ Preserve \in Nat /\ Len(h) \in Nat /\ DOMAIN h = 1..Len(h)
  BY ContextAssumption DEF Told
<1>2. PICK g : g = <<e>> \o h
  OBVIOUS
<1>3. /\ g \in Seq(Entries) /\ Len(g) = Len(h) + 1 /\ DOMAIN g = 1..(Len(h) + 1) /\ g[1] = e
      /\ \A i \in DOMAIN h : i + 1 \in DOMAIN g /\ g[i + 1] = h[i]
  BY <1>1, <1>2, PrependSeq
<1>4. \A i \in DOMAIN g : i = 1 \/ (i - 1 \in DOMAIN h /\ g[i] = h[i - 1])
  <2> TAKE i \in DOMAIN g
  <2>1. CASE i # 1
    <3>1. i - 1 \in DOMAIN h /\ (i - 1) + 1 = i
      BY <1>1, <1>3, <2>1
    <3> QED BY <1>3, <3>1
  <2> QED BY <2>1
<1>5. Covers(g, {}, n)
  <2> SUFFICES ASSUME NEW k \in Nat
               PROVE  (\E i \in DOMAIN g : k \in g[i].numbers) <=> k \in 1..n
    BY DEF Covers
  <2>1. (k \in out \/ \E i \in DOMAIN h : k \in h[i].numbers) <=> k \in 1..n
    BY DEF Told, Covers
  <2>2. 1 \in DOMAIN g
    BY <1>1, <1>3
  <2> QED BY <1>3, <1>4, <2>1, <2>2
<1>6. Apart(g, {})
  <2>1. ASSUME NEW i \in DOMAIN g, NEW j \in DOMAIN g, i # j
        PROVE  g[i].numbers \cap g[j].numbers = {}
    <3>1. CASE i = 1
      BY <1>3, <1>4, <2>1, <3>1 DEF Told, Apart
    <3>2. CASE j = 1
      BY <1>3, <1>4, <2>1, <3>2 DEF Told, Apart
    <3>3. CASE i # 1 /\ j # 1
      <4>1. i - 1 # j - 1
        BY <1>3, <2>1
      <4> QED BY <1>4, <3>3, <4>1 DEF Told, Apart
    <3> QED BY <3>1, <3>2, <3>3
  <2> QED BY <2>1 DEF Apart
<1>7. NewestLast(g, n)
  <2> SUFFICES ASSUME NEW k \in 0..Preserve-1, n - k >= 1
               PROVE  Len(g) - k >= 1 /\ g[Len(g) - k].numbers = {n - k}
    BY DEF NewestLast
  <2>1. Len(h) - k >= 1 /\ h[Len(h) - k].numbers = {n - k}
    BY DEF Told, NewestLast
  <2>2. Len(h) - k \in DOMAIN h /\ (Len(h) - k) + 1 = Len(g) - k
    BY <1>1, <1>3, <2>1
  <2>3. g[Len(g) - k] = h[Len(h) - k] /\ Len(g) - k \in DOMAIN g
    BY <1>3, <2>2
  <2> QED BY <1>3, <2>1, <2>3
<1> QED BY <1>1, <1>2, <1>3, <1>5, <1>6, <1>7 DEF Told

-----------------------------------------------------------------------------
ContextInv ==
  /\ loop \in {"top", "compact", "summarize", "ask", "act"}
  /\ Told(steps, dropped, total) /\ Told(saved.steps, {}, saved.total)
  /\ loop # "summarize" => dropped = {}

(* The compaction takes out the fewest of the oldest that are enough, and  *)
(* so leaves the newest.                                                   *)
LEMMA CompactionSpares ==
  ASSUME steps \in Seq(Entries)
  PROVE  /\ DropCount \in 0..Len(steps)
         /\ DropCount > 0 => Len(steps) - DropCount >= Preserve
<1>1. Len(steps) \in Nat /\ Preserve \in Nat
  BY ContextAssumption
<1> DEFINE T == {c \in 0..Len(steps) : Enough(c)}
<1>2. T \in SUBSET Nat /\ T # {}
  <2>1. Enough(Len(steps))
    BY <1>1 DEF Enough
  <2>2. Len(steps) \in 0..Len(steps)
    BY <1>1
  <2> HIDE DEF Enough
  <2> QED BY <2>1, <2>2
<1>3. PICK m \in T : \A k \in T : m <= k
  <2> HIDE DEF T
  <2> QED BY <1>2, LeastElement
<1> HIDE DEF Enough
<1>4. m \in 0..Len(steps) /\ Enough(m) /\ \A c \in 0 .. m - 1 : ~Enough(c)
  <2>1. ASSUME NEW c \in 0 .. m - 1 PROVE ~Enough(c)
    <3>1. c \in 0..Len(steps) /\ ~(m <= c)
      BY <1>1, <1>3
    <3> QED BY <1>3, <3>1
  <2> QED BY <1>3, <2>1
<1>5. /\ DropCount \in 0..Len(steps) /\ Enough(DropCount)
      /\ \A c \in 0 .. DropCount - 1 : ~Enough(c)
  BY <1>4 DEF DropCount
<1>6. ASSUME DropCount > 0 PROVE Len(steps) - DropCount >= Preserve
  <2>1. PICK d \in 0..Len(steps) : d = DropCount
    BY <1>5
  <2>2. d - 1 \in 0 .. d - 1
    BY <1>1, <1>6, <2>1
  <2>3. ~Enough(d - 1)
    BY <1>5, <2>1, <2>2
  <2>4. ~(Len(steps) - (d - 1) <= Preserve)
    BY <2>3 DEF Enough
  <2> QED BY <1>1, <2>1, <2>4
<1> QED BY <1>5, <1>6

LEMMA AddStepTells ==
  ASSUME ContextInv, dropped = {}, NEW kind \in {"user", "act"}, NEW bpe \in Size, NEW est \in Size,
         AddStep(kind, bpe, est)
  PROVE  Told(steps', {}, total')
<1>1. Told(steps, {}, total) /\ total \in Nat
  BY DEF ContextInv, Told
<1>2. total' = total + 1 /\ total' \in Nat
  BY <1>1 DEF AddStep
<1>3. PICK e : e = Entry({total'}, kind, bpe, est)
  OBVIOUS
<1>4. e \in Entries /\ e.numbers = {total + 1}
  BY <1>2, <1>3, ContextAssumption DEF Entries, Entry
<1>5. steps' = Append(steps, e)
  BY <1>3 DEF AddStep
<1> QED BY <1>1, <1>2, <1>4, <1>5, ToldOneMore

LEMMA ContextStep ==
  ASSUME ContextInv, ContextNext
  PROVE  ContextInv'
<1>1. ASSUME NEW bpe \in Size, NEW est \in Size, ClaimMessage(bpe, est) PROVE ContextInv'
  <2>1. dropped = {} /\ Told(steps', {}, total')
    BY <1>1, AddStepTells DEF ContextInv, ClaimMessage
  <2>2. saved'.total = total' /\ saved'.steps = steps'
    BY <1>1 DEF ClaimMessage, SaveCheckpoint
  <2> QED BY <1>1, <2>1, <2>2 DEF ContextInv, ClaimMessage
<1>2. ASSUME NEW bpe \in Size, NEW est \in Size, EndCompaction(bpe, est) PROVE ContextInv'
  <2>1. PICK e : e = Entry(dropped, "summary", bpe, est)
    OBVIOUS
  <2>2. e \in Entries /\ e.numbers = dropped
    BY <2>1, ContextAssumption DEF Entries, Entry, ContextInv, Told
  <2>3. steps' = <<e>> \o steps
    BY <1>2, <2>1 DEF EndCompaction
  <2>4. Told(steps', {}, total)
    BY <2>2, <2>3, ToldSummed DEF ContextInv
  <2> QED BY <1>2, <2>4 DEF ContextInv, EndCompaction
<1>3. ASSUME NEW bpe \in Size, NEW est \in Size, Act(bpe, est) PROVE ContextInv'
  <2>1. dropped = {} /\ Told(steps', {}, total')
    BY <1>3, AddStepTells DEF ContextInv, Act
  <2> QED BY <1>3, <2>1 DEF ContextInv, Act
<1>4. CASE NoMessage
  <2>1. saved'.total = total' /\ saved'.steps = steps'
    BY <1>4 DEF NoMessage, SaveCheckpoint
  <2> QED BY <1>4, <2>1 DEF ContextInv, NoMessage
<1>5. CASE Fits
  BY <1>5 DEF ContextInv, Fits
<1>6. CASE BeginCompaction
  <2>1. Told(steps, {}, total) /\ steps \in Seq(Entries)
    BY <1>6 DEF ContextInv, BeginCompaction, Told
  <2>2. PICK d : d = DropCount
    OBVIOUS
  <2>3. d \in 1..Len(steps) /\ Len(steps) - d >= Preserve
    BY <1>6, <2>1, <2>2, CompactionSpares DEF BeginCompaction
  <2>4. /\ steps' = SubSeq(steps, d + 1, Len(steps))
        /\ dropped' = UNION {steps[i].numbers : i \in 1 .. d}
    BY <1>6, <2>2 DEF BeginCompaction
  <2>5. Told(steps', dropped', total)
    BY <2>1, <2>3, <2>4, ToldCut
  <2> QED BY <1>6, <2>5 DEF ContextInv, BeginCompaction
<1>7. CASE Interrupted
  BY <1>7 DEF ContextInv, Interrupted
<1>8. CASE EndRun
  <2>1. saved'.total = total' /\ saved'.steps = steps'
    BY <1>8 DEF EndRun, SaveCheckpoint
  <2> QED BY <1>8, <2>1 DEF ContextInv, EndRun
<1>9. ASSUME NEW system, NEW offered, AssemblePrompt(system, offered) PROVE ContextInv'
  <2>1. loop' = "act" /\ loop = "ask" /\ UNCHANGED <<total, steps, saved, dropped>>
    BY <1>9 DEF AssemblePrompt
  <2> QED BY <2>1 DEF ContextInv
<1> QED BY <1>1, <1>2, <1>3, <1>4, <1>5, <1>6, <1>7, <1>8, <1>9 DEF ContextNext

(* Every step of a run is in its history once, by itself or in a summary   *)
(* (written, or in the making), whatever is compacted and wherever a run   *)
(* is cut off and begins again from what it saved, for every window and    *)
(* every number of steps preserved.                                        *)
THEOREM NothingIsForgotten == ContextSpec => []NothingForgotten
<1>1. ContextInit => ContextInv
  BY ToldNothing DEF ContextInit, ContextInv
<1>2. ContextInv /\ [ContextNext]_contextVars => ContextInv'
  <2>1. ContextInv /\ UNCHANGED contextVars => ContextInv'
    BY DEF ContextInv, contextVars
  <2> QED BY <2>1, ContextStep
<1>3. ContextInv => NothingForgotten
  BY ToldIsAccounted DEF ContextInv, NothingForgotten
<1> QED BY <1>1, <1>2, <1>3, PTL DEF ContextSpec

-----------------------------------------------------------------------------
(* The tokens of a sequence are a number.                                  *)
LEMMA SumType == ASSUME NEW s \in Seq(Nat) PROVE Sum(s) \in Nat
<1>1. PICK n \in Nat : n = Len(s)
  OBVIOUS
<1>2. \A k \in 1..n : s[k] \in Nat
  BY <1>1, SeqElement
<1>3. SumTo(s, n) \in Nat
  BY <1>2, SumToNat
<1> QED BY <1>1, <1>3 DEF Sum, SumTo

LEMMA ConcatIn == ASSUME NEW S, NEW s \in Seq(S), NEW t \in Seq(S) PROVE s \o t \in Seq(S)
OBVIOUS

(* A sequence of sequences, one after the other.                           *)
LEMMA FlattenType ==
  ASSUME NEW S, NEW q \in Seq(Seq(S))
  PROVE  FlattenSeq(q) \in Seq(S)
<1>1. PICK n \in Nat : n = Len(q)
  OBVIOUS
<1>2. \A k \in 1..n : q[k] \in Seq(S)
  BY <1>1, SeqElement
<1>3. CASE n = 0
  <2>1. FlattenSeq(q) = <<>>
    <3>1. PICK T : T = Seq(S)
      OBVIOUS
    <3>2. q \in Seq(T) /\ Len(q) = 0
      BY <1>1, <1>3, <3>1
    <3>3. q = <<>>
      BY <3>2
    <3> QED BY <3>3 DEF FlattenSeq
  <2> QED BY <2>1
<1>4. CASE n # 0
  <2> DEFINE T == Seq(S)
             step == [p \in (1..n) \X T |-> IF p[1] = 1 THEN q[p[1]] ELSE p[2] \o q[p[1]]]
             Rec(g) == [i \in 1..n |-> IF i = 1 THEN q[i] ELSE g[i-1] \o q[i]]
             flat == CHOOSE g : g = Rec(g)
  <2>1. step \in [(1..n) \X T -> T] /\ <<>> \in T
    BY <1>2, ConcatIn
  <2>2. PICK g : Recursive(g, n, T, <<>>, step)
    <3> HIDE DEF step, T
    <3> QED BY <2>1, RecursionExists
  <2>3. g \in [0..n -> T] /\ \A k \in 1..n : g[k] = step[<<k, g[k-1]>>]
    <3> HIDE DEF step, T
    <3> QED BY <2>2 DEF Recursive
  <2>4. ASSUME NEW k \in 1..n PROVE g[k] = IF k = 1 THEN q[k] ELSE g[k-1] \o q[k]
    <3>1. k - 1 \in 0..n
      OBVIOUS
    <3>2. <<k, g[k-1]>> \in (1..n) \X T
      <4> HIDE DEF T, step
      <4> QED BY <2>3, <3>1
    <3>3. g[k] = step[<<k, g[k-1]>>]
      <4> HIDE DEF T, step
      <4> QED BY <2>3
    <3> HIDE DEF T
    <3> QED BY <3>2, <3>3
  <2> DEFINE h == [k \in 1..n |-> g[k]]
  <2>5. h = Rec(h)
    <3>1. ASSUME NEW k \in 1..n PROVE h[k] = IF k = 1 THEN q[k] ELSE h[k-1] \o q[k]
      <4>1. k # 1 => k - 1 \in 1..n
        OBVIOUS
      <4> QED BY <2>4, <4>1
    <3> HIDE DEF h
    <3>2. h = [k \in 1..n |-> h[k]]
      BY DEF h
    <3> QED BY <3>1, <3>2
  <2>6. flat = Rec(flat)
    <3> HIDE DEF Rec
    <3> QED BY <2>5
  <2>7. \A k \in 1..n : flat[k] = IF k = 1 THEN q[k] ELSE flat[k-1] \o q[k]
    <3> HIDE DEF flat
    <3> QED BY <2>6
  <2> DEFINE e == [k \in 0..n |-> IF k = 0 THEN <<>> ELSE flat[k]]
  <2>8. e[0] \in T /\ \A k \in 1..n : e[k-1] \in T => e[k] \in T
    <3>1. e[0] = <<>>
      OBVIOUS
    <3>2. ASSUME NEW k \in 1..n, e[k-1] \in T PROVE e[k] \in T
      <4>1. e[k] = flat[k] /\ (k # 1 => e[k-1] = flat[k-1])
        OBVIOUS
      <4>2. CASE k = 1
        BY <1>2, <2>7, <4>1, <4>2
      <4>3. CASE k # 1
        <5>1. flat[k-1] \in Seq(S) /\ q[k] \in Seq(S) /\ e[k] = flat[k-1] \o q[k]
          <6> HIDE DEF flat, e
          <6> QED BY <1>2, <2>7, <3>2, <4>1, <4>3
        <5> HIDE DEF flat, e
        <5> QED BY <5>1, ConcatIn
      <4> QED BY <4>2, <4>3
    <3> HIDE DEF e, T
    <3> QED BY <2>1, <3>1, <3>2
  <2>9. \A k \in 0..n : e[k] \in T
    <3> HIDE DEF e, T
    <3> QED BY <2>8, StaysIn
  <2>10. flat[n] \in Seq(S)
    <3> HIDE DEF flat
    <3> QED BY <1>4, <2>9
  <2>11. FlattenSeq(q) = flat[n]
    BY <1>1, <1>4 DEF FlattenSeq
  <2> QED BY <2>10, <2>11
<1> QED BY <1>3, <1>4

(* The messages of the history are sizes.                                  *)
LEMMA MessagesType == ASSUME steps \in Seq(Entries) PROVE Messages \in Seq(Nat)
<1> DEFINE q == [i \in DOMAIN steps |->
              IF steps[i].kind = "user" THEN <<steps[i].est>> ELSE <<steps[i].est, steps[i].est>>]
<1>1. DOMAIN steps = 1..Len(steps) /\ Len(steps) \in Nat
  OBVIOUS
<1>2. ASSUME NEW i \in DOMAIN steps PROVE q[i] \in Seq(Nat)
  <2>1. PICK e \in Entries : e = steps[i]
    BY <1>1, SeqElement
  <2>2. PICK n \in Nat : n = steps[i].est
    BY <2>1 DEF Entries
  <2>3. <<n>> \in Seq(Nat) /\ <<n, n>> \in Seq(Nat)
    OBVIOUS
  <2> QED BY <2>2, <2>3
<1>3. q \in Seq(Seq(Nat))
  BY <1>1, <1>2
<1>4. Messages = FlattenSeq(q)
  BY DEF Messages
<1> HIDE DEF q
<1> QED BY <1>3, <1>4, FlattenType

(* The newest that fit are messages: if none does, then none is enough.    *)
LEMMA NewestType ==
  ASSUME steps \in Seq(Entries), NEW room \in Nat
  PROVE  NewestThatFit(room) \in Seq(Nat)
<1>1. PICK m \in Seq(Nat) : m = Messages
  BY MessagesType
<1>2. PICK l \in Nat : l = Len(m)
  OBVIOUS
<1> DEFINE Left(k) == SubSeq(m, k + 1, l)
           T == {k \in 0..l : Sum(Left(k)) <= room}
<1>3. \A k \in 0..l : Left(k) \in Seq(Nat)
  BY <1>2
<1>4. \A k \in 0..l : Sum(Left(k)) \in Nat
  <2> HIDE DEF Left
  <2> QED BY <1>3, SumType
<1>5. l \in T
  <2>0. <<>> \in Seq(Nat)
    OBVIOUS
  <2>1. PICK z \in Seq(Nat) : z = <<>>
    BY <2>0
  <2>2. Left(l) = <<>>
    BY <1>2
  <2>3. Sum(z) = 0
    <3>1. Len(z) = 0
      BY <2>1
    <3>2. SumTo(z, 0) = 0
      BY SumToZero
    <3> QED BY <3>1, <3>2 DEF Sum, SumTo
  <2>4. l \in 0..l /\ 0 <= room
    OBVIOUS
  <2> HIDE DEF Left
  <2> QED BY <2>1, <2>2, <2>3, <2>4
<1>6. PICK k \in T : \A j \in T : k <= j
  <2>1. T \in SUBSET Nat /\ T # {}
    <3> HIDE DEF Left
    <3> QED BY <1>5
  <2> HIDE DEF T
  <2> QED BY <2>1, LeastElement
<1>7. k \in 0..l /\ Sum(Left(k)) <= room
  BY <1>6
<1>8. k > 0 => Sum(SubSeq(m, k, l)) > room
  <2> SUFFICES ASSUME k > 0 PROVE Sum(SubSeq(m, k, l)) > room
    OBVIOUS
  <2>1. k - 1 \in 0..l /\ (k - 1) + 1 = k /\ ~(k <= k - 1)
    BY <1>7
  <2>2. k - 1 \notin T
    <3> HIDE DEF T
    <3> QED BY <1>6, <2>1
  <2>3. Left(k - 1) = SubSeq(m, k, l)
    BY <2>1
  <2>4. ~(Sum(Left(k - 1)) <= room) /\ Sum(Left(k - 1)) \in Nat
    <3> HIDE DEF Left
    <3> QED BY <1>4, <2>1, <2>2
  <2>5. Sum(Left(k - 1)) > room
    <3> HIDE DEF Left
    <3> QED BY <2>4
  <2> HIDE DEF Left
  <2> QED BY <2>3, <2>5
<1> DEFINE Cut(j) == Sum(SubSeq(m, j + 1, l)) <= room /\ (j > 0 => Sum(SubSeq(m, j, l)) > room)
           n == CHOOSE j \in 0..l : Cut(j)
<1>9. n \in 0..l
  <2>1. Cut(k)
    BY <1>7, <1>8
  <2> HIDE DEF Cut
  <2> QED BY <1>7, <2>1
<1>10. NewestThatFit(room) = SubSeq(m, n + 1, l)
  BY <1>1, <1>2 DEF NewestThatFit
<1> HIDE DEF n
<1> QED BY <1>2, <1>9, <1>10

(* What is taken of what is offered are sizes.                             *)
LEMMA ExtrasType ==
  ASSUME NEW offered \in Seq(Nat), NEW room
  PROVE  Extras(offered, room) \in Seq(Nat)
<1>0. PICK n \in Nat : n = Len(offered)
  OBVIOUS
<1> DEFINE T == Seq(Nat)
           more(s, k) == IF Sum(s) + offered[k] < room THEN Append(s, offered[k]) ELSE s
           step == [p \in (1..n) \X T |-> more(p[2], p[1])]
           Rec(g) == [k \in 0..n |->
                        IF k = 0 THEN <<>>
                        ELSE IF Sum(g[k-1]) + offered[k] < room THEN Append(g[k-1], offered[k])
                        ELSE g[k-1]]
           kept == CHOOSE g : g = Rec(g)
<1>1. ASSUME NEW k \in 1..n, NEW s \in T PROVE more(s, k) \in T
  <2>1. offered[k] \in Nat
    BY <1>0, SeqElement
  <2> QED BY <2>1, AppendSeq
<1>2. step \in [(1..n) \X T -> T] /\ <<>> \in T
  <2> HIDE DEF more
  <2> QED BY <1>1
<1>3. PICK g : Recursive(g, n, T, <<>>, step)
  <2> HIDE DEF step, T
  <2> QED BY <1>2, RecursionExists
<1>4. g \in [0..n -> T] /\ g[0] = <<>> /\ \A k \in 1..n : g[k] = step[<<k, g[k-1]>>]
  <2> HIDE DEF step, T
  <2> QED BY <1>3 DEF Recursive
<1>5. ASSUME NEW k \in 1..n PROVE g[k] = more(g[k-1], k)
  <2>1. k - 1 \in 0..n
    OBVIOUS
  <2>2. <<k, g[k-1]>> \in (1..n) \X T
    <3> HIDE DEF T, step
    <3> QED BY <1>4, <2>1
  <2> HIDE DEF more, T
  <2> QED BY <1>4, <2>2
<1>6. g = Rec(g)
  <2>1. ASSUME NEW k \in 0..n
        PROVE  g[k] = IF k = 0 THEN <<>>
                      ELSE IF Sum(g[k-1]) + offered[k] < room THEN Append(g[k-1], offered[k])
                      ELSE g[k-1]
    <3>1. k # 0 => k \in 1..n
      OBVIOUS
    <3> QED BY <1>4, <1>5, <3>1
  <2>2. g = [k \in 0..n |-> g[k]]
    <3> HIDE DEF T, step
    <3> QED BY <1>4
  <2> QED BY <2>1, <2>2
<1>7. kept = Rec(kept)
  <2> HIDE DEF Rec
  <2> QED BY <1>6
<1>8. \A k \in 0..n : kept[k] = IF k = 0 THEN <<>> ELSE more(kept[k-1], k)
  <2> HIDE DEF kept
  <2> QED BY <1>7
<1>9. kept[0] \in T /\ \A k \in 1..n : kept[k-1] \in T => kept[k] \in T
  <2>1. \A k \in 1..n : kept[k] = more(kept[k-1], k)
    <3> HIDE DEF kept, more
    <3> QED BY <1>8
  <2>2. kept[0] = <<>>
    <3> HIDE DEF kept, more
    <3> QED BY <1>8
  <2> HIDE DEF kept, more, T
  <2> QED BY <1>1, <1>2, <2>1, <2>2
<1>10. \A k \in 0..n : kept[k] \in T
  <2> HIDE DEF kept, T
  <2> QED BY <1>9, StaysIn
<1>11. Extras(offered, room) = kept[n]
  BY <1>0 DEF Extras
<1> HIDE DEF kept
<1> QED BY <1>10, <1>11

(* What a history tells of n steps are numbers up to n.                    *)
LEMMA ToldWithin ==
  ASSUME NEW h, NEW out, NEW n, Told(h, out, n), NEW m \in Nat, n <= m
  PROVE  /\ out \subseteq 1..m
         /\ h \in Seq([numbers : SUBSET (1..m), kind : {"user", "act", "summary"},
                       bpe : Nat, est : Nat])
<1>1. h \in Seq(Entries) /\ n \in Nat /\ out \in SUBSET Nat /\ Covers(h, out, n)
  BY DEF Told
<1>2. \A k \in 1..n : k \in 1..m
  BY <1>1
<1>3. out \subseteq 1..m
  BY <1>1, <1>2 DEF Covers
<1>4. PICK T : T = [numbers : SUBSET (1..m), kind : {"user", "act", "summary"},
                    bpe : Nat, est : Nat]
  OBVIOUS
<1>5. ASSUME NEW i \in DOMAIN h PROVE h[i] \in T
  <2>1. PICK e \in Entries : e = h[i]
    BY <1>1, SeqElement
  <2>2. e.numbers \in SUBSET Nat
    BY DEF Entries
  <2>3. e.numbers \in SUBSET (1..m)
    BY <1>1, <1>2, <2>1, <2>2 DEF Covers
  <2> QED BY <1>4, <2>1, <2>3 DEF Entries
<1>6. PICK l \in Nat : l = Len(h) /\ DOMAIN h = 1..l /\ h = [i \in 1..l |-> h[i]]
  BY <1>1
<1>7. h \in [1..l -> T]
  BY <1>5, <1>6
<1>8. h \in Seq(T)
  BY <1>7
<1> QED BY <1>3, <1>4, <1>8

(* The counts of the steps, and the sizes of what the model is asked.      *)
PromptSizes == [system : Nat, extras : Seq(Nat), history : Seq(Nat)]

ContextTyped ==
  /\ total \in 0..MaxSteps /\ saved.total \in 0..total
  /\ prompt \in PromptSizes

LEMMA PromptType ==
  ASSUME steps \in Seq(Entries), NEW system \in Size, NEW offered \in Gathered,
         AssemblePrompt(system, offered)
  PROVE  prompt' \in PromptSizes
<1>1. offered \in Seq(Nat)
  <2>1. PICK m \in 0..2 : offered \in [1..m -> Size]
    BY DEF Gathered, BoundedSeq, SeqOf
  <2>2. offered \in [1..m -> Nat]
    BY <2>1, ContextAssumption
  <2> QED BY <2>2
<1>2. PICK room : room = IF system <= MaxTokens THEN MaxTokens - system ELSE -1
  OBVIOUS
<1>3. system \in Nat /\ (room < 0 \/ room \in Nat)
  BY <1>2, ContextAssumption
<1>4. PICK history : history = IF room < 0 THEN <<>> ELSE NewestThatFit(room)
  OBVIOUS
<1>5. <<>> \in Seq(Nat)
  OBVIOUS
<1>6. history \in Seq(Nat)
  BY <1>3, <1>4, <1>5, NewestType
<1>7. PICK extras : extras = Extras(offered, room - Sum(history))
  OBVIOUS
<1>8. extras \in Seq(Nat)
  BY <1>1, <1>7, ExtrasType
<1>9. prompt' = [system |-> system, history |-> history, extras |-> extras]
  BY <1>2, <1>4, <1>7 DEF AssemblePrompt
<1> QED BY <1>3, <1>6, <1>8, <1>9 DEF PromptSizes

LEMMA ContextKeepsTyped ==
  ASSUME ContextInv, ContextTyped, ContextNext
  PROVE  ContextTyped'
<1>0. NoPrompt \in PromptSizes
  <2>1. <<>> \in Seq(Nat)
    OBVIOUS
  <2> QED BY <2>1 DEF NoPrompt, PromptSizes
<1>1. MaxSteps \in Nat /\ total \in 0..MaxSteps /\ saved.total \in 0..total
  BY ContextAssumption DEF ContextTyped
<1>2. ASSUME NEW kind, NEW bpe, NEW est, AddStep(kind, bpe, est), total < MaxSteps
      PROVE  total' \in 0..MaxSteps /\ total \in 0..total' /\ total' \in 0..total'
             /\ saved.total \in 0..total' /\ prompt' \in PromptSizes
  BY <1>0, <1>1, <1>2 DEF AddStep
<1>3. SaveCheckpoint => saved'.total = total'
  BY DEF SaveCheckpoint
<1>4. ASSUME NEW bpe, NEW est, ClaimMessage(bpe, est) PROVE ContextTyped'
  BY <1>2, <1>3, <1>4 DEF ClaimMessage, ContextTyped
<1>5. ASSUME NEW bpe, NEW est, Act(bpe, est) PROVE ContextTyped'
  <2>1. saved'.total = saved.total
    BY <1>5 DEF Act
  <2> QED BY <1>2, <1>5, <2>1 DEF Act, ContextTyped
<1>6. ASSUME NEW bpe, NEW est, EndCompaction(bpe, est) PROVE ContextTyped'
  BY <1>6 DEF EndCompaction, ContextTyped
<1>7. CASE Fits \/ BeginCompaction
  BY <1>7 DEF Fits, BeginCompaction, ContextTyped
<1>8. CASE NoMessage \/ EndRun
  <2>1. total' = total /\ prompt' = prompt /\ saved'.total = total
    BY <1>3, <1>8 DEF NoMessage, EndRun
  <2> QED BY <1>1, <2>1 DEF ContextTyped
<1>9. CASE Interrupted
  <2>1. total' = saved.total /\ prompt' = NoPrompt /\ saved'.total = saved.total
    BY <1>9 DEF Interrupted
  <2>2. saved.total \in 0..MaxSteps /\ saved.total \in 0..saved.total
    BY <1>1
  <2> QED BY <1>0, <2>1, <2>2 DEF ContextTyped
<1>10. ASSUME NEW system \in Size, NEW offered \in Gathered, AssemblePrompt(system, offered)
       PROVE  ContextTyped'
  <2>1. UNCHANGED <<total, saved>>
    BY <1>10 DEF AssemblePrompt
  <2>2. prompt' \in PromptSizes
    BY <1>10, PromptType DEF ContextInv, Told
  <2> QED BY <2>1, <2>2 DEF ContextTyped
<1> QED BY <1>4, <1>5, <1>6, <1>7, <1>8, <1>9, <1>10 DEF ContextNext

(* A run's counts, its history and checkpoint and what it asks the model   *)
(* keep their shape: no step is numbered beyond the total, no checkpoint   *)
(* is ahead of the run, and a prompt is made of sizes however it is cut.   *)
THEOREM ContextTypes == ContextSpec => []ContextTypeOK
<1>1. ContextInit => ContextInv /\ ContextTyped
  <2> SUFFICES ASSUME ContextInit PROVE ContextInv /\ ContextTyped
    OBVIOUS
  <2>1. ContextInv
    BY ToldNothing DEF ContextInit, ContextInv
  <2>2. <<>> \in Seq(Nat) /\ 0 \in 0..MaxSteps /\ 0 \in 0..0
    BY ContextAssumption
  <2> QED BY <2>1, <2>2 DEF ContextInit, ContextTyped, PromptSizes, NoPrompt
<1>2. ContextInv /\ ContextTyped /\ [ContextNext]_contextVars => (ContextInv /\ ContextTyped)'
  <2>1. ContextInv /\ ContextTyped /\ UNCHANGED contextVars => (ContextInv /\ ContextTyped)'
    BY DEF ContextInv, ContextTyped, contextVars
  <2> QED BY <2>1, ContextStep, ContextKeepsTyped
<1>3. ContextInv /\ ContextTyped => ContextTypeOK
  <2> SUFFICES ASSUME ContextInv, ContextTyped PROVE ContextTypeOK
    OBVIOUS
  <2>1. total \in Nat /\ saved.total \in 0..total /\ total \in 0..MaxSteps
    BY ContextAssumption DEF ContextTyped
  <2>2. Told(steps, dropped, total) /\ Told(saved.steps, {}, saved.total)
    BY DEF ContextInv
  <2>3. total <= total /\ saved.total <= total
    BY <2>1
  <2> DEFINE T == Seq([numbers : SUBSET (1..total), kind : {"user", "act", "summary"},
                       bpe : Nat, est : Nat])
  <2>4. dropped \subseteq 1..total /\ steps \in T
    BY <2>1, <2>2, <2>3, ToldWithin
  <2>5. saved.steps \in T
    BY <2>1, <2>2, <2>3, ToldWithin
  <2>6. loop \in {"top", "compact", "summarize", "ask", "act"} /\ prompt \in PromptSizes
    BY DEF ContextInv, ContextTyped
  <2>7. \A h \in {steps, saved.steps} : h \in T
    <3> HIDE DEF T
    <3> QED BY <2>4, <2>5
  <2>8. prompt \in [system : Nat, extras : Seq(Nat), history : Seq(Nat)]
    BY <2>6 DEF PromptSizes
  <2> QED BY <2>1, <2>4, <2>6, <2>7, <2>8 DEF ContextTypeOK
<1> QED BY <1>1, <1>2, <1>3, PTL DEF ContextSpec

===========================================================================
