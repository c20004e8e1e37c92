----------------------------- MODULE Documents -----------------------------
(***************************************************************************)
(* The retrieval index of a project: document_rag.rs ingests files into    *)
(* chunk rows, the sqlite-vec table and, when it is the backend, LanceDB;  *)
(* vector_migration.rs moves all vectors to the other backend and switches *)
(* project_settings.vector_backend; document_chunker.rs cuts a file into   *)
(* chunks.  Every await of an ingestion and of a migration is a step.      *)
(*                                                                         *)
(* The chunks that one ingestion stores for a file stand together under    *)
(* one id.  A version is the hash of the content; version 0 is a file that *)
(* is missing, blank, binary or above 2 MB, all of which are skipped.      *)
(***************************************************************************)
EXTENDS Integers, Sequences, SequencesExt, FiniteSets

CONSTANTS
  File,        \* files of the workspace
  Ingestor,    \* concurrent calls of ingest_project
  Version,     \* contents of a file
  Floor,       \* tokens below which a boundary does not cut (80, 60 or 100)
  Ceiling,     \* tokens above which a chunk is cut at once (800, 750 or 600)
  Line         \* lines: [boundary : BOOLEAN, tokens : Nat]

ASSUME DocumentAssumption ==
  /\ Version \subseteq Nat \ {0}
  /\ Floor \in Nat /\ Ceiling \in Nat
  /\ Line \subseteq [boundary : BOOLEAN, tokens : Nat]

VARIABLES
  disk,        \* content of every file
  chunkRows,   \* table doc_chunks, one row for the chunks of one ingestion
  ingestState, \* table doc_ingest_state: hash of the indexed content, 0: no row
  vectors,     \* ids in vec_doc_chunks and in LanceDB's doc_chunks
  backend,     \* project_settings.vector_backend
  ingest,      \* the ingestions
  migration,   \* the migration
  nextChunk,   \* source of new ids
  missed,      \* ids of chunks whose own vector was not written, or not yet,
               \* or whose row was committed while a migration was under way
  lines        \* a file in the chunker

documentVars == <<disk, chunkRows, ingestState, vectors, backend, ingest,
                  migration, nextChunk, missed, lines>>

Backend == {"sqlite-vec", "lancedb"}
OtherBackend(b) == CHOOSE c \in Backend : c # b

NotIngesting == [step |-> "idle"]
NotMigrating == [step |-> "idle"]

DocumentsInit ==
  /\ disk \in [File -> Version \cup {0}]
  /\ chunkRows = {}
  /\ ingestState = [f \in File |-> 0]
  /\ vectors = [b \in Backend |-> {}]
  /\ backend = "sqlite-vec"
  /\ ingest = [i \in Ingestor |-> NotIngesting]
  /\ migration = NotMigrating
  /\ nextChunk = 1
  /\ missed = {}
  /\ lines = <<>>

-----------------------------------------------------------------------------
(* ingest_project, one file of it *)

\* The operator edits or removes a file.
EditFile(f, v) ==
  /\ disk[f] # v
  /\ disk' = [disk EXCEPT ![f] = v]
  /\ UNCHANGED <<chunkRows, ingestState, vectors, backend, ingest, migration,
                 nextChunk, missed, lines>>

\* walk_directory: the files there are.
Discovered == {f \in File : disk[f] # 0}

\* Read the file and compare its hash with the one that is indexed.
ReadFile(i, f) ==
  /\ ingest[i].step = "idle" /\ f \in Discovered
  /\ disk[f] # ingestState[f]
  /\ ingest' = [ingest EXCEPT ![i] = [step |-> "embed", file |-> f, version |-> disk[f]]]
  /\ UNCHANGED <<disk, chunkRows, ingestState, vectors, backend, migration,
                 nextChunk, missed, lines>>

\* delete_chunks_by_file: the rows of the file and their vectors of sqlite-vec;
\* those of LanceDB stay.
RowsOf(f) == {r \in chunkRows : r.file = f}
IdsOf(f) == {r.id : r \in RowsOf(f)}

\* The embeddings are there, and the backend is read.
ReadBackend(i) ==
  /\ ingest[i].step = "embed"
  /\ ingest' = [ingest EXCEPT ![i] = [step |-> "store", file |-> @.file, version |-> @.version,
                                     lance |-> backend = "lancedb"]]
  /\ UNCHANGED <<disk, chunkRows, ingestState, vectors, backend, migration,
                 nextChunk, missed, lines>>

\* A chunk's row, with its embedding if there is one.
ChunkRow(g, embedded) ==
  [id |-> nextChunk, file |-> g.file, version |-> g.version, embedded |-> embedded]

\* Then everything is stored in one write transaction.  Without a provider the
\* chunks have no vector, and an error of sqlite-vec is ignored.
StoreChunks(i, embedded, fails) ==
  LET g == ingest[i] IN
  /\ g.step = "store"
  /\ chunkRows' = (chunkRows \ RowsOf(g.file)) \cup {ChunkRow(g, embedded)}
  /\ vectors' = [vectors EXCEPT !["sqlite-vec"] =
       (@ \ IdsOf(g.file)) \cup (IF embedded /\ ~fails THEN {nextChunk} ELSE {})]
  /\ ingestState' = [ingestState EXCEPT ![g.file] = g.version]
  /\ nextChunk' = nextChunk + 1
  /\ ingest' = [ingest EXCEPT ![i] =
       IF embedded /\ g.lance
       THEN [step |-> "lance", file |-> g.file, id |-> nextChunk] ELSE NotIngesting]
  /\ missed' = IF embedded /\ (fails \/ backend = "lancedb" \/ migration.step # "idle")
               THEN missed \cup {nextChunk} ELSE missed
  /\ UNCHANGED <<disk, backend, migration, lines>>

\* The transaction fails, and the call with it.
IngestFails(i) ==
  /\ ingest[i].step \in {"embed", "store"}
  /\ ingest' = [ingest EXCEPT ![i] = NotIngesting]
  /\ UNCHANGED <<disk, chunkRows, ingestState, vectors, backend, migration,
                 nextChunk, missed, lines>>

\* batch_upsert: vectors of the same ids are replaced.
BatchUpsert(b, ids) == vectors' = [vectors EXCEPT ![b] = @ \cup ids]

\* batch_upsert into LanceDB after the commit; its error is ignored.
WriteLance(i, fails) ==
  LET g == ingest[i] IN
  /\ g.step = "lance"
  /\ ingest' = [ingest EXCEPT ![i] = NotIngesting]
  /\ IF fails THEN UNCHANGED <<vectors, missed>>
     ELSE /\ BatchUpsert("lancedb", {g.id})
          /\ missed' = IF g.id \in vectors["sqlite-vec"] THEN missed \ {g.id} ELSE missed
  /\ UNCHANGED <<disk, chunkRows, ingestState, backend, migration, nextChunk, lines>>

\* search: the dense half asks the active backend and drops the ids that have
\* no row; the sparse half reads the rows.
Found == {r.id : r \in {q \in chunkRows : q.id \in vectors[backend]}}

-----------------------------------------------------------------------------
(* vector_migrate: migrate_vector_backend *)

Embedded == {r.id : r \in {q \in chunkRows : q.embedded}}

\* The current backend is read and all embeddings are loaded.
LoadEmbeddings ==
  /\ migration.step = "idle"
  /\ migration' = [step |-> "copy", to |-> OtherBackend(backend), loaded |-> Embedded]
  /\ UNCHANGED <<disk, chunkRows, ingestState, vectors, backend, ingest,
                 nextChunk, missed, lines>>

\* batch_upsert and rebuild_index of the target.
CopyWhenCountsDiffer ==
  /\ migration.step = "copy"
  /\ vectors' = IF Cardinality(vectors[migration.to]) = Cardinality(migration.loaded)
                THEN vectors ELSE [vectors EXCEPT ![migration.to] = @ \cup migration.loaded]
  /\ migration' = [migration EXCEPT !.step = "verify"]
  /\ UNCHANGED <<disk, chunkRows, ingestState, backend, ingest, nextChunk, missed, lines>>

CopyEmbeddings ==
  /\ migration.step = "copy"
  /\ BatchUpsert(migration.to, migration.loaded)
  /\ migration' = [migration EXCEPT !.step = "verify"]
  /\ UNCHANGED <<disk, chunkRows, ingestState, backend, ingest, nextChunk, missed, lines>>

\* The target must hold as many vectors as were loaded; what it held before
\* counts too.  Then the setting is written.
SwitchBackend ==
  /\ migration.step = "verify"
  /\ backend' = IF Cardinality(vectors[migration.to]) = Cardinality(migration.loaded)
                THEN migration.to ELSE backend
  /\ migration' = NotMigrating
  /\ UNCHANGED <<disk, chunkRows, ingestState, vectors, ingest, nextChunk, missed, lines>>

\* A write of the target fails, or the memories or the rules are not as many in
\* the target as were loaded: the setting stays, and what was copied too.
MigrationFails ==
  /\ migration.step # "idle" /\ migration' = NotMigrating
  /\ UNCHANGED <<disk, chunkRows, ingestState, vectors, backend, ingest, nextChunk, missed, lines>>

-----------------------------------------------------------------------------
(* DocumentChunker: the loop shared by the three kinds of files.  A          *)
(* paragraph's tokens are taken as the sum of its lines' tokens.             *)

Tokens(s) ==
  LET tokens == [n \in DOMAIN s |-> s[n].tokens]
      sum[n \in 0..Len(s)] == IF n = 0 THEN 0 ELSE sum[n-1] + tokens[n]
  IN  sum[Len(s)]

Piece(from, to) == [line_start |-> from, line_end |-> to]

LineItself(n) == n
LineBefore(n) == n - 1

ScanLine(s, acc, n) ==
  LET flush == s[n].boundary /\ acc.start < n /\ Tokens(SubSeq(s, acc.start, n - 1)) >= Floor
      cut1 == IF flush THEN Append(acc.cut, Piece(acc.start, LineBefore(n))) ELSE acc.cut
      start1 == IF flush THEN n ELSE acc.start
      full == Tokens(SubSeq(s, start1, n)) > Ceiling
  IN  [cut |-> IF full THEN Append(cut1, Piece(start1, n)) ELSE cut1,
       start |-> IF full THEN n + 1 ELSE start1]

Pieces(s) ==
  LET scan[n \in 0..Len(s)] ==
        IF n = 0 THEN [cut |-> <<>>, start |-> 1] ELSE ScanLine(s, scan[n-1], n)
      last == scan[Len(s)]
  IN  IF last.start > Len(s) THEN last.cut ELSE Append(last.cut, Piece(last.start, Len(s)))

ChunkNextLine(l) ==
  /\ lines' = Append(lines, l)
  /\ UNCHANGED <<disk, chunkRows, ingestState, vectors, backend, ingest,
                 migration, nextChunk, missed>>

-----------------------------------------------------------------------------
DocumentsNext ==
  \/ \E f \in File, v \in Version \cup {0} : EditFile(f, v)
  \/ \E i \in Ingestor :
       \/ ReadBackend(i) \/ IngestFails(i)
       \/ \E f \in File : ReadFile(i, f)
       \/ \E x, y \in BOOLEAN : StoreChunks(i, x, y)
       \/ \E x \in BOOLEAN : WriteLance(i, x)
  \/ LoadEmbeddings \/ CopyEmbeddings \/ SwitchBackend \/ MigrationFails
  \/ \E l \in Line : ChunkNextLine(l)

DocumentsSpec == DocumentsInit /\ [][DocumentsNext]_documentVars

DocumentsTypeOK ==
  /\ disk \in [File -> Version \cup {0}] /\ ingestState \in [File -> Version \cup {0}]
  /\ chunkRows \subseteq [id : 1..nextChunk, file : File, version : Version, embedded : BOOLEAN]
  /\ vectors \in [Backend -> SUBSET (1..nextChunk)]
  /\ backend \in Backend
  /\ \A i \in Ingestor : ingest[i].step \in {"idle", "embed", "store", "lance"}
  /\ migration.step \in {"idle", "copy", "verify"}
  /\ nextChunk \in Nat \ {0} /\ missed \subseteq 1..nextChunk
  /\ lines \in Seq(Line)

(***************************************************************************)
(* The backend that search asks holds the vector of every chunk that has   *)
(* one, whatever ingestions and migrations overlapped, except for chunks   *)
(* whose own vector could not be written or is about to be, and for those  *)
(* whose ingestion met a migration: the row is committed before LanceDB is *)
(* written, and a migration copies the rows it loaded at its start.        *)
(***************************************************************************)
ActiveBackendServes == Embedded \subseteq Found \cup missed

(***************************************************************************)
(* The chunks of a file cover its lines in order, without gap or overlap,  *)
(* and only the last line of a chunk may take it over the ceiling.         *)
(***************************************************************************)
ChunksCoverFile ==
  LET p == Pieces(lines) IN
  /\ \A k \in 1..Len(p) :
       /\ p[k].line_start = (IF k = 1 THEN 1 ELSE p[k - 1].line_end + 1)
       /\ p[k].line_start <= p[k].line_end
       /\ Tokens(SubSeq(lines, p[k].line_start, p[k].line_end - 1)) <= Ceiling
  /\ Len(lines) = (IF p = <<>> THEN 0 ELSE Last(p).line_end)
=============================================================================
