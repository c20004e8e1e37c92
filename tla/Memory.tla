------------------------------- MODULE Memory -------------------------------
(***************************************************************************)
(* The memories of one project: the table project_memories (memory_repo.rs *)
(* and memory_engine.rs), the tools by which agents write and search it    *)
(* (native_tools.rs), the storing half of distillation, the housekeeping   *)
(* task that moves memories up the pyramid of tiers and prunes it, and the *)
(* two commands of the user.  A tool looks, and then writes in another     *)
(* transaction; whatever happens in between is not looked at again.        *)
(*                                                                         *)
(* A row that ends "today" ends on the present date: the text comparisons  *)
(* with datetime('now') take it for valid until midnight, the comparisons  *)
(* of retrieval do not.                                                    *)
(***************************************************************************)
EXTENDS Integers, FiniteSets

CONSTANTS
  Author,       \* agents, and the distiller, that may write at once
  Content,      \* contents, one for each content hash
  Weights,      \* importances asked for, in percent
  Familiar,     \* retrievals that make an episodic memory semantic (3)
  Proven        \* retrievals that make a semantic memory procedural (8)

ASSUME MemoryAssumption ==
  Weights \subseteq 0..100 /\ Familiar \in Nat /\ Proven \in Nat

Tier == {"Working", "Episodic", "Semantic", "Procedural"}
Rank == [t \in Tier |-> CASE t = "Working" -> 1 [] t = "Episodic" -> 2
                          [] t = "Semantic" -> 3 [] t = "Procedural" -> 4]
Resting == [pass |-> 0, list |-> {}]

(* What an author is in the middle of: the row it will store, under an id, *)
(* and the row it found (0: none).                                         *)
Row(c, tier, life, weight, depth) ==
  [content |-> c, tier |-> tier, life |-> life, weight |-> weight, uses |-> 0,
   depth |-> depth, age |-> "new", end |-> "open", heir |-> 0]
Errand(kind, target, id, row) == [kind |-> kind, target |-> target, id |-> id, row |-> row]
Idle == Errand("idle", 0, 0, <<>>)

VARIABLES
  rows,         \* project_memories, by id
  nextId,       \* the next id that is made
  errand,       \* what each author is in the middle of
  promoter,     \* the promotion cycle: its pass, and the ids still on its list
  told          \* history: contents reported as remembered, and not taken back since

memoryVars == <<rows, nextId, errand, promoter, told>>

MemoryInit ==
  /\ rows = [i \in {} |-> 0] /\ nextId = 1
  /\ errand = [a \in Author |-> Idle] /\ promoter = Resting
  /\ told = {}

MemoryTypeOK ==
  /\ DOMAIN rows \subseteq 1..(nextId - 1)
  /\ \A i \in DOMAIN rows :
       rows[i] \in [content: Content, tier: Tier, life: {"Candidate", "Persisted"},
                    weight: 0..100, uses: Nat, depth: Nat, age: {"new", "settled", "stale"},
                    end: {"open", "today", "past"}, heir: 0..(nextId - 1)]
  /\ promoter.pass \in 0..4 /\ promoter.list \subseteq 1..(nextId - 1)

(* What retrieve_memories returns to an agent.                             *)
Retrievable(row) == row.life = "Persisted" /\ row.end = "open"

(* find_by_content_hash takes a row that ended today for a valid one, and  *)
(* the row of a candidate for one that can be retrieved; the latest wins.  *)
Match(c) ==
  LET hits == {i \in DOMAIN rows : rows[i].content = c /\ rows[i].end # "past"}
  IN IF hits = {} THEN 0 ELSE CHOOSE i \in hits : \A j \in hits : j <= i

(* Mutant: a row with the same content is written over. *)
StoreOverTwin(id, row) ==
  LET twins == {i \in DOMAIN rows : rows[i].content = row.content}
  IN rows' = [i \in (DOMAIN rows \ twins) \cup {id} |-> IF i = id THEN row ELSE rows[i]]

(* INSERT INTO project_memories, and the vector of the row with it.        *)
StoreMemory(id, row) ==
  rows' = [i \in DOMAIN rows \cup {id} |-> IF i = id THEN row ELSE rows[i]]

(* memory.insert, and each fact of a distillation: look for the content.   *)
(* The tool will persist its row at once; the distiller leaves a candidate,*)
(* which nothing ever persists.                                            *)
Look(a, kind, c, tier, w) ==
  /\ errand[a] = Idle
  /\ errand' = [errand EXCEPT ![a] =
       Errand(kind, Match(c), nextId,
              IF kind = "insert" THEN Row(c, tier, "Persisted", w, 0)
                                 ELSE Row(c, tier, "Candidate", w, 1))]
  /\ nextId' = nextId + 1
  /\ UNCHANGED <<rows, promoter, told>>

Reinforced(row, bump) ==
  [row EXCEPT !.uses = @ + 1, !.weight = IF @ + bump > 100 THEN 100 ELSE @ + bump]

(* An insertion tells its agent that the content is remembered.            *)
Tell(a, good) ==
  told' = IF errand[a].kind = "insert" /\ good THEN told \cup {errand[a].row.content} ELSE told

(* ... there is one: it is reinforced, if it is still there.               *)
Reinforce(a) ==
  LET i == errand[a].target
  IN /\ errand[a].kind \in {"insert", "distill"} /\ i # 0
     /\ rows' = IF i \in DOMAIN rows
                THEN [rows EXCEPT ![i] =
                        Reinforced(@, IF errand[a].kind = "insert" THEN 5 ELSE 10)]
                ELSE rows
     /\ Tell(a, i \in DOMAIN rows /\ Retrievable(rows[i]))
     /\ errand' = [errand EXCEPT ![a] = Idle]
     /\ UNCHANGED <<nextId, promoter>>

(* ... there is none: the row is stored.                                   *)
Insert(a) ==
  /\ errand[a].kind \in {"insert", "distill"} /\ errand[a].target = 0
  /\ StoreMemory(errand[a].id, errand[a].row)
  /\ Tell(a, TRUE)
  /\ errand' = [errand EXCEPT ![a] = Idle]
  /\ UNCHANGED <<nextId, promoter>>

(* memory.replace reads the prior row, whether it is valid or not (of the  *)
(* depth only matters whether it is 2 or more) ...                         *)
BeginReplace(a, i, c) ==
  /\ errand[a] = Idle /\ i \in DOMAIN rows
  /\ errand' = [errand EXCEPT ![a] =
       Errand("replace", i, nextId,
              Row(c, rows[i].tier, "Persisted", rows[i].weight, IF rows[i].depth = 0 THEN 1 ELSE 2))]
  /\ nextId' = nextId + 1
  /\ UNCHANGED <<rows, promoter, told>>

Ended(row, heir) == [row EXCEPT !.end = "today", !.heir = heir]

(* ... ends it, in a transaction of its own ...                            *)
Invalidate(a) ==
  LET e == errand[a]
  IN /\ e.kind = "replace"
     /\ rows' = IF e.target \in DOMAIN rows
                THEN [rows EXCEPT ![e.target] = Ended(@, e.id)] ELSE rows
     /\ told' = told \ IF e.target \in DOMAIN rows THEN {rows[e.target].content} ELSE {}
     /\ errand' = [errand EXCEPT ![a].kind = "supersede"]
     /\ UNCHANGED <<nextId, promoter>>

(* ... and stores its successor, without looking for its content.          *)
Supersede(a) ==
  /\ errand[a].kind = "supersede"
  /\ StoreMemory(errand[a].id, errand[a].row)
  /\ told' = told \cup {errand[a].row.content}
  /\ errand' = [errand EXCEPT ![a] = Idle]
  /\ UNCHANGED <<nextId, promoter>>

(* A transaction fails, or the program stops, before an errand is over.    *)
Fail(a) ==
  /\ errand[a] # Idle
  /\ errand' = [errand EXCEPT ![a] = Idle]
  /\ UNCHANGED <<rows, nextId, promoter, told>>

(* memory.archive: the row ends and has no heir.                           *)
Archive(i) ==
  /\ i \in DOMAIN rows
  /\ rows' = [rows EXCEPT ![i] = Ended(@, 0)]
  /\ told' = told \ {rows[i].content}
  /\ UNCHANGED <<nextId, errand, promoter>>

(* What is returned is counted as used.                                    *)
CountUses(found) ==
  rows' = [i \in DOMAIN rows |-> IF i \in found THEN [rows[i] EXCEPT !.uses = @ + 1]
                                  ELSE rows[i]]

(* A search returns some of the rows that can be retrieved, or with        *)
(* temporal any that is persisted, and counts a use of each.               *)
Search(found) ==
  /\ found # {} /\ \A i \in found : rows[i].life = "Persisted"
  /\ CountUses(found)
  /\ UNCHANGED <<nextId, errand, promoter, told>>

(* The commands of the user: set a tier, delete a row.                     *)
UpdateMemoryTier(i, tier) ==
  /\ i \in DOMAIN rows
  /\ rows' = [rows EXCEPT ![i].tier = tier]
  /\ UNCHANGED <<nextId, errand, promoter, told>>

DeleteMemories(gone) ==
  /\ rows' = [i \in DOMAIN rows \ gone |-> rows[i]]
  /\ told' = told \ {rows[i].content : i \in gone}

DeleteMemory(i) ==
  /\ i \in DOMAIN rows /\ DeleteMemories({i})
  /\ UNCHANGED <<nextId, errand, promoter>>

(* What each pass of the promoter lists.                                   *)
Due(pass) ==
  {i \in DOMAIN rows :
     CASE pass = 1 -> rows[i].tier = "Working" /\ rows[i].age # "new"
       [] pass = 2 -> rows[i].tier = "Episodic" /\ rows[i].uses >= Familiar /\ rows[i].weight >= 60
       [] pass = 3 -> rows[i].tier = "Semantic" /\ rows[i].weight >= 75
                      /\ (rows[i].uses >= Proven \/ rows[i].depth >= 2)}

NextTier(pass) == CHOOSE t \in Tier : Rank[t] = pass + 1

(* A cycle begins, or goes on to its next list.                            *)
ListDue ==
  /\ promoter.list = {} /\ promoter.pass < 3
  /\ promoter' = [pass |-> promoter.pass + 1, list |-> Due(promoter.pass + 1)]
  /\ UNCHANGED <<rows, nextId, errand, told>>

(* One listed row is set to the tier of the pass, whatever it is now; the  *)
(* projection of the event writes the same.                                *)
PromoteMemory(i) ==
  /\ i \in promoter.list
  /\ rows' = IF i \in DOMAIN rows THEN [rows EXCEPT ![i].tier = NextTier(promoter.pass)] ELSE rows
  /\ promoter' = [promoter EXCEPT !.list = @ \ {i}]
  /\ UNCHANGED <<nextId, errand, told>>

(* An error ends the cycle, and nothing is pruned.                         *)
AbortCycle ==
  /\ promoter # Resting /\ promoter' = Resting
  /\ UNCHANGED <<rows, nextId, errand, told>>

(* Stale episodic memories that were never used go, at the end of a cycle. *)
Prune ==
  /\ promoter.pass = 3 /\ promoter.list = {}
  /\ DeleteMemories({i \in DOMAIN rows :
       rows[i].tier = "Episodic" /\ rows[i].uses = 0 /\ rows[i].weight < 25
       /\ rows[i].age = "stale"})
  /\ promoter' = Resting
  /\ UNCHANGED <<nextId, errand>>

(* Time: a row settles after 10 minutes and is stale after 14 days; at     *)
(* midnight what ended today has ended.                                    *)
GrowOld(i) ==
  /\ i \in DOMAIN rows /\ rows[i].age # "stale"
  /\ rows' = [rows EXCEPT ![i].age = IF @ = "new" THEN "settled" ELSE "stale"]
  /\ UNCHANGED <<nextId, errand, promoter, told>>

DayEnds ==
  /\ \E i \in DOMAIN rows : rows[i].end = "today"
  /\ rows' = [i \in DOMAIN rows |-> IF rows[i].end = "today" THEN [rows[i] EXCEPT !.end = "past"]
                                    ELSE rows[i]]
  /\ UNCHANGED <<nextId, errand, promoter, told>>

MemoryNext ==
  \/ \E a \in Author, c \in Content :
       \/ \E kind \in {"insert", "distill"}, tier \in Tier, w \in Weights : Look(a, kind, c, tier, w)
       \/ \E i \in DOMAIN rows : BeginReplace(a, i, c)
  \/ \E a \in Author :
       Reinforce(a) \/ Insert(a) \/ Invalidate(a) \/ Supersede(a) \/ Fail(a)
  \/ \E i \in DOMAIN rows :
       \/ Archive(i) \/ DeleteMemory(i) \/ GrowOld(i)
       \/ \E tier \in Tier : UpdateMemoryTier(i, tier)
  \/ \E found \in SUBSET DOMAIN rows : Search(found)
  \/ ListDue \/ (\E i \in promoter.list : PromoteMemory(i)) \/ AbortCycle \/ Prune
  \/ DayEnds

MemorySpec == MemoryInit /\ [][MemoryNext]_memoryVars

(* What an agent was told is remembered, and what nobody has replaced,     *)
(* archived, deleted or pruned since, is returned by a retrieval, whatever *)
(* the distiller, the promoter and the other agents wrote meanwhile.       *)
KnowledgeKept ==
  \A c \in told : \E i \in DOMAIN rows : rows[i].content = c /\ Retrievable(rows[i])
=============================================================================
