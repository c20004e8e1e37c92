------------------------------- MODULE Review -------------------------------
(***************************************************************************)
(* What decides whether a tool call goes ahead (policy_engine.rs,          *)
(* diff_reviewer.rs and the decision of agent_runtime.rs): pure functions  *)
(* of the call, of the policies and of the proposed change.  A step of the *)
(* module asks them about one input.                                       *)
(***************************************************************************)
EXTENDS Integers, Sequences, SequencesExt, FiniteSetsExt

CONSTANTS
  ToolCapability, \* capabilities a manifest may require
  TextLine,       \* lines of a file
  MaxLines        \* bound on the length of a file

ASSUME ReviewAssumption == MaxLines \in Nat

VARIABLES
  tool,         \* the call that is asked about: its manifest, policies, proposal
  edit          \* the change that is asked about: old and new lines

reviewVars == <<tool, edit>>

Layer == {"Global", "Project", "Agent"}
Outcome == {"Allow", "Ask", "Deny"}
(* A row that is missing, unreadable or not an outcome is no policy.       *)
LayerValue == Outcome \union {"Unset"}
Effect == {"ReadOnly", "IdempotentMutation", "NonIdempotentMutation", "Unknown"}
Risk == {"Safe", "Low", "Medium", "High", "Critical"}
Kind == {"None", "FilePatch", "CommandExec", "MemoryMutation", "BrowserAction",
         "SkillProposal", "ConfigChange", "GitHubPrReview"}

(* mild: at most ten changed lines, an importance of at most 0.5, a verb   *)
(* that only looks; lenient: the configuration approves small files and    *)
(* clean commands by itself; known: executor, tool and agent row exist.    *)
ToolCall == [known: BOOLEAN, caps: SUBSET ToolCapability, effect: Effect, risk: Risk,
             policy: [ToolCapability -> [Layer -> LayerValue]],
             kind: Kind, mild: BOOLEAN, secret: BOOLEAN, lenient: BOOLEAN]

NoTool == [known |-> FALSE, caps |-> {}, effect |-> "Unknown", risk |-> "High",
           policy |-> [c \in ToolCapability |-> [l \in Layer |-> "Unset"]],
           kind |-> "None", mild |-> FALSE, secret |-> FALSE, lenient |-> FALSE]

-----------------------------------------------------------------------------
(* policy_engine.rs *)

(* Mutant: the most specific layer that is set decides. *)
MostSpecific(layers) ==
  LET set == SelectSeq(<<"Agent", "Project", "Global">>, LAMBDA l : layers[l] # "Unset")
  IN IF set = <<>> THEN "Ask" ELSE layers[Head(set)]

EvaluateCapability(layers) ==
  LET values == {layers[l] : l \in Layer}
  IN CASE "Deny" \in values -> "Deny"
       [] "Deny" \notin values /\ "Ask" \in values -> "Ask"
       [] values \intersect Outcome = {"Allow"} -> "Allow"
       [] OTHER -> "Ask"

(* The capabilities are asked in the order of the manifest, and the first  *)
(* denial answers; which one it is makes no difference.                    *)
Evaluate(t) ==
  LET outcomes == {EvaluateCapability(t.policy[c]) : c \in t.caps}
  IN CASE ~t.known \/ "Deny" \in outcomes -> "Deny"
       [] t.known /\ "Deny" \notin outcomes /\ "Ask" \in outcomes -> "Ask"
       [] t.known /\ outcomes \subseteq {"Allow"} /\ t.effect = "ReadOnly" -> "Allow"
       [] t.known /\ outcomes \subseteq {"Allow"} /\ t.risk \in {"Safe", "Low"}
            /\ t.effect \in {"IdempotentMutation", "NonIdempotentMutation"} -> "Allow"
       [] OTHER -> "Ask"

-----------------------------------------------------------------------------
(* diff_reviewer.rs *)

Propose(t) ==
  LET itself == \/ t.kind \in {"FilePatch", "CommandExec"} /\ t.lenient
                   /\ (t.kind = "FilePatch" => t.mild)
                \/ t.kind \in {"MemoryMutation", "BrowserAction"} /\ t.mild
  IN IF t.kind = "None" THEN "NoDiff"
     ELSE IF ~t.secret /\ itself THEN "AutoApproved" ELSE "Pending"

(* agent_runtime.rs: only three tools are proposed as a diff, and for them *)
(* the policies are not asked.                                             *)
Gate(t) ==
  CASE Propose(t) = "AutoApproved" -> "Allow"
    [] Propose(t) = "Pending" -> "Ask"
    [] OTHER -> Evaluate(t)

(* compute_file_hunks: the table of common lengths, and the walk back      *)
(* through it, which marks every line as kept, deleted or added.           *)
CommonLength(old, new) ==
  LET dp[c \in (0..Len(old)) \X (0..Len(new))] ==
        LET i == c[1]
            j == c[2]
        IN CASE i = 0 \/ j = 0 -> 0
             [] i > 0 /\ j > 0 /\ old[i] = new[j] -> dp[<<i - 1, j - 1>>] + 1
             [] OTHER -> Max({dp[<<i - 1, j>>], dp[<<i, j - 1>>]})
  IN dp

Mark(m, l) == [mark |-> m, line |-> l]

(* Mutant: what is left of the new file is forgotten. *)
HunkLinesShort(old, new) ==
  LET dp == CommonLength(old, new)
      walk[c \in (0..Len(old)) \X (0..Len(new))] ==
        LET i == c[1]
            j == c[2]
        IN CASE i = 0 -> <<>>
             [] i > 0 /\ j > 0 /\ old[i] = new[j] ->
                  Append(walk[<<i - 1, j - 1>>], Mark("kept", old[i]))
             [] i > 0 /\ (j = 0 \/ dp[<<i - 1, j>>] >= dp[<<i, j - 1>>]) ->
                  Append(walk[<<i - 1, j>>], Mark("deleted", old[i]))
             [] OTHER -> Append(walk[<<i, j - 1>>], Mark("added", new[j]))
  IN walk[<<Len(old), Len(new)>>]

HunkLines(old, new) ==
  LET dp == CommonLength(old, new)
      walk[c \in (0..Len(old)) \X (0..Len(new))] ==
        LET i == c[1]
            j == c[2]
            same == i > 0 /\ j > 0 /\ old[i] = new[j]
            deletes == ~same /\ i > 0 /\ (j = 0 \/ dp[<<i - 1, j>>] >= dp[<<i, j - 1>>])
        IN CASE i = 0 /\ j = 0 -> <<>>
             [] same -> Append(walk[<<i - 1, j - 1>>], Mark("kept", old[i]))
             [] deletes -> Append(walk[<<i - 1, j>>], Mark("deleted", old[i]))
             [] OTHER -> Append(walk[<<i, j - 1>>], Mark("added", new[j]))
  IN walk[<<Len(old), Len(new)>>]

-----------------------------------------------------------------------------
NoEdit == [old |-> <<>>, new |-> <<>>]

ReviewInit == tool = NoTool /\ edit = NoEdit

AskTool(t) == tool = NoTool /\ edit = NoEdit /\ tool' = t /\ UNCHANGED edit

AskEdit ==
  /\ tool = NoTool /\ edit = NoEdit
  /\ \E old, new \in BoundedSeq(TextLine, MaxLines) : edit' = [old |-> old, new |-> new]
  /\ UNCHANGED tool

ReviewNext == (\E t \in ToolCall : AskTool(t)) \/ AskEdit

ReviewSpec == ReviewInit /\ [][ReviewNext]_reviewVars

ReviewTypeOK ==
  /\ tool \in ToolCall
  /\ edit \in [old: Seq(TextLine), new: Seq(TextLine)]

-----------------------------------------------------------------------------
LayerSays(t, o) == \E c \in t.caps, l \in Layer : t.policy[c][l] = o

(* From the most permissive outcome to the strictest.                      *)
Strictness(o) == CASE o = "Deny" -> 2 [] o = "Ask" -> 1 [] OTHER -> 0

(* The policies alone: a denial of any layer for any capability wins, and  *)
(* a question of any layer is never answered without a person; what goes   *)
(* ahead is allowed by a row for each of its capabilities and is a read or *)
(* of low risk; and whoever adds a row that asks or denies, in whatever    *)
(* layer and for whatever capability, or makes a row that strict, never    *)
(* makes the answer more permissive.                                       *)
PolicyIsStrict ==
  /\ LayerSays(tool, "Deny") => Evaluate(tool) = "Deny"
  /\ LayerSays(tool, "Ask") => Evaluate(tool) # "Allow"
  /\ Evaluate(tool) = "Allow" =>
       /\ \A c \in tool.caps : \E l \in Layer : tool.policy[c][l] = "Allow"
       /\ tool.known /\ (tool.effect = "ReadOnly" \/ tool.risk \in {"Safe", "Low"})
  /\ \A c \in ToolCapability, l \in Layer, o \in {"Ask", "Deny"} :
       Strictness(tool.policy[c][l]) <= Strictness(o) =>
         LET stricter == [tool EXCEPT !.policy[c][l] = o]
         IN Strictness(Evaluate(tool)) <= Strictness(Evaluate(stricter))

(* "If any layer denies, the request is blocked": a call that a layer      *)
(* denies does not go ahead without a person.                              *)
DeniedIsBlocked == LayerSays(tool, "Deny") => Gate(tool) # "Allow"

(* The lines that are left of a hunk without those of one mark. *)
Sides(marked, drop) ==
  LET side[k \in 0..Len(marked)] ==
        IF k = 0 THEN <<>>
        ELSE IF marked[k].mark # drop THEN Append(side[k - 1], marked[k].line) ELSE side[k - 1]
  IN side[Len(marked)]

(* What two files have in common: pairs of places where they have the same *)
(* line, which come in the same order in both.                             *)
CommonParts(old, new) ==
  {M \in SUBSET ((1..Len(old)) \X (1..Len(new))) :
     /\ \A p \in M : old[p[1]] = new[p[2]]
     /\ \A p, q \in M : p[1] < q[1] <=> p[2] < q[2]}

(* The hunk that the operator reads is the change: without the added lines *)
(* it is the old file, without the deleted ones the new file, and no       *)
(* smaller hunk says as much (ten lines decide on the approval).           *)
HunkIsTheChange ==
  LET h == HunkLines(edit.old, edit.new)
      changed == {k \in DOMAIN h : h[k].mark # "kept"}
      common == Max({Cardinality(M) : M \in CommonParts(edit.old, edit.new)})
  IN /\ Sides(h, "added") = edit.old /\ Sides(h, "deleted") = edit.new
     /\ Cardinality(changed) = Len(edit.old) + Len(edit.new) - 2 * common
=============================================================================
