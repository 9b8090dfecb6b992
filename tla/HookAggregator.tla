--------------------------- MODULE HookAggregator ---------------------------
(***************************************************************************)
(* What a firing of the hooks makes of the answers of several hooks:       *)
(* HookAggregator.  An answer is what its properties tell apart: decision  *)
(* ("none" when it has none, "deny" also for "block"), goes (its continue  *)
(* flag), edits (whether it carries a field of its event, such as          *)
(* tool_input or llm_request) and mode (of a toolConfig).                  *)
(***************************************************************************)
EXTENDS Integers, SequencesExt

CONSTANTS
  Hooks,
  NoHook      \* no hook: where a verdict names none

Answers == [decision: {"none", "allow", "ask", "deny"}, goes: {"unset", "yes", "no"},
            edits: BOOLEAN, mode: {"none", "AUTO", "ANY", "NONE"}]

(* What stays of the answers; edit is the hook whose field is left.        *)
Verdicts == [decision: {"none", "allow", "ask", "deny"}, goes: {"unset", "yes", "no"},
             edit: Hooks \cup {NoHook}, mode: {"none", "AUTO", "ANY", "NONE"},
             tools: SUBSET Hooks]

NoVerdict == [decision |-> "none", goes |-> "unset", edit |-> NoHook,
              mode |-> "none", tools |-> {}]

Silent == [decision |-> "none", goes |-> "unset", edits |-> FALSE, mode |-> "none"]

(* Text instead of JSON: a system message that allows, or, with an exit    *)
(* code other than 0 and 1, the reason of a denial.                        *)
PlainText(code) ==
  [Silent EXCEPT !.decision = IF code = "block" THEN "deny" ELSE "allow"]

(* The strategy of an event.                                               *)
Strategy(event) ==
  CASE event \in {"BeforeTool", "AfterTool", "BeforeAgent", "AfterAgent",
                  "SessionStart"} -> "strictest"
    [] event = "BeforeToolSelection" -> "union"
    [] OTHER -> "last"   \* models: field by field; others: mergeSimple

(* Mutant: an ask takes the place of an earlier denial.                    *)
StricterForgetting(v, a) ==
  IF a.decision \in {"deny", "ask"} THEN a.decision ELSE v.decision

Stricter(v, a) ==
  IF \/ a.decision = "deny"
     \/ a.decision = "ask" /\ v.decision # "deny" THEN a.decision ELSE v.decision

(* One answer a, of hook h, after those that v is made of.                 *)
MergeStrictest(v, h, a) ==
  [v EXCEPT !.decision = Stricter(v, a),
            !.goes = IF a.goes = "no" THEN "no" ELSE @,
            !.edit = IF a.edits THEN h ELSE @]

MergeLast(v, h, a) ==
  [v EXCEPT !.decision = IF a.decision = "none" THEN @ ELSE a.decision,
            !.goes = IF a.goes = "unset" THEN @ ELSE a.goes,
            !.edit = IF a.edits THEN h ELSE @]

MergeUnion(v, h, a) ==
  IF a.mode = "none" THEN v
  ELSE [v EXCEPT !.mode = IF a.mode = "AUTO" \/ @ = "NONE" THEN @ ELSE a.mode,
                 !.tools = @ \cup {h}]

(* Without a denial, a question or a stop the strictest is "allow"; no     *)
(* tool is left in mode NONE.                                              *)
Concluded(strategy, v) ==
  CASE strategy = "strictest" /\ v.decision = "none" /\ v.goes = "yes" ->
         [v EXCEPT !.decision = "allow"]
    [] strategy = "union" /\ v.mode = "NONE" -> [v EXCEPT !.tools = {}]
    [] OTHER -> v

First(strategy) ==
  CASE strategy = "strictest" -> [NoVerdict EXCEPT !.goes = "yes"]
    [] strategy = "union" -> [NoVerdict EXCEPT !.mode = "AUTO"]
    [] OTHER -> NoVerdict

Merged(strategy, v, h, a) ==
  CASE strategy = "strictest" -> MergeStrictest(v, h, a)
    [] strategy = "union" -> MergeUnion(v, h, a)
    [] OTHER -> MergeLast(v, h, a)

(* The verdict on the answers of the hooks of p that are in said, in the   *)
(* order of p.                                                             *)
Aggregated(event, p, said, answer) ==
  LET strategy == Strategy(event)
      upTo[n \in 0..Len(p)] ==
        IF n = 0 THEN First(strategy)
        ELSE IF p[n] \in said THEN Merged(strategy, upTo[n - 1], p[n], answer[p[n]])
        ELSE upTo[n - 1]
  IN  IF Range(p) \cap said = {} THEN NoVerdict ELSE Concluded(strategy, upTo[Len(p)])
=============================================================================
