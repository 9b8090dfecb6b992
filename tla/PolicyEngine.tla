---------------------------- MODULE PolicyEngine ----------------------------
(***************************************************************************)
(* PolicyEngine: the rules in force, the approval mode, and what they      *)
(* decide about a tool call.  Shell commands are split into their parts,   *)
(* which are checked like calls of their own.  Regular expressions, names  *)
(* of servers and annotations are the set of calls that a rule matches.    *)
(***************************************************************************)
EXTENDS Naturals, Sequences, FiniteSetsExt, SequencesExt

CONSTANTS
  Calls,        \* tool calls
  Shell,        \* those of the shell tool
  ToolOf,       \* ToolOf[c]: the tool that c calls
  Parts,        \* Parts[c]: what splitCommands makes of c; {} if it cannot
  Redirected,   \* shell calls with a redirection
  Dangerous,    \* shell calls the sandbox manager takes for dangerous
  KnownSafe,    \* shell calls it takes for safe
  Outside,      \* calls that ask for permissions outside the workspace
  Guarded,      \* calls that a safety checker looks at
  Sandboxed,    \* whether commands run in a sandbox
  Modes,        \* approval modes, from the strictest to the most permissive
  DefaultDecision,
  Configurations  \* sequences of rules that the configuration may hold

Decisions == {"allow", "ask", "deny"}
Strictness == [d \in Decisions |->
  CASE d = "allow" -> 0 [] d = "ask" -> 1 [] d = "deny" -> 2]
Strictest(S) == CHOOSE d \in S : \A x \in S : Strictness[x] <= Strictness[d]

(* calls: what the patterns of the rule match; narrow: it has a pattern.   *)
RuleSet == [tools : SUBSET Range(ToolOf), calls : SUBSET Calls, narrow : BOOLEAN,
            modes : SUBSET Range(Modes), decision : Decisions,
            redirection : BOOLEAN, priority : Nat]

InOrder(rs) == \A i, j \in DOMAIN rs : i < j => rs[i].priority >= rs[j].priority

Matches(rule, c, m) ==
  ToolOf[c] \in rule.tools /\ c \in rule.calls /\ m \in rule.modes

(* A rule without a pattern concerns all calls of its tools.  The shipped  *)
(* policies have a rule for every call in the yolo mode.                   *)
ASSUME PolicyAssumption ==
  /\ DOMAIN ToolOf = Calls /\ Shell \subseteq Calls
  /\ Parts \in [Shell -> SUBSET Shell]
  /\ Redirected \subseteq Shell /\ Dangerous \subseteq Shell
  /\ KnownSafe \subseteq Shell
  /\ Sandboxed \in BOOLEAN /\ DefaultDecision \in {"ask", "deny"}
  /\ \A rs \in Configurations :
       /\ rs \in Seq(RuleSet) /\ InOrder(rs)
       /\ \A i \in DOMAIN rs : ~rs[i].narrow =>
            \A c \in Calls : ToolOf[c] \in rs[i].tools => c \in rs[i].calls
       /\ "yolo" \in Range(Modes) =>
            \A c \in Calls : \E i \in DOMAIN rs : Matches(rs[i], c, "yolo")

(* The other parts of a command are shorter than it.                       *)
ASSUME PartsAssumption ==
  /\ IsFiniteSet(Shell)
  /\ \E length \in [Shell -> 0..Cardinality(Shell)] :
       \A c \in Shell : \A p \in Parts[c] \ {c} : length[p] < length[c]

VARIABLES
  rules,   \* in the order of their priority
  mode     \* approvalMode

engineVars == <<rules, mode>>

EngineTypeOK ==
  /\ rules \in Seq(RuleSet)
  /\ mode \in Range(Modes)

-----------------------------------------------------------------------------

(* applyShellHeuristics, which leaves rules with a pattern alone.          *)
Heuristic(c, d) ==
  IF c \in Dangerous THEN "ask"
  ELSE IF c \in KnownSafe /\ d = "ask" THEN "allow" ELSE d

(* Mutant: a part that is denied only makes the whole ask.                 *)
PartsAskAtMost(c, rule, redirection, m, verdict) ==
  [decision |-> IF rule.decision = "deny" THEN "deny"
                ELSE IF \E p \in Parts[c] \ {c} : verdict[p].decision # "allow"
                       THEN "ask" ELSE rule.decision,
   ruled |-> rule.ruled]

(* checkShellCommand: the decision of a rule, or the default, about c,     *)
(* lowered by redirections and by the verdicts on the other parts.         *)
(* "ruled" tells whether a rule is returned with the decision.             *)
ShellVerdict(c, rule, redirection, m, verdict) ==
  LET others == Parts[c] \ {c}
      theirs(d) == {p \in others : verdict[p].decision = d}
      lowers == ~redirection /\ ~(Sandboxed /\ m \in {"autoEdit", "yolo"})
      asks == \/ lowers /\ Redirected \cap (Parts[c] \cup {c}) # {}
              \/ theirs("ask") # {}
              \/ c \in Parts[c] /\ rule.decision = "ask"
      decision == IF asks THEN "ask" ELSE "allow"
  IN CASE rule.decision = "deny" -> rule
       [] rule.decision # "deny" /\ Parts[c] = {} ->
            [rule EXCEPT !.decision = IF m = "yolo" THEN "allow" ELSE DefaultDecision]
       [] rule.decision # "deny" /\ theirs("deny") # {} ->
            [decision |-> "deny", ruled |-> \E p \in theirs("deny") : verdict[p].ruled]
       [] OTHER ->
            [decision |-> decision,
             ruled |-> IF decision = rule.decision THEN rule.ruled
                       ELSE decision = "ask" /\ \E p \in theirs("ask") : verdict[p].ruled]

(* Mutant: the first match decides, although its rule was not returned.    *)
RuledByFirst(matching, verdict) == Min(matching)

(* The loop over the rules goes on until a rule is returned.               *)
RuledBy(matching, verdict) ==
  LET ruled == {i \in matching : verdict[i].ruled}
  IN IF ruled # {} THEN Min(ruled) ELSE Max(matching)

(* The verdict of rule i on c, with those on the parts of c.               *)
ByRule(rule, c, m, verdict) ==
  LET d == IF c \in Shell /\ ~rule.narrow
             THEN Heuristic(c, rule.decision) ELSE rule.decision
      ruled == [decision |-> d, ruled |-> TRUE]
  IN  IF c \in Shell THEN ShellVerdict(c, ruled, rule.redirection, m, verdict) ELSE ruled

(* No rule matches.                                                        *)
ByDefault(c, m, verdict) ==
  LET default == [decision |-> DefaultDecision, ruled |-> FALSE]
  IN  IF c \in Shell
        THEN ShellVerdict(c, [default EXCEPT !.decision = Heuristic(c, @)], FALSE, m, verdict)
        ELSE default

(* The verdict on c, when the safety checkers say s.                       *)
Verdict(rs, m, s, verdict, c) ==
  LET matching == {i \in DOMAIN rs : Matches(rs[i], c, m)}
      byRule == [i \in matching |-> ByRule(rs[i], c, m, verdict)]
      ruled == IF matching # {} THEN byRule[RuledBy(matching, byRule)]
                                ELSE ByDefault(c, m, verdict)
      inside == IF ruled.decision = "allow" /\ c \in Outside THEN "ask" ELSE ruled.decision
  IN  IF matching = {} /\ m = "yolo" THEN [decision |-> "allow", ruled |-> FALSE]
      ELSE [ruled EXCEPT !.decision =
              IF c \in Guarded THEN Strictest({inside, s[c]}) ELSE inside]

Verdicts(rs, m, s) ==
  LET verdict[c \in Calls] == Verdict(rs, m, s, verdict, c) IN verdict

(* What check() may answer, over all answers of the checkers.              *)
Checks(rs, m, c) ==
  {Verdicts(rs, m, s)[c].decision : s \in [Guarded -> Decisions]}

(* What the rules alone decide.                                            *)
Decision(rs, m, c) == Verdicts(rs, m, [x \in Calls |-> "allow"])[c].decision

-----------------------------------------------------------------------------

(* Mutant: a rule that denies only some calls excludes the tool.           *)
ExcludedByAnyDenial(rs, m, t) ==
  \E i \in DOMAIN rs : t \in rs[i].tools /\ m \in rs[i].modes
                       /\ rs[i].decision = "deny"

(* getExcludedTools: patterns are not looked at, but a rule that denies    *)
(* with a pattern is passed over.                                          *)
Excluded(rs, m, t) ==
  LET applies == {i \in DOMAIN rs : t \in rs[i].tools /\ m \in rs[i].modes
                    /\ ~(rs[i].narrow /\ rs[i].decision = "deny")}
  IN IF applies = {} THEN DefaultDecision = "deny"
     ELSE ~rs[Min(applies)].narrow /\ rs[Min(applies)].decision = "deny"

(* addRule: new rules of one priority come after those that have it.       *)
WithRules(rs, new, priority) ==
  LET n == Cardinality({i \in DOMAIN rs : rs[i].priority >= priority})
  IN  SubSeq(rs, 1, n) \o new \o SubSeq(rs, n + 1, Len(rs))

SetApprovalMode(m) == mode' = m

=============================================================================
