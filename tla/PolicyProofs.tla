---------------------------- MODULE PolicyProofs ----------------------------
(***************************************************************************)
(* What TLAPS proves of the policies, for any calls, rules, modes and      *)
(* number of approvals: what the engine decides about compound commands    *)
(* and hidden tools, that who approved a call is not asked again, and that *)
(* saved approvals stay.                                                   *)
(***************************************************************************)
EXTENDS PolicyProperties, FiniteSetTheorems, WellFoundedInduction, TLAPS

-----------------------------------------------------------------------------
(* Numbers.                                                                *)

LEMMA Smallest ==
  ASSUME NEW S \in SUBSET Nat, S # {}
  PROVE  Min(S) \in S /\ \A y \in S : Min(S) <= y
<1> DEFINE R == {p \in Nat \X Nat : p[1] < p[2]}
<1>1. IsWellFoundedOn(R, Nat)
  BY NatLessThanWellFounded DEF OpToRel
<1>2. R = {p \in Nat \X Nat : p[1] < p[2]}
  OBVIOUS
<1> HIDE DEF R
<1>3. PICK x \in S : \A y \in S : ~ (<<y, x>> \in R)
  BY <1>1, WFMin
<1>4. \A y \in S : ~(y < x)
  <2> SUFFICES ASSUME NEW y \in S, y < x PROVE FALSE
    OBVIOUS
  <2>1. <<y, x>> \in Nat \X Nat /\ <<y, x>>[1] < <<y, x>>[2]
    OBVIOUS
  <2> QED
    BY <2>1, <1>2, <1>3
<1>5. \A y \in S : x <= y
  BY <1>4
<1> QED
  BY <1>5 DEF Min

LEMMA Largest ==
  ASSUME NEW n \in Nat, NEW S \in SUBSET (1..n), S # {}
  PROVE  Max(S) \in S
<1> DEFINE T == {k \in Nat : n - k \in S}
<1>1. T # {} /\ T \in SUBSET Nat
  <2>1. PICK x \in S : x \in 1..n
    OBVIOUS
  <2>2. n - x \in Nat /\ n - (n - x) = x
    BY <2>1
  <2> QED
    BY <2>1, <2>2
<1>2. Min(T) \in T /\ \A y \in T : Min(T) <= y
  <2> HIDE DEF T
  <2> QED
    BY <1>1, Smallest
<1>3. n - Min(T) \in S
  BY <1>2
<1>4. \A y \in S : n - Min(T) >= y
  <2> SUFFICES ASSUME NEW y \in S PROVE n - Min(T) >= y
    OBVIOUS
  <2>1. n - y \in T /\ y \in 1..n
    OBVIOUS
  <2>2. Min(T) \in Nat /\ Min(T) <= n - y
    BY <1>2, <2>1
  <2> QED
    BY <2>1, <2>2
<1> HIDE DEF T
<1> QED
  BY <1>3, <1>4 DEF Max

-----------------------------------------------------------------------------
(* The verdicts are what their definition says.                            *)

LEMMA VerdictOfParts ==
  ASSUME NEW rs, NEW m, NEW s, NEW v, NEW w, NEW c \in Calls,
         c \in Shell => \A p \in Parts[c] \ {c} : v[p] = w[p]
  PROVE  Verdict(rs, m, s, v, c) = Verdict(rs, m, s, w, c)
<1>1. ASSUME NEW rule, NEW redirection, c \in Shell
      PROVE  ShellVerdict(c, rule, redirection, m, v) = ShellVerdict(c, rule, redirection, m, w)
  <2> DEFINE others == Parts[c] \ {c}
             theirs(d) == {p \in others : v[p].decision = d}
             alsoTheirs(d) == {p \in others : w[p].decision = d}
  <2>1. \A d : theirs(d) = alsoTheirs(d)
    BY <1>1
  <2>2. \A d : (\E p \in theirs(d) : v[p].ruled) <=> (\E p \in alsoTheirs(d) : w[p].ruled)
    BY <1>1
  <2> QED
    BY <2>1, <2>2 DEF ShellVerdict
<1>2. \A rule : ByRule(rule, c, m, v) = ByRule(rule, c, m, w)
  BY <1>1 DEF ByRule
<1>3. ByDefault(c, m, v) = ByDefault(c, m, w)
  BY <1>1 DEF ByDefault
<1> DEFINE matching == {i \in DOMAIN rs : Matches(rs[i], c, m)}
<1>4. [i \in matching |-> ByRule(rs[i], c, m, v)] = [i \in matching |-> ByRule(rs[i], c, m, w)]
  BY <1>2
<1> DEFINE Result(byRule, byDefault) ==
      LET ruled == IF matching # {} THEN byRule[RuledBy(matching, byRule)] ELSE byDefault
          inside == IF ruled.decision = "allow" /\ c \in Outside THEN "ask" ELSE ruled.decision
      IN  IF matching = {} /\ m = "yolo" THEN [decision |-> "allow", ruled |-> FALSE]
          ELSE [ruled EXCEPT !.decision =
                  IF c \in Guarded THEN Strictest({inside, s[c]}) ELSE inside]
<1>5. \A x : Verdict(rs, m, s, x, c) =
              Result([i \in matching |-> ByRule(rs[i], c, m, x)], ByDefault(c, m, x))
  BY Zenon DEF Verdict
<1> HIDE DEF Result, matching
<1> QED
  BY <1>3, <1>4, <1>5, Zenon

LEMMA VerdictsAre ==
  ASSUME NEW rs, NEW m, NEW s, NEW c \in Calls
  PROVE  Verdicts(rs, m, s)[c] = Verdict(rs, m, s, Verdicts(rs, m, s), c)
<1>1. Cardinality(Shell) \in Nat
  BY PartsAssumption, FS_CardinalityType
<1>2. PICK length \in [Shell -> 0..Cardinality(Shell)] :
        \A d \in Shell : \A p \in Parts[d] \ {d} : length[p] < length[d]
  BY PartsAssumption
<1> DEFINE n == Cardinality(Shell)
           size(d) == IF d \in Shell THEN length[d] ELSE 0
           Good(k) == \E v : /\ v = [d \in Calls |-> v[d]]
                             /\ \A d \in Calls : size(d) < k => v[d] = Verdict(rs, m, s, v, d)
<1>3. \A d \in Calls : size(d) \in 0..n
  BY <1>1, <1>2
<1>4. \A d \in Shell : \A p \in Parts[d] \ {d} : p \in Calls /\ size(p) < size(d)
  BY <1>2, PolicyAssumption
<1> HIDE DEF n, size
<1>5. n \in Nat
  BY <1>1 DEF n
<1>6. Good(0)
  <2>1. \A d \in Calls : ~(size(d) < 0)
    BY <1>3, <1>5
  <2> DEFINE v == [d \in Calls |-> 0]
  <2>2. v = [d \in Calls |-> v[d]]
    OBVIOUS
  <2> QED
    BY <2>1, <2>2
<1>7. ASSUME NEW k \in Nat, Good(k) PROVE Good(k + 1)
  <2>1. PICK v : \A d \in Calls : size(d) < k => v[d] = Verdict(rs, m, s, v, d)
    BY <1>7
  <2> DEFINE w == [d \in Calls |-> Verdict(rs, m, s, v, d)]
  <2>2. w = [d \in Calls |-> w[d]]
    OBVIOUS
  <2>3. ASSUME NEW d \in Calls, size(d) < k + 1
        PROVE  w[d] = Verdict(rs, m, s, w, d)
    <3>1. ASSUME d \in Shell, NEW p \in Parts[d] \ {d} PROVE v[p] = w[p]
      <4>1. p \in Calls /\ size(p) < size(d)
        BY <1>4, <3>1
      <4>2. size(p) < k
        BY <1>3, <1>5, <2>3, <4>1
      <4> QED
        BY <2>1, <4>1, <4>2
    <3> HIDE DEF w
    <3>2. Verdict(rs, m, s, v, d) = Verdict(rs, m, s, w, d)
      BY <3>1, VerdictOfParts
    <3> QED
      BY <3>2 DEF w
  <2> HIDE DEF w
  <2> QED
    BY <2>2, <2>3
<1>8. \A k \in Nat : Good(k)
  <2> DEFINE S == {k \in Nat : ~Good(k)}
  <2> SUFFICES ASSUME S # {} PROVE FALSE
    OBVIOUS
  <2> HIDE DEF Good
  <2>1. S \in SUBSET Nat
    OBVIOUS
  <2> DEFINE k == Min(S)
  <2> HIDE DEF S
  <2>2. k \in S /\ \A y \in S : k <= y
    BY <2>1, Smallest
  <2> HIDE DEF k
  <2>3. k \in Nat /\ ~Good(k) /\ k # 0
    BY <2>2, <1>6 DEF S
  <2>4. k - 1 \in Nat /\ ~(k <= k - 1)
    BY <2>3
  <2>5. Good(k - 1)
    BY <2>2, <2>4 DEF S
  <2>6. Good((k - 1) + 1)
    BY <1>7, <2>4, <2>5
  <2>7. (k - 1) + 1 = k
    BY <2>3
  <2> QED
    BY <2>3, <2>6, <2>7
<1>9. Good(n + 1)
  <2> HIDE DEF Good
  <2> QED
    BY <1>5, <1>8
<1>10. PICK v : v = [d \in Calls |-> v[d]] /\ \A d \in Calls : v[d] = Verdict(rs, m, s, v, d)
  <2>1. \A d \in Calls : size(d) < n + 1
    BY <1>3, <1>5
  <2> QED
    BY <1>9, <2>1
<1>11. v = [d \in Calls |-> Verdict(rs, m, s, v, d)]
  BY <1>10
<1> DEFINE found == CHOOSE w : w = [d \in Calls |-> Verdict(rs, m, s, w, d)]
<1>12. found = [d \in Calls |-> Verdict(rs, m, s, found, d)]
  BY <1>11
<1>13. Verdicts(rs, m, s) = found
  BY DEF Verdicts
<1> HIDE DEF found
<1>14. found[c] = Verdict(rs, m, s, found, c)
  BY <1>12
<1> QED
  BY <1>13, <1>14

-----------------------------------------------------------------------------
(* What a verdict is at least.                                             *)

SomeVerdicts == [decision : Decisions, ruled : BOOLEAN]

LEMMA RuledByOne ==
  ASSUME NEW n \in Nat, NEW S \in SUBSET (1..n), S # {}, NEW v
  PROVE  /\ RuledBy(S, v) \in S
         /\ \A i \in S : v[i].ruled => RuledBy(S, v) <= i /\ v[RuledBy(S, v)].ruled
<1> DEFINE ruled == {i \in S : v[i].ruled}
<1>1. RuledBy(S, v) = IF ruled # {} THEN Min(ruled) ELSE Max(S)
  BY DEF RuledBy
<1>2. ruled \subseteq S /\ S \subseteq Nat
  OBVIOUS
<1>3. \A i \in S : v[i].ruled <=> i \in ruled
  OBVIOUS
<1> HIDE DEF ruled
<1>4. CASE ruled # {}
  <2>1. RuledBy(S, v) = Min(ruled)
    BY <1>1, <1>4
  <2>2. Min(ruled) \in ruled /\ \A i \in ruled : Min(ruled) <= i
    BY <1>2, <1>4, Smallest
  <2> QED
    BY <1>2, <1>3, <2>1, <2>2, Zenon
<1>5. CASE ruled = {}
  BY <1>1, <1>3, <1>5, Largest
<1> QED
  BY <1>4, <1>5

LEMMA AllowIsNoBound ==
  \A d \in Decisions : Strictest({d, "allow"}) = d
<1> SUFFICES ASSUME NEW d \in Decisions PROVE Strictest({d, "allow"}) = d
  OBVIOUS
<1>1. /\ Strictness["allow"] = 0 /\ Strictness["ask"] = 1 /\ Strictness["deny"] = 2
  BY DEF Strictness, Decisions
<1>2. \A x \in {d, "allow"} : Strictness[x] <= Strictness[d]
  BY <1>1 DEF Decisions
<1>3. ASSUME NEW e \in {d, "allow"}, \A x \in {d, "allow"} : Strictness[x] <= Strictness[e]
      PROVE  e = d
  BY <1>1, <1>3 DEF Decisions
<1> HIDE DEF Decisions
<1> QED
  BY <1>2, <1>3 DEF Strictest

LEMMA ShellVerdictBounds ==
  ASSUME NEW c \in Shell, NEW rule \in SomeVerdicts, NEW redirection, NEW m, NEW v
  PROVE  LET it == ShellVerdict(c, rule, redirection, m, v)
         IN  /\ it \in SomeVerdicts
             /\ \A p \in Parts[c] \ {c} : v[p].decision \in Decisions =>
                  Strictness[v[p].decision] <= Strictness[it.decision]
             /\ rule.decision = "deny" => it = rule
<1> DEFINE it == ShellVerdict(c, rule, redirection, m, v)
           others == Parts[c] \ {c}
           theirs(d) == {p \in others : v[p].decision = d}
<1>1. /\ Strictness["allow"] = 0 /\ Strictness["ask"] = 1 /\ Strictness["deny"] = 2
  BY DEF Strictness, Decisions
<1>2. CASE rule.decision = "deny"
  <2>1. it = rule
    BY <1>2 DEF ShellVerdict
  <2>2. rule.decision \in Decisions
    BY DEF SomeVerdicts
  <2> QED
    BY <1>1, <1>2, <2>1, <2>2 DEF Decisions
<1>3. CASE rule.decision # "deny" /\ Parts[c] = {}
  <2>1. \E d \in Decisions : it = [rule EXCEPT !.decision = d]
    BY <1>3, PolicyAssumption DEF ShellVerdict, Decisions
  <2>2. it \in SomeVerdicts
    BY <2>1 DEF SomeVerdicts
  <2> QED
    BY <1>3, <2>2
<1>4. CASE rule.decision # "deny" /\ Parts[c] # {} /\ theirs("deny") # {}
  <2>1. it = [decision |-> "deny", ruled |-> \E p \in theirs("deny") : v[p].ruled]
    BY <1>4 DEF ShellVerdict
  <2>2. it \in SomeVerdicts /\ it.decision = "deny"
    BY <2>1 DEF SomeVerdicts, Decisions
  <2> QED
    BY <1>1, <1>4, <2>2 DEF Decisions
<1>5. CASE rule.decision # "deny" /\ Parts[c] # {} /\ theirs("deny") = {}
  <2>1. /\ it.decision \in {"ask", "allow"}
        /\ theirs("ask") # {} => it.decision = "ask"
    BY <1>5 DEF ShellVerdict
  <2>5. it \in SomeVerdicts
    <3> DEFINE Field(d) == IF d = rule.decision THEN rule.ruled
                           ELSE d = "ask" /\ \E p \in theirs("ask") : v[p].ruled
    <3>1. it = [decision |-> it.decision, ruled |-> Field(it.decision)]
      BY <1>5 DEF ShellVerdict
    <3>2. rule.ruled \in BOOLEAN
      BY DEF SomeVerdicts
    <3> HIDE DEF it, theirs
    <3>3. \A d : Field(d) \in BOOLEAN
      BY <3>2
    <3> HIDE DEF Field
    <3> QED
      BY <2>1, <3>1, <3>3 DEF SomeVerdicts, Decisions
  <2>2. \A p \in others : v[p].decision = "ask" => it.decision = "ask"
    BY <2>1
  <2>3. \A p \in others : v[p].decision # "deny"
    BY <1>5
  <2> HIDE DEF it
  <2>4. ASSUME NEW p \in others, v[p].decision \in Decisions
        PROVE  Strictness[v[p].decision] <= Strictness[it.decision]
    BY <1>1, <2>1, <2>2, <2>3, <2>4 DEF Decisions
  <2> QED
    BY <1>5, <2>4, <2>5 DEF it
<1> HIDE DEF it, theirs
<1> QED
  BY <1>2, <1>3, <1>4, <1>5 DEF it

LEMMA RuleVerdictBounds ==
  ASSUME NEW rule \in RuleSet, NEW c \in Calls, NEW m, NEW v
  PROVE  LET it == ByRule(rule, c, m, v)
         IN  /\ it \in SomeVerdicts
             /\ c \in Shell => \A p \in Parts[c] \ {c} : v[p].decision \in Decisions =>
                  Strictness[v[p].decision] <= Strictness[it.decision]
             /\ rule.decision = "deny" /\ (rule.narrow \/ c \notin Dangerous) =>
                  it = [decision |-> "deny", ruled |-> TRUE]
<1> DEFINE it == ByRule(rule, c, m, v)
           d == IF c \in Shell /\ ~rule.narrow
                  THEN Heuristic(c, rule.decision) ELSE rule.decision
           ruled == [decision |-> d, ruled |-> TRUE]
<1>1. rule.decision \in Decisions /\ rule.narrow \in BOOLEAN
  BY DEF RuleSet
<1>2. d \in Decisions
  BY <1>1 DEF Heuristic, Decisions
<1>3. rule.decision = "deny" /\ (rule.narrow \/ c \notin Dangerous) => d = "deny"
  BY <1>1 DEF Heuristic
<1>4. it = IF c \in Shell THEN ShellVerdict(c, ruled, rule.redirection, m, v) ELSE ruled
  BY Zenon DEF ByRule
<1> HIDE DEF it, d
<1>5. ruled \in SomeVerdicts /\ ruled.decision = d
  BY <1>2 DEF SomeVerdicts
<1> HIDE DEF ruled
<1>6. CASE c \in Shell
  <2>1. it = ShellVerdict(c, ruled, rule.redirection, m, v)
    BY <1>4, <1>6
  <2>2. /\ it \in SomeVerdicts
        /\ \A p \in Parts[c] \ {c} : v[p].decision \in Decisions =>
             Strictness[v[p].decision] <= Strictness[it.decision]
        /\ ruled.decision = "deny" => it = ruled
    BY <1>5, <1>6, <2>1, ShellVerdictBounds
  <2> QED
    BY <1>3, <1>5, <2>2 DEF it, ruled
<1>7. CASE c \notin Shell
  BY <1>3, <1>4, <1>5, <1>7 DEF it, ruled
<1> QED
  BY <1>6, <1>7

LEMMA DefaultBounds ==
  ASSUME NEW c \in Calls, NEW m, NEW v
  PROVE  LET it == ByDefault(c, m, v)
         IN  /\ it \in SomeVerdicts
             /\ c \in Shell => \A p \in Parts[c] \ {c} : v[p].decision \in Decisions =>
                  Strictness[v[p].decision] <= Strictness[it.decision]
             /\ DefaultDecision = "deny" /\ c \notin Dangerous => it.decision = "deny"
<1> DEFINE it == ByDefault(c, m, v)
           default == [decision |-> DefaultDecision, ruled |-> FALSE]
           d == Heuristic(c, DefaultDecision)
           ruled == [decision |-> d, ruled |-> FALSE]
<1>1. DefaultDecision \in Decisions /\ DefaultDecision # "allow"
  BY PolicyAssumption DEF Decisions
<1>2. d \in Decisions /\ (DefaultDecision = "deny" /\ c \notin Dangerous => d = "deny")
  BY <1>1 DEF Heuristic, Decisions
<1>3. [default EXCEPT !.decision = Heuristic(c, @)] = ruled
  <2>1. default.decision = DefaultDecision
    OBVIOUS
  <2>2. \A x : [default EXCEPT !.decision = x] = [decision |-> x, ruled |-> FALSE]
    <3>1. \A x, y, z : [[decision |-> y, ruled |-> z] EXCEPT !.decision = x]
                          = [decision |-> x, ruled |-> z]
      OBVIOUS
    <3> QED
      BY <3>1, Zenon
  <2> HIDE DEF default
  <2> QED
    BY <2>1, <2>2, Zenon
<1>4. it = IF c \in Shell THEN ShellVerdict(c, ruled, FALSE, m, v) ELSE default
  BY <1>3, Zenon DEF ByDefault
<1> HIDE DEF it, d
<1>5. /\ ruled \in SomeVerdicts /\ ruled.decision = d
      /\ default \in SomeVerdicts /\ default.decision = DefaultDecision
  BY <1>1, <1>2 DEF SomeVerdicts
<1> HIDE DEF ruled, default
<1>6. CASE c \in Shell
  <2>1. PICK redirection : it = ShellVerdict(c, ruled, redirection, m, v)
    BY <1>4, <1>6, Zenon
  <2>2. /\ it \in SomeVerdicts
        /\ \A p \in Parts[c] \ {c} : v[p].decision \in Decisions =>
             Strictness[v[p].decision] <= Strictness[it.decision]
        /\ ruled.decision = "deny" => it = ruled
    BY <1>5, <1>6, <2>1, ShellVerdictBounds
  <2> QED
    BY <1>2, <1>5, <2>2 DEF it
<1>7. CASE c \notin Shell
  BY <1>4, <1>5, <1>7 DEF it
<1> QED
  BY <1>6, <1>7

AllAllow == [x \in Calls |-> "allow"]

Matching(rs, m, c) == {i \in DOMAIN rs : Matches(rs[i], c, m)}

(* What the rules say of c, before permissions outside the workspace.      *)
Ruled(rs, m, v, c) ==
  IF Matching(rs, m, c) # {}
    THEN ByRule(rs[RuledBy(Matching(rs, m, c),
                           [i \in Matching(rs, m, c) |-> ByRule(rs[i], c, m, v)])], c, m, v)
    ELSE ByDefault(c, m, v)

LEMMA RuleThatDecides ==
  ASSUME NEW rs \in Seq(RuleSet), NEW m, NEW v, NEW c \in Calls, Matching(rs, m, c) # {}
  PROVE  LET k == RuledBy(Matching(rs, m, c),
                          [i \in Matching(rs, m, c) |-> ByRule(rs[i], c, m, v)])
         IN  /\ k \in Matching(rs, m, c) /\ rs[k] \in RuleSet
             /\ \A i \in Matching(rs, m, c) : ByRule(rs[i], c, m, v).ruled =>
                  k <= i /\ ByRule(rs[k], c, m, v).ruled
<1> DEFINE S == Matching(rs, m, c)
           byRule == [i \in S |-> ByRule(rs[i], c, m, v)]
<1>1. Len(rs) \in Nat /\ S \in SUBSET (1..Len(rs))
  BY DEF Matching
<1>2. \A i \in S : byRule[i] = ByRule(rs[i], c, m, v)
  BY Zenon
<1> HIDE DEF byRule, S
<1>3. /\ RuledBy(S, byRule) \in S
      /\ \A i \in S : byRule[i].ruled =>
           RuledBy(S, byRule) <= i /\ byRule[RuledBy(S, byRule)].ruled
  BY <1>1, RuledByOne DEF S
<1>4. \A i \in S : rs[i] \in RuleSet
  BY <1>1
<1> QED
  BY <1>2, <1>3, <1>4 DEF byRule, S

LEMMA RuledBounds ==
  ASSUME NEW rs \in Seq(RuleSet), NEW m, NEW v, NEW c \in Calls
  PROVE  /\ Ruled(rs, m, v, c) \in SomeVerdicts
         /\ c \in Shell => \A p \in Parts[c] \ {c} : v[p].decision \in Decisions =>
              Strictness[v[p].decision] <= Strictness[Ruled(rs, m, v, c).decision]
<1> DEFINE S == Matching(rs, m, c)
           k == RuledBy(S, [i \in S |-> ByRule(rs[i], c, m, v)])
<1>1. CASE S # {}
  <2>1. rs[k] \in RuleSet
    BY <1>1, RuleThatDecides
  <2>2. Ruled(rs, m, v, c) = ByRule(rs[k], c, m, v)
    BY <1>1, Zenon DEF Ruled
  <2> HIDE DEF k
  <2> QED
    BY <2>1, <2>2, RuleVerdictBounds
<1>2. CASE S = {}
  <2>1. Ruled(rs, m, v, c) = ByDefault(c, m, v)
    BY <1>2 DEF Ruled
  <2> QED
    BY <2>1, DefaultBounds
<1> QED
  BY <1>1, <1>2

(* What the rules and the permissions say, before the safety checkers.     *)
Inside(rs, m, v, c) ==
  IF Ruled(rs, m, v, c).decision = "allow" /\ c \in Outside THEN "ask"
  ELSE Ruled(rs, m, v, c).decision

LEMMA VerdictIs ==
  ASSUME NEW rs \in Seq(RuleSet), NEW m, NEW s, NEW v, NEW c \in Calls
  PROVE  /\ Inside(rs, m, v, c) \in Decisions
         /\ Verdict(rs, m, s, v, c).decision =
              IF Matching(rs, m, c) = {} /\ m = "yolo" THEN "allow"
              ELSE IF c \in Guarded THEN Strictest({Inside(rs, m, v, c), s[c]})
              ELSE Inside(rs, m, v, c)
<1> DEFINE ruled == Ruled(rs, m, v, c)
           inside == IF ruled.decision = "allow" /\ c \in Outside THEN "ask" ELSE ruled.decision
           S == Matching(rs, m, c)
           byRule == [i \in S |-> ByRule(rs[i], c, m, v)]
           last == IF c \in Guarded THEN Strictest({inside, s[c]}) ELSE inside
<1>1. S # {} => byRule[RuledBy(S, byRule)] = ByRule(rs[RuledBy(S, byRule)], c, m, v)
  <2>1. S # {} => RuledBy(S, byRule) \in S
    BY RuleThatDecides, Zenon
  <2>2. \A i \in S : byRule[i] = ByRule(rs[i], c, m, v)
    BY Zenon
  <2> HIDE DEF byRule, S
  <2> QED
    BY <2>1, <2>2
<1>2. ruled = IF S # {} THEN byRule[RuledBy(S, byRule)] ELSE ByDefault(c, m, v)
  BY <1>1, Zenon DEF Ruled
<1>3. ruled \in SomeVerdicts
  BY RuledBounds
<1>4. inside = Inside(rs, m, v, c)
  BY Zenon DEF Inside
<1> HIDE DEF ruled
<1>5. inside \in Decisions
  BY <1>3 DEF SomeVerdicts, Decisions
<1>6. Verdict(rs, m, s, v, c) =
        IF S = {} /\ m = "yolo" THEN [decision |-> "allow", ruled |-> FALSE]
        ELSE [ruled EXCEPT !.decision = last]
  <2> DEFINE Decided(r) ==
        LET in == IF r.decision = "allow" /\ c \in Outside THEN "ask" ELSE r.decision
        IN  IF S = {} /\ m = "yolo" THEN [decision |-> "allow", ruled |-> FALSE]
            ELSE [r EXCEPT !.decision =
                    IF c \in Guarded THEN Strictest({in, s[c]}) ELSE in]
  <2>1. Verdict(rs, m, s, v, c) =
          Decided(IF S # {} THEN byRule[RuledBy(S, byRule)] ELSE ByDefault(c, m, v))
    BY Zenon DEF Verdict, Matching
  <2>2. Verdict(rs, m, s, v, c) = Decided(ruled)
    <3> HIDE DEF Decided
    <3> QED
      BY <1>2, <2>1, Zenon
  <2> QED
    BY <2>2, Zenon
<1>7. last = IF c \in Guarded THEN Strictest({Inside(rs, m, v, c), s[c]})
             ELSE Inside(rs, m, v, c)
  <2> HIDE DEF inside
  <2> QED
    BY <1>4, Zenon
<1>8. [ruled EXCEPT !.decision = last].decision = last
  <2> HIDE DEF last
  <2> QED
    BY <1>3 DEF SomeVerdicts
<1> HIDE DEF last, inside
<1>9. CASE S = {} /\ m = "yolo"
  BY <1>4, <1>5, <1>6, <1>9
<1>10. CASE ~(S = {} /\ m = "yolo")
  BY <1>4, <1>5, <1>6, <1>7, <1>8, <1>10, Zenon
<1> QED
  BY <1>9, <1>10

LEMMA DecidedAs ==
  ASSUME NEW rs \in Seq(RuleSet), NEW m, NEW v, NEW c \in Calls
  PROVE  Verdict(rs, m, AllAllow, v, c).decision =
           IF Matching(rs, m, c) = {} /\ m = "yolo" THEN "allow"
           ELSE IF Ruled(rs, m, v, c).decision = "allow" /\ c \in Outside THEN "ask"
           ELSE Ruled(rs, m, v, c).decision
<1>1. Strictest({Inside(rs, m, v, c), AllAllow[c]}) = Inside(rs, m, v, c)
  <2>1. AllAllow[c] = "allow"
    BY DEF AllAllow
  <2>2. Inside(rs, m, v, c) \in Decisions
    BY VerdictIs
  <2>3. Strictest({Inside(rs, m, v, c), "allow"}) = Inside(rs, m, v, c)
    BY <2>2, AllowIsNoBound
  <2> QED
    BY <2>1, <2>3
<1>2. Verdict(rs, m, AllAllow, v, c).decision =
        IF Matching(rs, m, c) = {} /\ m = "yolo" THEN "allow" ELSE Inside(rs, m, v, c)
  BY <1>1, VerdictIs
<1> QED
  BY <1>2 DEF Inside

(* What the bus answers is a decision.                                     *)
LEMMA CheckedAs ==
  ASSUME NEW rs \in Seq(RuleSet), NEW m, NEW c \in Calls
  PROVE  Checks(rs, m, c) \in SUBSET Decisions
<1>5. ASSUME NEW t, NEW w
      PROVE  \/ Verdict(rs, m, t, w, c).decision = "allow"
             \/ Verdict(rs, m, t, w, c).decision = Inside(rs, m, w, c)
             \/ /\ c \in Guarded
                /\ Verdict(rs, m, t, w, c).decision = Strictest({Inside(rs, m, w, c), t[c]})
  <2>1. Verdict(rs, m, t, w, c).decision =
          IF Matching(rs, m, c) = {} /\ m = "yolo" THEN "allow"
          ELSE IF c \in Guarded THEN Strictest({Inside(rs, m, w, c), t[c]})
          ELSE Inside(rs, m, w, c)
    BY VerdictIs, Zenon
  <2>2. CASE Matching(rs, m, c) = {} /\ m = "yolo"
    BY <2>1, <2>2, Zenon
  <2>3. CASE ~(Matching(rs, m, c) = {} /\ m = "yolo") /\ c \in Guarded
    BY <2>1, <2>3, Zenon
  <2>4. CASE ~(Matching(rs, m, c) = {} /\ m = "yolo") /\ c \notin Guarded
    BY <2>1, <2>4, Zenon
  <2> QED
    BY <2>2, <2>3, <2>4
<1> SUFFICES ASSUME NEW s \in [Guarded -> Decisions]
             PROVE  Verdicts(rs, m, s)[c].decision \in Decisions
  BY DEF Checks
<1> DEFINE v == Verdicts(rs, m, s)
<1>1. v[c] = Verdict(rs, m, s, v, c)
  BY VerdictsAre
<1> HIDE DEF v
<1>2. \A a, b \in Decisions : Strictest({a, b}) \in Decisions
  <2> SUFFICES ASSUME NEW a \in Decisions, NEW b \in Decisions
               PROVE  \E d \in {a, b} : \A x \in {a, b} : Strictness[x] <= Strictness[d]
    BY DEF Strictest
  <2>1. Strictness["allow"] = 0 /\ Strictness["ask"] = 1 /\ Strictness["deny"] = 2
    BY DEF Strictness, Decisions
  <2>2. Strictness[a] \in Nat /\ Strictness[b] \in Nat
    BY <2>1 DEF Decisions
  <2> QED
    BY <2>2
<1>3. "allow" \in Decisions
  BY DEF Decisions
<1>4. Inside(rs, m, v, c) \in Decisions /\ (c \in Guarded => s[c] \in Decisions)
  BY VerdictIs
<1>6. v[c].decision \in Decisions
  BY <1>1, <1>2, <1>3, <1>4, <1>5
<1> QED
  BY <1>6 DEF v

LEMMA DecisionIs ==
  ASSUME NEW rs \in Seq(RuleSet), NEW m, NEW c \in Calls
  PROVE  LET ruled == Ruled(rs, m, Verdicts(rs, m, AllAllow), c)
         IN  /\ Decision(rs, m, c) = Verdicts(rs, m, AllAllow)[c].decision
             /\ Decision(rs, m, c) = IF Matching(rs, m, c) = {} /\ m = "yolo" THEN "allow"
                  ELSE IF ruled.decision = "allow" /\ c \in Outside THEN "ask"
                  ELSE ruled.decision
             /\ ruled.decision \in Decisions
             /\ Decision(rs, m, c) \in Decisions
<1> DEFINE v == Verdicts(rs, m, AllAllow)
<1>1. Decision(rs, m, c) = v[c].decision
  BY DEF Decision, AllAllow
<1>2. v[c] = Verdict(rs, m, AllAllow, v, c)
  BY VerdictsAre
<1> HIDE DEF v
<1>3. Decision(rs, m, c) = IF Matching(rs, m, c) = {} /\ m = "yolo" THEN "allow"
          ELSE IF Ruled(rs, m, v, c).decision = "allow" /\ c \in Outside THEN "ask"
          ELSE Ruled(rs, m, v, c).decision
  BY <1>1, <1>2, DecidedAs
<1>4. Ruled(rs, m, v, c).decision \in Decisions
  BY RuledBounds DEF SomeVerdicts
<1>5. Decision(rs, m, c) \in Decisions
  BY <1>3, <1>4 DEF Decisions
<1> QED
  BY <1>1, <1>3, <1>4, <1>5 DEF v

(* Whatever the rules are, in the yolo mode as long as one matches.        *)
LEMMA NoLaxer ==
  ASSUME NEW rs \in Seq(RuleSet), NEW m, NEW c \in Shell, NEW p \in Parts[c],
         m = "yolo" => Matching(rs, m, c) # {}
  PROVE  Strictness[Decision(rs, m, p)] <= Strictness[Decision(rs, m, c)]
<1> DEFINE v == Verdicts(rs, m, AllAllow)
           ruled == Ruled(rs, m, v, c)
<1>1. c \in Calls /\ p \in Calls
  BY PolicyAssumption
<1>2. /\ Decision(rs, m, p) \in Decisions /\ v[p].decision = Decision(rs, m, p)
      /\ ruled.decision \in Decisions
      /\ Decision(rs, m, c) \in Decisions
      /\ Decision(rs, m, c) =
           IF ruled.decision = "allow" /\ c \in Outside THEN "ask" ELSE ruled.decision
  BY <1>1, DecisionIs
<1>3. /\ Strictness["allow"] = 0 /\ Strictness["ask"] = 1 /\ Strictness["deny"] = 2
  BY DEF Strictness, Decisions
<1>4. p # c => Strictness[v[p].decision] <= Strictness[ruled.decision]
  <2>1. \A q \in Parts[c] \ {c} : v[q].decision \in Decisions =>
              Strictness[v[q].decision] <= Strictness[ruled.decision]
    BY <1>1, RuledBounds
  <2> HIDE DEF v, ruled
  <2> QED
    BY <1>2, <2>1
<1> HIDE DEF v, ruled
<1>5. CASE p = c
  <2>1. Strictness[Decision(rs, m, c)] \in 0..2
    BY <1>2, <1>3 DEF Decisions
  <2> QED
    BY <1>5, <2>1
<1>6. CASE p # c
  BY <1>2, <1>3, <1>4, <1>6 DEF Decisions
<1> QED
  BY <1>5, <1>6

(* A rule without a pattern that does not allow concerns every call of its *)
(* tools.                                                                  *)
Wide(rs) == \A i \in DOMAIN rs : ~rs[i].narrow /\ rs[i].decision # "allow" =>
  \A c \in Calls : ToolOf[c] \in rs[i].tools => c \in rs[i].calls

LEMMA HiddenDenied ==
  ASSUME NEW rs \in Seq(RuleSet), Wide(rs), NEW m, m # "yolo",
         NEW c \in Calls \ Dangerous, Excluded(rs, m, ToolOf[c])
  PROVE  Decision(rs, m, c) = "deny"
<1> DEFINE v == Verdicts(rs, m, AllAllow)
           ruled == Ruled(rs, m, v, c)
           t == ToolOf[c]
           applies == {i \in DOMAIN rs : t \in rs[i].tools /\ m \in rs[i].modes
                         /\ ~(rs[i].narrow /\ rs[i].decision = "deny")}
           S == Matching(rs, m, c)
           k == RuledBy(S, [i \in S |-> ByRule(rs[i], c, m, v)])
<1>1. Decision(rs, m, c) =
        IF ruled.decision = "allow" /\ c \in Outside THEN "ask" ELSE ruled.decision
  BY DecisionIs
<1>2. DOMAIN rs \subseteq Nat /\ \A i \in DOMAIN rs : rs[i] \in RuleSet
  OBVIOUS
<1>3. \A i \in S : i \in DOMAIN rs /\ t \in rs[i].tools /\ m \in rs[i].modes
  BY DEF Matching, Matches
<1>4. \A i \in S : i \notin applies => rs[i].narrow /\ rs[i].decision = "deny"
  BY <1>3
<1>5. S # {} => /\ k \in S /\ rs[k] \in RuleSet
                /\ \A i \in S : ByRule(rs[i], c, m, v).ruled => k <= i
                /\ ruled = ByRule(rs[k], c, m, v)
  <2>1. S # {} => /\ k \in S /\ rs[k] \in RuleSet
                  /\ \A i \in S : ByRule(rs[i], c, m, v).ruled => k <= i
    <3> HIDE DEF v
    <3> QED
      BY RuleThatDecides
  <2>2. S # {} => ruled = ByRule(rs[k], c, m, v)
    BY Zenon DEF Ruled
  <2> QED
    BY <2>1, <2>2
<1>6. S = {} => ruled = ByDefault(c, m, v)
  BY DEF Ruled
<1>7. IF applies = {} THEN DefaultDecision = "deny"
      ELSE ~rs[Min(applies)].narrow /\ rs[Min(applies)].decision = "deny"
  BY Zenon DEF Excluded
<1>8. \A i \in S : rs[i].decision = "deny" =>
             ByRule(rs[i], c, m, v) = [decision |-> "deny", ruled |-> TRUE]
  BY <1>2, <1>3, RuleVerdictBounds
<1> HIDE DEF v, ruled, k
<1>9. ruled.decision = "deny"
  <2>1. CASE S = {}
    <3>1. applies = {}
      <4> SUFFICES ASSUME NEW i \in applies PROVE FALSE
        OBVIOUS
      <4> DEFINE n == Min(applies)
      <4>1. applies \in SUBSET Nat /\ applies # {}
        BY <1>2
      <4>2. n \in applies
        <5> HIDE DEF applies
        <5> QED
          BY <4>1, Smallest
      <4>3. ~rs[n].narrow /\ rs[n].decision = "deny"
        BY <1>7
      <4> HIDE DEF n
      <4>4. n \in DOMAIN rs /\ t \in rs[n].tools /\ m \in rs[n].modes
        BY <4>2
      <4>5. c \in rs[n].calls
        BY <4>3, <4>4 DEF Wide
      <4>6. n \in S
        BY <4>4, <4>5 DEF Matching, Matches
      <4> QED
        BY <2>1, <4>6
    <3>2. DefaultDecision = "deny"
      BY <1>7, <3>1
    <3> QED
      BY <1>6, <2>1, <3>2, DefaultBounds
  <2>2. CASE S # {} /\ k \notin applies
    BY <1>4, <1>5, <1>8, <2>2
  <2>3. CASE S # {} /\ k \in applies
    <3> DEFINE n == Min(applies)
    <3>1. applies \in SUBSET Nat /\ applies # {}
      BY <1>2, <2>3
    <3>2. n \in applies /\ \A i \in applies : n <= i
      <4> HIDE DEF applies
      <4> QED
        BY <3>1, Smallest
    <3>3. ~rs[n].narrow /\ rs[n].decision = "deny"
      BY <1>7, <3>1
    <3> HIDE DEF n
    <3>4. n \in DOMAIN rs /\ t \in rs[n].tools /\ m \in rs[n].modes
      BY <3>2
    <3>5. c \in rs[n].calls
      BY <3>3, <3>4 DEF Wide
    <3>6. n \in S
      BY <3>4, <3>5 DEF Matching, Matches
    <3>7. ByRule(rs[n], c, m, v).ruled
      BY <1>8, <3>3, <3>6
    <3>8. k <= n /\ n <= k /\ k \in Nat /\ n \in Nat
      <4>1. k <= n /\ n <= k
        BY <1>5, <2>3, <3>2, <3>6, <3>7
      <4> QED
        BY <4>1, <1>2, <1>3, <1>5, <2>3, <3>4
    <3>9. k = n
      BY <3>8
    <3> QED
      BY <1>5, <1>8, <2>3, <3>3, <3>6, <3>9
  <2> QED
    BY <2>1, <2>2, <2>3
<1> QED
  BY <1>1, <1>9

-----------------------------------------------------------------------------
(* Rules are only added, and what approvals add allows.                    *)

LEMMA Joined ==
  ASSUME NEW S, NEW a \in Seq(S), NEW b \in Seq(S)
  PROVE  /\ a \o b \in Seq(S) /\ Len(a \o b) = Len(a) + Len(b)
         /\ \A i \in 1..Len(a) : (a \o b)[i] = a[i]
         /\ \A i \in 1..Len(b) : (a \o b)[Len(a) + i] = b[i]
OBVIOUS

LEMMA RestOfRules ==
  ASSUME NEW S, NEW rs \in Seq(S), NEW n \in 0..Len(rs)
  PROVE  LET b == SubSeq(rs, n + 1, Len(rs))
         IN  /\ b \in Seq(S) /\ Len(b) = Len(rs) - n
             /\ \A i \in 1..(Len(rs) - n) : b[i] = rs[n + i]
<1> DEFINE k == Len(rs)
           b == SubSeq(rs, n + 1, k)
<1>1. k \in Nat /\ DOMAIN rs = 1..k /\ \A i \in 1..k : rs[i] \in S
  OBVIOUS
<1>2. b = [i \in 1..(k - n) |-> rs[n + i]]
  BY <1>1
<1> HIDE DEF b, k
<1>3. k - n \in Nat /\ \A i \in 1..(k - n) : n + i \in 1..k
  BY <1>1 DEF k
<1>4. \A i \in 1..(k - n) : b[i] = rs[n + i] /\ b[i] \in S
  BY <1>1, <1>2, <1>3
<1>5. b \in Seq(S) /\ Len(b) = k - n
  BY <1>2, <1>3, <1>4
<1> QED
  BY <1>4, <1>5 DEF b, k

(* The new rules come after those of at least their priority.              *)
Before(rs, priority) == Cardinality({i \in DOMAIN rs : rs[i].priority >= priority})

LEMMA WithRulesPlaces ==
  ASSUME NEW rs \in Seq(RuleSet), NEW new \in Seq(RuleSet), NEW priority
  PROVE  LET n == Before(rs, priority)
             k == Len(rs)
             l == Len(new)
             with == WithRules(rs, new, priority)
         IN  /\ n \in 0..k /\ with \in Seq(RuleSet)
             /\ DOMAIN with = 1..((n + l) + (k - n))
             /\ \A i \in 1..n : with[i] = rs[i]
             /\ \A i \in 1..l : with[n + i] = new[i]
             /\ \A i \in 1..(k - n) : with[(n + l) + i] = rs[n + i]
<1> DEFINE S == {i \in DOMAIN rs : rs[i].priority >= priority}
           n == Before(rs, priority)
           k == Len(rs)
           l == Len(new)
           a == SubSeq(rs, 1, n)
           b == SubSeq(rs, n + 1, k)
           with == WithRules(rs, new, priority)
<1>1. k \in Nat /\ DOMAIN rs = 1..k /\ l \in Nat /\ DOMAIN new = 1..l
  OBVIOUS
<1>2. n \in 0..k
  <2>1. S \in SUBSET (1..k)
    BY <1>1
  <2>9. n = Cardinality(S)
    BY DEF Before
  <2> HIDE DEF S, k, n
  <2>2. IsFiniteSet(1..k) /\ Cardinality(1..k) = k
    BY <1>1, FS_Interval
  <2>3. IsFiniteSet(S) /\ n <= k
    BY <2>9, <2>1, <2>2, FS_Subset
  <2>4. n \in Nat
    BY <2>9, <2>3, FS_CardinalityType
  <2> QED
    BY <1>1, <2>3, <2>4
<1>3. with = (a \o new) \o b
  BY Zenon DEF WithRules, Before
<1> HIDE DEF n, with
<1>4. a \in Seq(RuleSet) /\ Len(a) = n /\ \A i \in 1..n : a[i] = rs[i]
  BY <1>1, <1>2
<1>5. /\ b \in Seq(RuleSet) /\ Len(b) = k - n
      /\ \A i \in 1..(k - n) : b[i] = rs[n + i]
  BY <1>1, <1>2, RestOfRules
<1> HIDE DEF a, b
<1> DEFINE x == a \o new
<1>6. /\ x \in Seq(RuleSet) /\ Len(x) = n + l
      /\ \A i \in 1..n : x[i] = rs[i]
      /\ \A i \in 1..l : x[n + i] = new[i]
  <2>1. /\ x \in Seq(RuleSet) /\ Len(x) = Len(a) + Len(new)
        /\ \A i \in 1..Len(a) : x[i] = a[i]
        /\ \A i \in 1..Len(new) : x[Len(a) + i] = new[i]
    <3>1. a \in Seq(RuleSet) /\ new \in Seq(RuleSet)
      BY <1>4
    <3> QED
      BY <3>1, Joined
  <2> HIDE DEF x
  <2> QED
    BY <1>4, <2>1
<1>7. with = x \o b
  BY <1>3
<1> HIDE DEF x
<1>8. /\ with \in Seq(RuleSet) /\ Len(with) = (n + l) + (k - n)
      /\ \A i \in 1..(n + l) : with[i] = x[i]
      /\ \A i \in 1..(k - n) : with[(n + l) + i] = rs[n + i]
  <2>1. /\ with \in Seq(RuleSet) /\ Len(with) = Len(x) + Len(b)
        /\ \A i \in 1..Len(x) : with[i] = x[i]
        /\ \A i \in 1..Len(b) : with[Len(x) + i] = b[i]
    <3>1. x \in Seq(RuleSet) /\ b \in Seq(RuleSet)
      BY <1>5, <1>6
    <3> QED
      BY <3>1, <1>7, Joined
  <2> QED
    BY <1>5, <1>6, <2>1
<1>9. DOMAIN with = 1..((n + l) + (k - n))
  BY <1>8
<1>10. ASSUME NEW i \in 1..n PROVE with[i] = rs[i]
  <2>1. i \in 1..(n + l)
    BY <1>1, <1>2
  <2> QED
    BY <1>6, <1>8, <2>1
<1>11. ASSUME NEW i \in 1..l PROVE with[n + i] = new[i]
  <2>1. n + i \in 1..(n + l)
    BY <1>1, <1>2
  <2> QED
    BY <1>6, <1>8, <2>1
<1> QED
  BY <1>2, <1>8, <1>9, <1>10, <1>11 DEF n, with

LEMMA WithRulesKeeps ==
  ASSUME NEW rs \in Seq(RuleSet), NEW new \in Seq(RuleSet), NEW priority
  PROVE  LET with == WithRules(rs, new, priority)
         IN  /\ with \in Seq(RuleSet)
             /\ \A i \in DOMAIN rs : \E j \in DOMAIN with : with[j] = rs[i]
             /\ \A j \in DOMAIN with : \/ \E i \in DOMAIN rs : with[j] = rs[i]
                                       \/ \E i \in DOMAIN new : with[j] = new[i]
<1> DEFINE n == Before(rs, priority)
           k == Len(rs)
           l == Len(new)
           with == WithRules(rs, new, priority)
<1>1. k \in Nat /\ DOMAIN rs = 1..k /\ l \in Nat /\ DOMAIN new = 1..l
  OBVIOUS
<1>2. /\ n \in 0..k /\ with \in Seq(RuleSet)
      /\ DOMAIN with = 1..((n + l) + (k - n))
      /\ \A i \in 1..n : with[i] = rs[i]
      /\ \A i \in 1..l : with[n + i] = new[i]
      /\ \A i \in 1..(k - n) : with[(n + l) + i] = rs[n + i]
  BY WithRulesPlaces
<1> HIDE DEF n, with, k, l
<1>3. ASSUME NEW i \in DOMAIN rs PROVE \E j \in DOMAIN with : with[j] = rs[i]
  <2>1. CASE i <= n
    <3>1. i \in 1..n /\ i \in 1..(n + l) /\ i \in 1..((n + l) + (k - n))
      BY <1>1, <1>2, <2>1
    <3>2. i \in DOMAIN with /\ with[i] = rs[i]
      BY <1>2, <3>1
    <3> QED
      BY <3>2
  <2>2. CASE ~(i <= n)
    <3> DEFINE d == i - n
    <3>1. d \in 1..(k - n) /\ n + d = i /\ (n + l) + d \in 1..((n + l) + (k - n))
      BY <1>1, <1>2, <2>2
    <3> HIDE DEF d
    <3>2. with[(n + l) + d] = rs[i] /\ (n + l) + d \in DOMAIN with
      BY <1>2, <3>1
    <3> QED
      BY <3>2
  <2> QED
    BY <2>1, <2>2
<1>4. ASSUME NEW j \in DOMAIN with
      PROVE  \/ \E i \in DOMAIN rs : with[j] = rs[i]
             \/ \E i \in DOMAIN new : with[j] = new[i]
  <2>1. j \in 1..((n + l) + (k - n))
    BY <1>2
  <2>2. CASE j <= n
    <3>1. j \in 1..n /\ j \in 1..(n + l) /\ j \in DOMAIN rs
      BY <1>1, <1>2, <2>1, <2>2
    <3>2. with[j] = rs[j]
      BY <1>2, <3>1
    <3> QED
      BY <3>1, <3>2
  <2>3. CASE n < j /\ j <= n + l
    <3> DEFINE d == j - n
    <3>1. d \in 1..l /\ n + d = j /\ j \in 1..(n + l)
      BY <1>1, <1>2, <2>1, <2>3
    <3> HIDE DEF d
    <3>2. d \in DOMAIN new /\ with[j] = new[d]
      BY <1>1, <1>2, <3>1
    <3> QED
      BY <3>2
  <2>4. CASE n + l < j
    <3> DEFINE d == j - n - l
    <3>1. d \in 1..(k - n) /\ (n + l) + d = j /\ n + d \in 1..k
      BY <1>1, <1>2, <2>1, <2>4
    <3> HIDE DEF d
    <3>2. n + d \in DOMAIN rs /\ with[j] = rs[n + d]
      BY <1>1, <1>2, <3>1
    <3> QED
      BY <3>2
  <2> QED
    BY <1>1, <1>2, <2>1, <2>2, <2>3, <2>4
<1> QED
  BY <1>2, <1>3, <1>4 DEF with

LEMMA FirstOnes ==
  ASSUME NEW k \in Nat, NEW S \in SUBSET (1..k), \A i \in S : \A j \in 1..k : j < i => j \in S
  PROVE  S = 1..Cardinality(S)
<1> DEFINE T == (1..k) \ S
<1>1. \A m \in Nat : Cardinality(1..m) = m
  BY FS_Interval
<1>2. CASE T = {}
  <2>1. S = 1..k
    BY <1>2
  <2> QED
    BY <1>1, <2>1
<1>3. CASE T # {}
  <2>1. T \in SUBSET Nat
    OBVIOUS
  <2> DEFINE f == Min(T)
  <2>2. f \in T /\ \A y \in T : f <= y
    <3> HIDE DEF T
    <3> QED
      BY <1>3, <2>1, Smallest
  <2> HIDE DEF f
  <2>3. f \in 1..k /\ f \notin S /\ \A y \in 1..k : y < f => y \in S
    BY <2>2
  <2>4. \A y \in S : y < f
    <3> SUFFICES ASSUME NEW y \in S, ~(y < f) PROVE FALSE
      OBVIOUS
    <3>1. y \in 1..k /\ f < y
      BY <2>3
    <3> QED
      BY <2>3, <3>1
  <2>5. \A y \in 1..k : y \in S <=> y \in 1..(f - 1)
    BY <2>3, <2>4
  <2>6. \A y \in 1..(f - 1) : y \in 1..k
    BY <2>3
  <2>7. S \subseteq 1..(f - 1) /\ 1..(f - 1) \subseteq S /\ f - 1 \in Nat
    BY <2>3, <2>5, <2>6
  <2> QED
    BY <1>1, <2>7
<1> QED
  BY <1>2, <1>3

LEMMA WithRulesInOrder ==
  ASSUME NEW rs \in Seq(RuleSet), NEW new \in Seq(RuleSet), NEW priority \in Nat,
         InOrder(rs), \A i \in DOMAIN new : new[i].priority = priority
  PROVE  LET with == WithRules(rs, new, priority)
         IN  InOrder(with) /\ \A i \in DOMAIN new : \E j \in DOMAIN with : with[j] = new[i]
<1> DEFINE n == Before(rs, priority)
           k == Len(rs)
           l == Len(new)
           with == WithRules(rs, new, priority)
<1>1. /\ k \in Nat /\ DOMAIN rs = 1..k /\ l \in Nat /\ DOMAIN new = 1..l
      /\ \A i \in 1..k : rs[i].priority \in Nat
  <2>1. k \in Nat /\ DOMAIN rs = 1..k /\ l \in Nat /\ DOMAIN new = 1..l
    OBVIOUS
  <2>2. \A i \in 1..k : rs[i] \in RuleSet
    OBVIOUS
  <2>3. \A r \in RuleSet : r.priority \in Nat
    BY DEF RuleSet
  <2> HIDE DEF k, l
  <2> QED
    BY <2>1, <2>2, <2>3
<1>2. /\ n \in 0..k /\ DOMAIN with = 1..((n + l) + (k - n))
      /\ \A i \in 1..n : with[i] = rs[i]
      /\ \A i \in 1..l : with[n + i] = new[i]
      /\ \A i \in 1..(k - n) : with[(n + l) + i] = rs[n + i]
  BY WithRulesPlaces
<1>3. \A i \in 1..k : i <= n <=> rs[i].priority >= priority
  <2> DEFINE S == {i \in DOMAIN rs : rs[i].priority >= priority}
  <2>1. \A i \in S : \A j \in 1..k : j < i => j \in S
    BY <1>1 DEF InOrder
  <2>2. S \in SUBSET (1..k) /\ n = Cardinality(S)
    BY <1>1 DEF Before
  <2> HIDE DEF S, n, k, with
  <2>3. S = 1..n
    BY <1>1, <2>1, <2>2, FirstOnes
  <2>4. \A i \in 1..k : i \in S <=> rs[i].priority >= priority
    BY <1>1 DEF S
  <2> QED
    BY <1>1, <1>2, <2>3, <2>4
<1>8. \A i, j \in 1..k : i < j => rs[i].priority >= rs[j].priority
  BY <1>1 DEF InOrder
<1>9. \A i \in DOMAIN with : with[i].priority \in Nat
  <2>1. with \in Seq(RuleSet)
    BY WithRulesPlaces
  <2>2. \A r \in RuleSet : r.priority \in Nat
    BY DEF RuleSet
  <2> HIDE DEF with
  <2> QED
    BY <2>1, <2>2
<1> HIDE DEF n, with, k, l
<1>4. ASSUME NEW i \in DOMAIN with
      PROVE  \/ i \in 1..n /\ with[i] = rs[i] /\ with[i].priority >= priority
             \/ i > n /\ i <= n + l /\ with[i].priority = priority
             \/ /\ i > n + l /\ i - l \in 1..k /\ with[i] = rs[i - l]
                /\ with[i].priority < priority
  <2>1. CASE i <= n
    <3>1. i \in 1..n /\ i \in 1..k
      BY <1>1, <1>2, <2>1
    <3> QED
      BY <1>2, <1>3, <3>1
  <2>2. CASE n < i /\ i <= n + l
    <3> DEFINE d == i - n
    <3>1. d \in 1..l /\ n + d = i
      BY <1>1, <1>2, <2>2
    <3> HIDE DEF d
    <3>2. with[i] = new[d] /\ new[d].priority = priority
      BY <1>1, <1>2, <3>1
    <3> QED
      BY <2>2, <3>2
  <2>3. CASE n + l < i
    <3> DEFINE d == i - n - l
    <3>1. /\ d \in 1..(k - n) /\ (n + l) + d = i /\ n + d = i - l
          /\ n + d \in 1..k /\ ~(n + d <= n)
      BY <1>1, <1>2, <2>3
    <3> HIDE DEF d
    <3>2. with[i] = rs[i - l] /\ i - l \in 1..k /\ ~(i - l <= n)
      BY <1>2, <3>1
    <3>3. with[i].priority < priority
      BY <1>1, <1>3, <3>2
    <3> QED
      BY <2>3, <3>2, <3>3
  <2> QED
    BY <1>1, <1>2, <2>1, <2>2, <2>3
<1>5. ASSUME NEW i \in DOMAIN with, NEW j \in DOMAIN with, i < j
      PROVE  with[i].priority >= with[j].priority
  <2>1. i \in Nat /\ j \in Nat /\ n \in Nat
    BY <1>1, <1>2
  <2>2. CASE i <= n /\ j <= n
    <3>1. i \in 1..n /\ j \in 1..n /\ i \in 1..k /\ j \in 1..k
      BY <1>1, <1>2, <2>2
    <3> QED
      BY <1>2, <1>5, <1>8, <3>1
  <2>3. CASE i > n + l
    <3>1. /\ i - l \in 1..k /\ with[i] = rs[i - l]
          /\ j - l \in 1..k /\ with[j] = rs[j - l]
      <4>1. /\ l \in Nat /\ j > n + l /\ ~(i <= n + l) /\ ~(j <= n + l)
            /\ i \notin 1..n /\ j \notin 1..n
        BY <1>1, <1>5, <2>1, <2>3
      <4> QED
        BY <1>4, <4>1
    <3>2. i - l < j - l
      BY <1>1, <1>5, <2>1
    <3> QED
      BY <1>8, <3>1, <3>2
  <2>4. CASE ~(i <= n /\ j <= n) /\ ~(i > n + l)
    <3>1. with[i].priority >= priority
      BY <1>4, <1>9, <2>4
    <3>2. j > n
      BY <1>5, <2>1, <2>4
    <3>3. with[j].priority = priority \/ with[j].priority < priority
      BY <1>4, <2>1, <3>2
    <3> QED
      BY <1>9, <3>1, <3>3
  <2> QED
    BY <2>2, <2>3, <2>4
<1>6. ASSUME NEW i \in DOMAIN new PROVE \E j \in DOMAIN with : with[j] = new[i]
  <2>1. n + i \in DOMAIN with /\ with[n + i] = new[i]
    BY <1>1, <1>2
  <2> QED
    BY <2>1
<1>7. InOrder(with)
  BY <1>5 DEF InOrder
<1> QED
  BY <1>6, <1>7 DEF with

LEMMA ArrangedOnce ==
  ASSUME NEW S, IsFiniteSet(S)
  PROVE  SetToSeq(S) \in Seq(S)
<1> DEFINE n == Cardinality(S)
<1>1. n \in Nat /\ ExistsBijection(1..n, S)
  BY FS_CardinalityType
<1>2. \E f \in [1..n -> S] : IsInjective(f)
  BY <1>1 DEF ExistsBijection, Bijection, Injection, IsInjective
<1>3. SetToSeq(S) \in [1..n -> S]
  BY <1>2 DEF SetToSeq
<1> QED
  BY <1>1, <1>3

LEMMA ArrangedAll ==
  ASSUME NEW S, IsFiniteSet(S)
  PROVE  \A x \in S : \E i \in DOMAIN SetToSeq(S) : SetToSeq(S)[i] = x
<1> DEFINE n == Cardinality(S)
           s == SetToSeq(S)
<1>1. n \in Nat /\ ExistsBijection(1..n, S)
  BY FS_CardinalityType
<1>2. \E f \in [1..n -> S] : IsInjective(f)
  BY <1>1 DEF ExistsBijection, Bijection, Injection, IsInjective
<1>3. s \in [1..n -> S] /\ IsInjective(s)
  BY <1>2 DEF SetToSeq
<1>4. IsFiniteSet(1..n) /\ Cardinality(1..n) = n
  BY <1>1, FS_Interval
<1> HIDE DEF s
<1>5. s \in Injection(1..n, S)
  BY <1>3 DEF Injection, IsInjective
<1>6. s \in Surjection(1..n, S)
  BY <1>4, <1>5, FS_Injection
<1> QED
  BY <1>3, <1>6 DEF Surjection, s
SomeApprovals == {a \in Approvals : IsFiniteSet(a.prefixes)}

LEMMA RulesOfApprovals ==
  ASSUME NEW approvals \in SUBSET SomeApprovals, IsFiniteSet(approvals),
         NEW priority \in Nat
  PROVE  LET new == SetToSeq(RulesFor(approvals, priority))
         IN  /\ new \in Seq(RuleSet) /\ \A i \in DOMAIN new : new[i].decision = "allow"
             /\ \A i \in DOMAIN new : \E a \in approvals : \E word \in a.prefixes :
                  new[i] = RuleFor(a, word, priority)
             /\ \A a \in approvals : \A word \in a.prefixes : \E i \in DOMAIN new :
                  new[i] = RuleFor(a, word, priority)
<1> DEFINE Of(a) == {RuleFor(a, word, priority) : word \in a.prefixes}
           R == RulesFor(approvals, priority)
<1>1. ASSUME NEW a \in approvals, NEW word
      PROVE  RuleFor(a, word, priority) \in {r \in RuleSet : r.decision = "allow"}
  <2> DEFINE calls == {c \in Calls : ToolOf[c] = a.tool /\ StartsWith[c] = word}
             narrow == \E c \in Shell : StartsWith[c] = word
  <2>1. a.tool \in Range(ToolOf) /\ a.modes \in SUBSET Range(Modes) /\ a.redirection \in BOOLEAN
    BY DEF SomeApprovals, Approvals
  <2>2. calls \in SUBSET Calls /\ narrow \in BOOLEAN /\ "allow" \in Decisions
    BY DEF Decisions
  <2>3. RuleFor(a, word, priority) =
          [tools |-> {a.tool}, calls |-> calls, narrow |-> narrow, modes |-> a.modes,
           decision |-> "allow", redirection |-> a.redirection, priority |-> priority]
    BY Zenon DEF RuleFor
  <2> HIDE DEF calls, narrow
  <2> QED
    BY <2>1, <2>2, <2>3 DEF RuleSet
<1>2. ASSUME NEW a \in approvals PROVE IsFiniteSet(Of(a))
  <2> DEFINE f == [word \in a.prefixes |-> RuleFor(a, word, priority)]
  <2>1. f \in Surjection(a.prefixes, Of(a))
    BY DEF Surjection
  <2>2. IsFiniteSet(a.prefixes)
    BY DEF SomeApprovals
  <2> HIDE DEF f, Of
  <2> QED
    BY <2>1, <2>2, FS_Surjection
<1>3. IsFiniteSet(R)
  <2> DEFINE T == {Of(a) : a \in approvals}
             f == [a \in approvals |-> Of(a)]
  <2>1. R = UNION T
    BY Zenon DEF RulesFor
  <2> HIDE DEF Of
  <2>2. f \in Surjection(approvals, T)
    BY DEF Surjection
  <2>3. \A t \in T : IsFiniteSet(t)
    BY <1>2
  <2> HIDE DEF f, T
  <2>4. IsFiniteSet(T)
    BY <2>2, FS_Surjection
  <2> QED
    BY <2>1, <2>3, <2>4, FS_UNION
<1>4. R \subseteq {r \in RuleSet : r.decision = "allow"}
  BY <1>1 DEF RulesFor
<1>5. /\ \A r \in R : \E a \in approvals : \E word \in a.prefixes :
           r = RuleFor(a, word, priority)
      /\ \A a \in approvals : \A word \in a.prefixes : RuleFor(a, word, priority) \in R
  BY DEF RulesFor
<1> HIDE DEF R
<1>6. SetToSeq(R) \in Seq(R)
  BY <1>3, ArrangedOnce
<1> DEFINE new == SetToSeq(R)
<1> HIDE DEF new
<1>7. \A i \in DOMAIN new : new[i] \in RuleSet /\ new[i].decision = "allow"
  BY <1>4, <1>6 DEF new
<1>8. new \in Seq(RuleSet)
  BY <1>4, <1>6, <1>7 DEF new
<1>9. \A i \in DOMAIN new : new[i] \in R
  BY <1>6 DEF new
<1>10. \A r \in R : \E i \in DOMAIN new : new[i] = r
  BY <1>3, ArrangedAll DEF new
<1> QED
  BY <1>5, <1>7, <1>8, <1>9, <1>10 DEF new, R

LEMMA WithApprovalsKeeps ==
  ASSUME NEW rs \in Seq(RuleSet), NEW approvals \in SUBSET SomeApprovals,
         IsFiniteSet(approvals), NEW priority \in Nat
  PROVE  LET with == WithApprovals(rs, approvals, priority)
         IN  /\ with \in Seq(RuleSet)
             /\ \A i \in DOMAIN rs : \E j \in DOMAIN with : with[j] = rs[i]
             /\ \A j \in DOMAIN with : \/ \E i \in DOMAIN rs : with[j] = rs[i]
                                       \/ with[j].decision = "allow"
<1> DEFINE new == SetToSeq(RulesFor(approvals, priority))
           with == WithApprovals(rs, approvals, priority)
<1>1. new \in Seq(RuleSet) /\ \A i \in DOMAIN new : new[i].decision = "allow"
  BY RulesOfApprovals
<1>2. with = WithRules(rs, new, priority)
  BY DEF WithApprovals
<1> HIDE DEF new, with
<1>3. /\ with \in Seq(RuleSet)
      /\ \A i \in DOMAIN rs : \E j \in DOMAIN with : with[j] = rs[i]
      /\ \A j \in DOMAIN with : \/ \E i \in DOMAIN rs : with[j] = rs[i]
                                \/ \E i \in DOMAIN new : with[j] = new[i]
  BY <1>1, <1>2, WithRulesKeeps
<1> QED
  BY <1>1, <1>3 DEF with

(* Every configured rule is in force, and every rule that does not allow   *)
(* is configured.                                                          *)
Extends(rs) ==
  /\ rs \in Seq(RuleSet)
  /\ \A i \in DOMAIN configured : \E j \in DOMAIN rs : rs[j] = configured[i]
  /\ \A j \in DOMAIN rs : \/ \E i \in DOMAIN configured : rs[j] = configured[i]
                          \/ rs[j].decision = "allow"

(* Approvals are saved one after the other: what the file is read for is   *)
(* written before it is read again, and nobody else writes it.             *)
InTurn == loaded \in {<<>>, <<file>>}

SavedInv ==
  /\ queue \in Seq(SomeApprovals) /\ (loaded # <<>> => queue # <<>>)
  /\ file \subseteq SomeApprovals /\ IsFiniteSet(file)

RulesInv == configured \in Configurations /\ mode \in Range(Modes) /\ Extends(rules)

PolicyInv == InTurn /\ SavedInv /\ RulesInv

LEMMA MergedType ==
  ASSUME NEW old \in SUBSET SomeApprovals, IsFiniteSet(old), NEW a \in SomeApprovals
  PROVE  Merged(old, a) \subseteq SomeApprovals /\ IsFiniteSet(Merged(old, a))
<1> DEFINE now(e) == IF SameRule(e, a)
                     THEN [e EXCEPT !.modes = a.modes,
                                    !.redirection = @ \/ a.redirection]
                     ELSE e
           f == [e \in old |-> now(e)]
<1>1. CASE \E e \in old : SameRule(e, a)
  <2>1. Merged(old, a) = {now(e) : e \in old}
    BY <1>1, Zenon DEF Merged
  <2>2. ASSUME NEW e \in old PROVE now(e) \in SomeApprovals
    <3>1. e \in Approvals /\ a \in Approvals /\ IsFiniteSet(e.prefixes)
      BY DEF SomeApprovals
    <3>2. now(e) \in Approvals /\ now(e).prefixes = e.prefixes
      BY <3>1 DEF Approvals
    <3> QED
      BY <3>1, <3>2 DEF SomeApprovals
  <2> HIDE DEF now
  <2>3. f \in Surjection(old, {now(e) : e \in old})
    BY DEF Surjection
  <2> HIDE DEF f
  <2>4. IsFiniteSet({now(e) : e \in old})
    BY <2>3, FS_Surjection
  <2> QED
    BY <2>1, <2>2, <2>4
<1>2. CASE ~ \E e \in old : SameRule(e, a)
  <2>1. Merged(old, a) = old \cup {a}
    BY <1>2 DEF Merged
  <2> QED
    BY <2>1, FS_AddElement
<1> QED
  BY <1>1, <1>2

LEMMA ApprovalType ==
  ASSUME NEW c \in Calls
  PROVE  Approval(c) \in SomeApprovals
<1>1. /\ ToolOf[c] \in Range(ToolOf) /\ Roots[c] \subseteq Range(StartsWith)
      /\ IsFiniteSet(Roots[c])
  BY PolicyAssumption, UpdaterAssumption DEF Range
<1>2. AtLeast(mode) \subseteq Range(Modes) /\ (c \in Redirected) \in BOOLEAN
  BY DEF AtLeast, Range
<1> QED
  BY <1>1, <1>2 DEF Approval, SomeApprovals, Approvals

LEMMA ExtendsMore ==
  ASSUME NEW rs, Extends(rs), NEW approvals \in SUBSET SomeApprovals,
         IsFiniteSet(approvals), NEW priority \in Nat
  PROVE  Extends(WithApprovals(rs, approvals, priority))
<1> DEFINE with == WithApprovals(rs, approvals, priority)
<1>1. rs \in Seq(RuleSet)
  BY DEF Extends
<1>2. /\ with \in Seq(RuleSet)
      /\ \A i \in DOMAIN rs : \E j \in DOMAIN with : with[j] = rs[i]
      /\ \A j \in DOMAIN with : \/ \E i \in DOMAIN rs : with[j] = rs[i]
                                \/ with[j].decision = "allow"
  BY <1>1, WithApprovalsKeeps
<1> HIDE DEF with
<1>3. \A i \in DOMAIN configured : \E j \in DOMAIN with : with[j] = configured[i]
  <2> SUFFICES ASSUME NEW i \in DOMAIN configured
               PROVE  \E j \in DOMAIN with : with[j] = configured[i]
    OBVIOUS
  <2>1. PICK h \in DOMAIN rs : rs[h] = configured[i]
    BY DEF Extends
  <2>2. PICK j \in DOMAIN with : with[j] = rs[h]
    BY <1>2
  <2> QED
    BY <2>1, <2>2
<1>4. \A j \in DOMAIN with : \/ \E i \in DOMAIN configured : with[j] = configured[i]
                             \/ with[j].decision = "allow"
  <2> SUFFICES ASSUME NEW j \in DOMAIN with
               PROVE  \/ \E i \in DOMAIN configured : with[j] = configured[i]
                      \/ with[j].decision = "allow"
    OBVIOUS
  <2>1. CASE with[j].decision = "allow"
    BY <2>1
  <2>2. CASE \E h \in DOMAIN rs : with[j] = rs[h]
    <3>1. PICK h \in DOMAIN rs : with[j] = rs[h]
      BY <2>2
    <3>2. \/ \E i \in DOMAIN configured : rs[h] = configured[i]
          \/ rs[h].decision = "allow"
      BY DEF Extends
    <3> QED
      BY <3>1, <3>2
  <2> QED
    BY <1>2, <2>1, <2>2
<1> QED
  BY <1>2, <1>3, <1>4 DEF Extends, with

LEMMA ExtendsItself ==
  ASSUME configured \in Configurations
  PROVE  Extends(configured)
BY PolicyAssumption DEF Extends

LEMMA PolicyInit == Init => PolicyInv
<1> SUFFICES ASSUME Init PROVE PolicyInv
  OBVIOUS
<1>1. configured \in Configurations /\ rules = configured /\ mode \in Range(Modes)
  BY DEF Init
<1>2. Extends(rules)
  BY <1>1, ExtendsItself
<1>3. queue = <<>> /\ loaded = <<>> /\ file = {}
  BY DEF Init
<1>4. queue \in Seq(SomeApprovals) /\ IsFiniteSet(file)
  BY <1>3, FS_EmptySet
<1> QED
  BY <1>1, <1>2, <1>3, <1>4 DEF PolicyInv, InTurn, SavedInv, RulesInv

LEMMA PolicyStep ==
  ASSUME PolicyInv, [Next]_vars
  PROVE  PolicyInv'
<1>1. /\ loaded \in {<<>>, <<file>>} /\ queue \in Seq(SomeApprovals)
      /\ (loaded # <<>> => queue # <<>>)
      /\ file \in SUBSET SomeApprovals /\ IsFiniteSet(file)
      /\ configured \in Configurations /\ mode \in Range(Modes)
      /\ Extends(rules)
  BY DEF PolicyInv, InTurn, SavedInv, RulesInv
<1>2. SessionPriority \in Nat /\ SavedPriority \in Nat
  BY UpdaterAssumption
<1>3. ASSUME UNCHANGED <<loaded, queue, file>> PROVE InTurn' /\ SavedInv'
  BY <1>1, <1>3 DEF InTurn, SavedInv
<1>4. ASSUME UNCHANGED configured, mode' \in Range(Modes), Extends(rules)' PROVE RulesInv'
  BY <1>1, <1>4 DEF RulesInv
<1>5. ASSUME UNCHANGED <<configured, mode, rules>> PROVE RulesInv'
  BY <1>1, <1>5 DEF RulesInv, Extends
<1>6. CASE Bus /\ UNCHANGED <<engineVars, updaterVars>>
  BY <1>3, <1>5, <1>6 DEF PolicyInv, engineVars, updaterVars
<1>7. ASSUME NEW c \in Calls, ApproveAlways(c)
      PROVE  PolicyInv'
  <2>1. Approval(c) \in SomeApprovals
    BY ApprovalType
  <2>2. {Approval(c)} \in SUBSET SomeApprovals /\ IsFiniteSet({Approval(c)})
    BY <2>1, FS_Singleton
  <2>3. UNCHANGED <<mode, configured, loaded, file>>
    BY <1>7 DEF ApproveAlways
  <2>4. PICK priority \in Nat : rules' = WithApprovals(rules, {Approval(c)}, priority)
    BY <1>2, <1>7 DEF ApproveAlways
  <2>5. Extends(WithApprovals(rules, {Approval(c)}, priority))
    BY <1>1, <2>2, ExtendsMore
  <2>6. Extends(rules)'
    BY <2>3, <2>4, <2>5 DEF Extends
  <2>7. RulesInv'
    BY <1>1, <1>4, <2>3, <2>6
  <2>8. queue' = queue \/ queue' = Append(queue, Approval(c))
    BY <1>7 DEF ApproveAlways
  <2>9. queue' \in Seq(SomeApprovals) /\ (queue # <<>> => queue' # <<>>)
    BY <1>1, <2>1, <2>8
  <2>10. InTurn' /\ SavedInv'
    BY <1>1, <2>3, <2>9 DEF InTurn, SavedInv
  <2> QED
    BY <2>7, <2>10 DEF PolicyInv
<1>8. ASSUME NEW m \in Range(Modes), SwitchMode(m)
      PROVE  PolicyInv'
  <2>1. UNCHANGED <<configured, rules>> /\ mode' \in Range(Modes)
    BY <1>8 DEF SwitchMode, SetApprovalMode, updaterVars
  <2>2. Extends(rules)'
    BY <1>1, <2>1 DEF Extends
  <2>3. UNCHANGED <<loaded, queue, file>>
    BY <1>8 DEF SwitchMode, updaterVars
  <2> QED
    BY <1>3, <1>4, <2>1, <2>2, <2>3 DEF PolicyInv
<1>9. CASE Load
  <2>1. loaded' = Append(<<>>, file) /\ queue # <<>> /\ UNCHANGED <<queue, file>>
    BY <1>9 DEF Load, LoadsInTurn
  <2>2. Append(<<>>, file) = <<file>>
    OBVIOUS
  <2>3. InTurn' /\ SavedInv'
    BY <1>1, <2>1, <2>2 DEF InTurn, SavedInv
  <2>4. UNCHANGED <<configured, mode, rules>>
    BY <1>9 DEF Load, engineVars
  <2> QED
    BY <1>5, <2>3, <2>4 DEF PolicyInv
<1>10. CASE Store \/ StoreFails
  <2>1. loaded = <<file>> /\ queue # <<>>
    BY <1>1, <1>10 DEF Store, StoreFails
  <2>2. Head(loaded) = file /\ Tail(loaded) = <<>>
    BY <2>1
  <2>3. Head(queue) \in SomeApprovals /\ Tail(queue) \in Seq(SomeApprovals)
    BY <1>1, <2>1
  <2>4. loaded' = <<>> /\ queue' \in Seq(SomeApprovals)
    BY <1>10, <2>2, <2>3 DEF Store, StoreFails
  <2>5. file' = file \/ file' = Merged(file, Head(queue))
    BY <1>10, <2>2 DEF Store, StoreFails
  <2>6. file' \in SUBSET SomeApprovals /\ IsFiniteSet(file')
    BY <1>1, <2>3, <2>5, MergedType
  <2>7. InTurn' /\ SavedInv'
    BY <2>4, <2>6 DEF InTurn, SavedInv
  <2>8. UNCHANGED <<configured, mode, rules>>
    BY <1>10 DEF Store, StoreFails, engineVars
  <2> QED
    BY <1>5, <2>7, <2>8 DEF PolicyInv
<1>11. CASE Restart
  <2>1. /\ rules' = WithApprovals(configured, file, SavedPriority)
        /\ mode' \in Range(Modes) /\ queue' = <<>> /\ loaded' = <<>>
        /\ UNCHANGED <<configured, file>>
    BY <1>11 DEF Restart
  <2>2. Extends(configured)
    BY <1>1, ExtendsItself
  <2>3. Extends(WithApprovals(configured, file, SavedPriority))
    BY <1>1, <1>2, <2>2, ExtendsMore
  <2>4. Extends(rules)'
    BY <2>1, <2>3 DEF Extends
  <2>5. queue' \in Seq(SomeApprovals)
    BY <2>1
  <2>6. InTurn' /\ SavedInv'
    BY <1>1, <2>1, <2>5 DEF InTurn, SavedInv
  <2> QED
    BY <1>4, <2>1, <2>4, <2>6 DEF PolicyInv
<1>12. CASE UNCHANGED vars
  BY <1>3, <1>5, <1>12 DEF PolicyInv, vars, engineVars, updaterVars
<1> QED
  BY <1>6, <1>7, <1>8, <1>9, <1>10, <1>11, <1>12 DEF Next

LEMMA PolicyHolds == Spec => []PolicyInv
<1>1. PolicyInv /\ [Next]_vars => PolicyInv'
  BY PolicyStep
<1> QED
  BY <1>1, PolicyInit, PTL DEF Spec

(* A compound command is never judged more leniently than one of its       *)
(* commands alone, after any approvals and restarts                        *)
(* (policy/policy-engine.ts, checkShellCommand and check).                 *)
THEOREM PartsCount == Spec => []NoLaxerThanParts
<1>1. PolicyInv => NoLaxerThanParts
  <2> SUFFICES ASSUME PolicyInv, NEW c \in Shell, NEW p \in Parts[c]
               PROVE  Strictness[Decision(rules, mode, p)] <= Strictness[Decision(rules, mode, c)]
    BY DEF NoLaxerThanParts
  <2>1. /\ rules \in Seq(RuleSet) /\ configured \in Configurations /\ mode \in Range(Modes)
        /\ \A i \in DOMAIN configured : \E j \in DOMAIN rules : rules[j] = configured[i]
    BY DEF PolicyInv, RulesInv, Extends
  <2>2. ASSUME mode = "yolo" PROVE Matching(rules, mode, c) # {}
    <3>1. c \in Calls
      BY PolicyAssumption
    <3>2. PICK i \in DOMAIN configured : Matches(configured[i], c, "yolo")
      BY <2>1, <2>2, <3>1, PolicyAssumption
    <3>3. PICK j \in DOMAIN rules : rules[j] = configured[i]
      BY <2>1
    <3> QED
      BY <2>2, <3>2, <3>3 DEF Matching
  <2> QED
    BY <2>1, <2>2, NoLaxer
<1> QED
  BY <1>1, PolicyHolds, PTL

(* A tool that is hidden from the model for being denied has no call that  *)
(* the engine would not deny, after any approvals and restarts             *)
(* (policy/policy-engine.ts, getExcludedTools and check).                  *)
THEOREM HiddenIsDenied == Spec => []ExcludedIsDenied
<1>1. PolicyInv => ExcludedIsDenied
  <2> SUFFICES ASSUME PolicyInv, mode # "yolo", NEW c \in Calls \ Dangerous,
                      Excluded(rules, mode, ToolOf[c])
               PROVE  Decision(rules, mode, c) = "deny"
    BY DEF ExcludedIsDenied
  <2>1. /\ rules \in Seq(RuleSet) /\ configured \in Configurations
        /\ \A j \in DOMAIN rules : \/ \E i \in DOMAIN configured : rules[j] = configured[i]
                                   \/ rules[j].decision = "allow"
    BY DEF PolicyInv, RulesInv, Extends
  <2>2. \A i \in DOMAIN configured : ~configured[i].narrow =>
          \A d \in Calls : ToolOf[d] \in configured[i].tools => d \in configured[i].calls
    BY <2>1, PolicyAssumption
  <2>3. Wide(rules)
    BY <2>1, <2>2, Zenon DEF Wide
  <2> QED
    BY <2>1, <2>3, HiddenDenied
<1> QED
  BY <1>1, PolicyHolds, PTL

-----------------------------------------------------------------------------
(* Approvals hold.                                                        *)

(* Rule r allows d, also when redirected, and so do the rules before it.   *)
Covered(rs, m, d) ==
  \E k \in Matching(rs, m, d) :
    /\ d \in Shell /\ Redirected \cap (Parts[d] \cup {d}) # {} => rs[k].redirection
    /\ \A i \in Matching(rs, m, d) : i <= k =>
         rs[i].decision = "allow" /\ (d \in Shell => rs[i].narrow)

LEMMA AllowedVerdict ==
  ASSUME NEW d \in Shell, NEW rule \in SomeVerdicts, rule.decision = "allow", rule.ruled,
         NEW redirection, NEW m, NEW v, Parts[d] # {},
         \A p \in Parts[d] \ {d} : v[p].decision \notin {"ask", "deny"}
  PROVE  LET it == ShellVerdict(d, rule, redirection, m, v)
         IN  /\ it.decision = "ask" => ~it.ruled
             /\ (Redirected \cap (Parts[d] \cup {d}) # {} => redirection) => it.ruled
<1> DEFINE it == ShellVerdict(d, rule, redirection, m, v)
           others == Parts[d] \ {d}
           theirs(x) == {p \in others : v[p].decision = x}
           lowers == ~redirection /\ ~(Sandboxed /\ m \in {"autoEdit", "yolo"})
           asks == lowers /\ Redirected \cap (Parts[d] \cup {d}) # {}
           Field(x) == IF x = rule.decision THEN rule.ruled
                       ELSE x = "ask" /\ \E p \in theirs("ask") : v[p].ruled
<1>1. theirs("ask") = {} /\ theirs("deny") = {}
  OBVIOUS
<1>2. it.decision = IF asks THEN "ask" ELSE "allow"
  BY <1>1 DEF ShellVerdict
<1>3. it = [decision |-> it.decision, ruled |-> Field(it.decision)]
  BY <1>1 DEF ShellVerdict
<1>4. (Redirected \cap (Parts[d] \cup {d}) # {} => redirection) => ~asks
  OBVIOUS
<1>5. Field("allow") <=> rule.ruled
  OBVIOUS
<1>6. ~Field("ask")
  <2>1. ~ \E p \in theirs("ask") : v[p].ruled
    BY <1>1
  <2> QED
    BY <2>1
<1> HIDE DEF it, asks, Field
<1>7. it.ruled = Field(it.decision)
  BY <1>3
<1>8. CASE asks
  <2>1. it.decision = "ask"
    BY <1>2, <1>8
  <2>2. ~it.ruled
    BY <1>6, <1>7, <2>1
  <2> QED
    BY <1>4, <1>8, <2>2 DEF it
<1>9. CASE ~asks
  <2>1. it.decision = "allow"
    BY <1>2, <1>9
  <2>2. it.ruled
    BY <1>5, <1>7, <2>1
  <2> QED
    BY <2>1, <2>2 DEF it
<1> QED
  BY <1>8, <1>9

LEMMA ApprovalVerdict ==
  ASSUME NEW rule, rule.decision = "allow", NEW d, NEW m, NEW v,
         d \in Shell => /\ rule.narrow /\ Parts[d] # {}
                        /\ \A p \in Parts[d] \ {d} : v[p].decision \notin {"ask", "deny"}
  PROVE  LET it == ByRule(rule, d, m, v)
         IN  /\ it.decision = "ask" => ~it.ruled
             /\ (d \in Shell /\ Redirected \cap (Parts[d] \cup {d}) # {} => rule.redirection) =>
                  it.ruled
<1> DEFINE it == ByRule(rule, d, m, v)
           ruled == [decision |-> rule.decision, ruled |-> TRUE]
<1>1. /\ d \in Shell => it = ShellVerdict(d, ruled, rule.redirection, m, v)
      /\ d \notin Shell => it = ruled
  BY DEF ByRule
<1>2. ruled \in SomeVerdicts /\ ruled.decision = "allow" /\ ruled.ruled
  BY DEF SomeVerdicts, Decisions
<1> HIDE DEF it, ruled
<1>3. CASE d \in Shell
  BY <1>1, <1>2, <1>3, AllowedVerdict DEF it
<1>4. CASE d \notin Shell
  BY <1>1, <1>2, <1>4 DEF it
<1> QED
  BY <1>3, <1>4

LEMMA CoveredByParts ==
  ASSUME NEW rs \in Seq(RuleSet), NEW m, NEW d \in Calls \ Outside, Covered(rs, m, d),
         d \in Shell => /\ Parts[d] # {}
                        /\ \A p \in Parts[d] \ {d} : Decision(rs, m, p) # "ask"
  PROVE  Decision(rs, m, d) # "ask"
<1> DEFINE v == Verdicts(rs, m, AllAllow)
           S == Matching(rs, m, d)
           q == RuledBy(S, [i \in S |-> ByRule(rs[i], d, m, v)])
<1>1. PICK k \in S :
        /\ d \in Shell /\ Redirected \cap (Parts[d] \cup {d}) # {} => rs[k].redirection
        /\ \A i \in S : i <= k => rs[i].decision = "allow" /\ (d \in Shell => rs[i].narrow)
  BY Zenon DEF Covered
<1>2. /\ Decision(rs, m, d) = Ruled(rs, m, v, d).decision
      /\ Decision(rs, m, d) \in Decisions
  BY <1>1, DecisionIs
<1>3. \A p \in Calls : v[p].decision = Decision(rs, m, p) /\ Decision(rs, m, p) \in Decisions
  BY DecisionIs
<1>4. d \in Shell => \A p \in Parts[d] : p \in Calls
  BY PolicyAssumption
<1>5. Ruled(rs, m, v, d) = ByRule(rs[q], d, m, v)
  BY <1>1, Zenon DEF Ruled
<1>6. /\ q \in S
      /\ \A i \in S : ByRule(rs[i], d, m, v).ruled => q <= i /\ ByRule(rs[q], d, m, v).ruled
  BY <1>1, RuleThatDecides
<1>7. d \in Shell => \A p \in Parts[d] \ {d} : v[p].decision \in Decisions =>
        Strictness[v[p].decision] <= Strictness[Ruled(rs, m, v, d).decision]
  BY RuledBounds
<1> HIDE DEF v, q, S
<1>8. CASE d \in Shell /\ \E p \in Parts[d] \ {d} : Decision(rs, m, p) = "deny"
  <2>1. PICK p \in Parts[d] \ {d} : Decision(rs, m, p) = "deny"
    BY <1>8
  <2>2. Strictness["deny"] <= Strictness[Decision(rs, m, d)]
    BY <1>2, <1>3, <1>4, <1>7, <1>8, <2>1
  <2>3. Strictness["ask"] = 1 /\ Strictness["deny"] = 2
    BY DEF Strictness, Decisions
  <2> QED
    BY <2>2, <2>3
<1>9. CASE ~(d \in Shell /\ \E p \in Parts[d] \ {d} : Decision(rs, m, p) = "deny")
  <2>1. d \in Shell => \A p \in Parts[d] \ {d} : v[p].decision \notin {"ask", "deny"}
    BY <1>3, <1>4, <1>9
  <2>2. \A i \in S : i <= k =>
          /\ ByRule(rs[i], d, m, v).decision = "ask" => ~ByRule(rs[i], d, m, v).ruled
          /\ (d \in Shell /\ Redirected \cap (Parts[d] \cup {d}) # {} => rs[i].redirection) =>
               ByRule(rs[i], d, m, v).ruled
    BY <1>1, <2>1, ApprovalVerdict
  <2>3. k \in Nat
    BY DEF S, Matching
  <2>4. ByRule(rs[k], d, m, v).ruled
    BY <1>1, <2>2, <2>3
  <2>5. q \in S /\ q <= k /\ ByRule(rs[q], d, m, v).ruled
    BY <1>6, <2>4
  <2> QED
    BY <1>2, <1>5, <2>2, <2>5
<1> QED
  BY <1>8, <1>9

LEMMA CoveredNeverAsks ==
  ASSUME NEW rs \in Seq(RuleSet), NEW m, NEW R \in SUBSET (Calls \ Outside),
         \A d \in R : Covered(rs, m, d),
         \A d \in R \cap Shell : Parts[d] # {} /\ Parts[d] \subseteq R
  PROVE  \A d \in R : Decision(rs, m, d) # "ask"
<1>1. Cardinality(Shell) \in Nat
  BY PartsAssumption, FS_CardinalityType
<1>2. PICK length \in [Shell -> 0..Cardinality(Shell)] :
        \A d \in Shell : \A p \in Parts[d] \ {d} : length[p] < length[d]
  BY PartsAssumption
<1> DEFINE size(d) == IF d \in Shell THEN length[d] ELSE 0
           Asking == {d \in R : Decision(rs, m, d) = "ask"}
           Sizes == {size(d) : d \in Asking}
<1>3. \A d \in R : size(d) \in Nat
  BY <1>1, <1>2
<1>4. \A d \in R \cap Shell : \A p \in Parts[d] \ {d} : p \in R /\ size(p) < size(d)
  BY <1>2, PolicyAssumption
<1> HIDE DEF size
<1> SUFFICES ASSUME Asking # {} PROVE FALSE
  OBVIOUS
<1>5. Sizes \in SUBSET Nat /\ Sizes # {}
  BY <1>3
<1>6. Min(Sizes) \in Sizes /\ \A y \in Sizes : Min(Sizes) <= y
  <2> HIDE DEF Sizes
  <2> QED
    BY <1>5, Smallest
<1>7. PICK d \in Asking : \A e \in Asking : size(d) <= size(e)
  BY <1>6
<1>8. \A p \in R : size(p) < size(d) => Decision(rs, m, p) # "ask"
  BY <1>3, <1>7
<1>9. d \in Calls \ Outside /\ d \in R
  OBVIOUS
<1>10. d \in Shell => /\ Parts[d] # {}
                      /\ \A p \in Parts[d] \ {d} : Decision(rs, m, p) # "ask"
  BY <1>4, <1>8, <1>9
<1>11. Decision(rs, m, d) # "ask"
  BY <1>9, <1>10, CoveredByParts
<1> QED
  BY <1>7, <1>11

(* What an approval adds: a rule of its own priorities, which spares shell *)
(* commands no heuristic.                                                  *)
IsApproval(r) ==
  /\ r.decision = "allow" /\ r.priority \in {SessionPriority, SavedPriority}
  /\ \A c \in r.calls \cap Shell : r.narrow

(* Rule r is what the approval of c in mode m says of the commands that    *)
(* start with word.                                                        *)
Approves(r, c, m, word) ==
  /\ r.tools = {ToolOf[c]} /\ AtLeast(m) \subseteq r.modes
  /\ {d \in Calls : ToolOf[d] = ToolOf[c] /\ StartsWith[d] = word} \subseteq r.calls
  /\ IsApproval(r) /\ (c \in Redirected => r.redirection)

AddsApprovals(rs, old) ==
  /\ InOrder(rs)
  /\ \A j \in DOMAIN rs : \/ \E i \in DOMAIN old : rs[j] = old[i]
                          \/ IsApproval(rs[j])

ApprovedInv ==
  /\ AddsApprovals(rules, configured)
  /\ \A a \in approved : /\ a[1] \in Calls
                         /\ \A word \in Roots[a[1]] :
                              \E j \in DOMAIN rules : Approves(rules[j], a[1], a[2], word)

LEMMA ApprovalRule ==
  ASSUME NEW a, NEW word, NEW priority \in {SessionPriority, SavedPriority}
  PROVE  IsApproval(RuleFor(a, word, priority))
<1> DEFINE r == RuleFor(a, word, priority)
           narrow == \E c \in Shell : StartsWith[c] = word
<1>1. r.decision = "allow" /\ r.priority = priority
  BY DEF RuleFor
<1>2. r.calls = {c \in Calls : ToolOf[c] = a.tool /\ StartsWith[c] = word}
  BY DEF RuleFor
<1>3. r.narrow = narrow
  BY Zenon DEF RuleFor
<1> HIDE DEF r
<1>4. \A c \in r.calls \cap Shell : narrow
  BY <1>2
<1>5. \A c \in r.calls \cap Shell : r.narrow
  BY <1>3, <1>4, Zenon
<1> QED
  BY <1>1, <1>5 DEF IsApproval, r

LEMMA WithApprovalsApprove ==
  ASSUME NEW rs \in Seq(RuleSet), InOrder(rs), NEW approvals \in SUBSET SomeApprovals,
         IsFiniteSet(approvals), NEW priority \in {SessionPriority, SavedPriority}
  PROVE  LET with == WithApprovals(rs, approvals, priority)
         IN  /\ AddsApprovals(with, rs)
             /\ \A i \in DOMAIN rs : \E j \in DOMAIN with : with[j] = rs[i]
             /\ \A a \in approvals : \A word \in a.prefixes :
                  \E j \in DOMAIN with : with[j] = RuleFor(a, word, priority)
<1> DEFINE new == SetToSeq(RulesFor(approvals, priority))
           with == WithApprovals(rs, approvals, priority)
<1>1. priority \in Nat
  BY UpdaterAssumption
<1>2. /\ new \in Seq(RuleSet)
      /\ \A i \in DOMAIN new : \E a \in approvals : \E word \in a.prefixes :
           new[i] = RuleFor(a, word, priority)
      /\ \A a \in approvals : \A word \in a.prefixes : \E i \in DOMAIN new :
           new[i] = RuleFor(a, word, priority)
  BY <1>1, RulesOfApprovals
<1>3. with = WithRules(rs, new, priority)
  BY DEF WithApprovals
<1> HIDE DEF new, with
<1>4. \A i \in DOMAIN new : IsApproval(new[i]) /\ new[i].priority = priority
  <2>1. \A a, word : RuleFor(a, word, priority).priority = priority
    BY DEF RuleFor
  <2> QED
    BY <1>2, <2>1, ApprovalRule
<1>5. InOrder(with) /\ \A i \in DOMAIN new : \E j \in DOMAIN with : with[j] = new[i]
  BY <1>1, <1>2, <1>3, <1>4, WithRulesInOrder
<1>6. /\ \A i \in DOMAIN rs : \E j \in DOMAIN with : with[j] = rs[i]
      /\ \A j \in DOMAIN with : \/ \E i \in DOMAIN rs : with[j] = rs[i]
                                \/ \E i \in DOMAIN new : with[j] = new[i]
  BY <1>2, <1>3, WithRulesKeeps
<1>7. \A a \in approvals : \A word \in a.prefixes :
        \E j \in DOMAIN with : with[j] = RuleFor(a, word, priority)
  <2> SUFFICES ASSUME NEW a \in approvals, NEW word \in a.prefixes
               PROVE  \E j \in DOMAIN with : with[j] = RuleFor(a, word, priority)
    OBVIOUS
  <2>1. PICK i \in DOMAIN new : new[i] = RuleFor(a, word, priority)
    BY <1>2
  <2> QED
    BY <1>5, <2>1
<1>8. AddsApprovals(with, rs)
  <2> SUFFICES ASSUME NEW j \in DOMAIN with, ~ \E i \in DOMAIN rs : with[j] = rs[i]
               PROVE  IsApproval(with[j])
    BY <1>5 DEF AddsApprovals
  <2>1. PICK i \in DOMAIN new : with[j] = new[i]
    BY <1>6
  <2> QED
    BY <1>4, <2>1
<1> QED
  BY <1>6, <1>7, <1>8 DEF with

LEMMA ApprovedInit == Init => ApprovedInv
<1> SUFFICES ASSUME Init PROVE ApprovedInv
  OBVIOUS
<1>1. configured \in Configurations /\ rules = configured /\ approved = {}
  BY DEF Init
<1> QED
  BY <1>1, PolicyAssumption DEF ApprovedInv, AddsApprovals

LEMMA ApprovedStep ==
  ASSUME PolicyInv, ApprovedInv, [Next]_vars
  PROVE  ApprovedInv'
<1>1. /\ configured \in Configurations /\ rules \in Seq(RuleSet)
      /\ file \in SUBSET SomeApprovals /\ IsFiniteSet(file)
  BY DEF PolicyInv, SavedInv, RulesInv, Extends
<1>2. ASSUME UNCHANGED <<configured, rules, approved>> PROVE ApprovedInv'
  BY <1>2 DEF ApprovedInv, AddsApprovals
<1>3. ASSUME NEW c \in Calls, ApproveAlways(c)
      PROVE  ApprovedInv'
  <2>1. approved' = approved \cup {<<c, mode>>} /\ configured' = configured
    BY <1>3 DEF ApproveAlways
  <2>2. PICK priority \in {SessionPriority, SavedPriority} :
          rules' = WithApprovals(rules, {Approval(c)}, priority)
    BY <1>3 DEF ApproveAlways
  <2>3. {Approval(c)} \in SUBSET SomeApprovals /\ IsFiniteSet({Approval(c)})
    BY ApprovalType, FS_Singleton
  <2>4. InOrder(rules)
    BY DEF ApprovedInv, AddsApprovals
  <2>5. /\ AddsApprovals(rules', rules)
        /\ \A i \in DOMAIN rules : \E j \in DOMAIN rules' : rules'[j] = rules[i]
        /\ \A a \in {Approval(c)} : \A word \in a.prefixes :
             \E j \in DOMAIN rules' : rules'[j] = RuleFor(a, word, priority)
    BY <1>1, <2>2, <2>3, <2>4, WithApprovalsApprove
  <2>6. AddsApprovals(rules', configured')
    <3> SUFFICES ASSUME NEW j \in DOMAIN rules', ~IsApproval(rules'[j])
                 PROVE  \E i \in DOMAIN configured : rules'[j] = configured[i]
      BY <2>1, <2>5 DEF AddsApprovals
    <3>1. PICK i \in DOMAIN rules : rules'[j] = rules[i]
      BY <2>5 DEF AddsApprovals
    <3> QED
      BY <3>1 DEF ApprovedInv, AddsApprovals
  <2>7. ASSUME NEW a \in approved, NEW word \in Roots[a[1]]
        PROVE  \E j \in DOMAIN rules' : Approves(rules'[j], a[1], a[2], word)
    <3>1. PICK i \in DOMAIN rules : Approves(rules[i], a[1], a[2], word)
      BY DEF ApprovedInv
    <3>2. PICK j \in DOMAIN rules' : rules'[j] = rules[i]
      BY <2>5
    <3> QED
      BY <3>1, <3>2
  <2>8. ASSUME NEW word \in Roots[c]
        PROVE  \E j \in DOMAIN rules' : Approves(rules'[j], c, mode, word)
    <3> DEFINE a == Approval(c)
               r == RuleFor(a, word, priority)
    <3>1. /\ a.tool = ToolOf[c] /\ a.prefixes = Roots[c]
          /\ a.modes = AtLeast(mode) /\ a.redirection = (c \in Redirected)
      BY DEF Approval
    <3>2. PICK j \in DOMAIN rules' : rules'[j] = r
      BY <2>5, <3>1
    <3>3. IsApproval(r)
      BY ApprovalRule
    <3> HIDE DEF a
    <3>4. /\ r.tools = {a.tool} /\ r.modes = a.modes /\ r.redirection = a.redirection
          /\ r.calls = {d \in Calls : ToolOf[d] = a.tool /\ StartsWith[d] = word}
      BY DEF RuleFor
    <3> HIDE DEF r
    <3>5. Approves(r, c, mode, word)
      BY <3>1, <3>3, <3>4 DEF Approves
    <3> QED
      BY <3>2, <3>5
  <2>9. \A a \in approved' : /\ a[1] \in Calls
                             /\ \A word \in Roots[a[1]] :
                                  \E j \in DOMAIN rules' : Approves(rules'[j], a[1], a[2], word)
    <3> SUFFICES ASSUME NEW a \in approved'
                 PROVE  /\ a[1] \in Calls
                        /\ \A word \in Roots[a[1]] :
                             \E j \in DOMAIN rules' : Approves(rules'[j], a[1], a[2], word)
      OBVIOUS
    <3>1. CASE a \in approved
      BY <2>7, <3>1 DEF ApprovedInv
    <3>2. CASE a = <<c, mode>>
      BY <2>8, <3>2
    <3> QED
      BY <2>1, <3>1, <3>2
  <2> QED
    BY <2>6, <2>9 DEF ApprovedInv
<1>4. CASE Restart
  <2>1. /\ rules' = WithApprovals(configured, file, SavedPriority)
        /\ configured' = configured /\ approved' = {}
    BY <1>4 DEF Restart
  <2>2. configured \in Seq(RuleSet) /\ InOrder(configured)
    BY <1>1, PolicyAssumption
  <2>3. AddsApprovals(rules', configured)
    BY <1>1, <2>1, <2>2, WithApprovalsApprove
  <2> QED
    BY <2>1, <2>3 DEF ApprovedInv
<1>5. CASE Bus /\ UNCHANGED <<engineVars, updaterVars>>
  BY <1>2, <1>5 DEF engineVars, updaterVars
<1>6. ASSUME NEW m, SwitchMode(m)
      PROVE  ApprovedInv'
  BY <1>2, <1>6 DEF SwitchMode, updaterVars
<1>7. CASE Load \/ Store \/ StoreFails
  BY <1>2, <1>7 DEF Load, Store, StoreFails, engineVars
<1>8. CASE UNCHANGED vars
  BY <1>2, <1>8 DEF vars, engineVars, updaterVars
<1> QED
  BY <1>3, <1>4, <1>5, <1>6, <1>7, <1>8 DEF Next

LEMMA ApprovedHolds == Spec => []ApprovedInv
<1>1. PolicyInv /\ ApprovedInv /\ [Next]_vars => ApprovedInv'
  BY ApprovedStep
<1> QED
  BY <1>1, ApprovedInit, PolicyHolds, PTL DEF Spec

(* What of a call an approval of it concerns: the call and its parts.      *)
Reach(c) == {c} \cup (IF c \in Shell THEN Parts[c] ELSE {})

(* If c is a command it could be parsed, with its parts, and all it runs   *)
(* is among what was approved; nothing of c leaves the workspace.          *)
Settled(c) ==
  /\ Reach(c) \cap Outside = {}
  /\ c \in Shell => \A d \in Reach(c) :
       /\ Parts[d] # {} /\ Parts[d] \subseteq Parts[c]
       /\ ToolOf[d] = ToolOf[c] /\ StartsWith[d] \in Roots[c]
       /\ d \in Redirected => c \in Redirected

(* No configured rule shares the priority of approvals, and saved ones do  *)
(* not yield to those of the session.                                      *)
ApprovalsDecide ==
  /\ SavedPriority >= SessionPriority
  /\ \A i \in DOMAIN configured : configured[i].priority # SessionPriority
  /\ \A a \in approved : Settled(a[1])

(* Who approved a call "always" is not asked about it again in the same or *)
(* a more permissive mode unless a rule of a higher tier concerns it,      *)
(* provided that the command could be parsed, asks for no permissions      *)
(* outside the workspace, and no configured rule shares the priority of    *)
(* approvals (policy/config.ts, createPolicyUpdater; policy-engine.ts).    *)
THEOREM ApprovalsHold == Spec => [](ApprovalsDecide => ApprovalHolds)
<1>1. PolicyInv /\ ApprovedInv => (ApprovalsDecide => ApprovalHolds)
  <2> SUFFICES ASSUME PolicyInv, ApprovedInv, ApprovalsDecide, NEW a \in approved,
                      mode \in AtLeast(a[2]), ~Overruled(a[1])
               PROVE  Decision(rules, mode, a[1]) # "ask"
    BY DEF ApprovalHolds
  <2> DEFINE c == a[1]
  <2>1. c \in Calls /\ Settled(c)
    BY DEF ApprovedInv, ApprovalsDecide
  <2>2. /\ rules \in Seq(RuleSet) /\ configured \in Configurations
    BY DEF PolicyInv, RulesInv, Extends
  <2>3. Reach(c) \in SUBSET (Calls \ Outside)
    BY <2>1, PolicyAssumption DEF Reach, Settled
  <2>4. ASSUME NEW d \in Reach(c)
        PROVE  /\ ToolOf[d] = ToolOf[c] /\ StartsWith[d] \in Roots[c]
               /\ d \in Shell => Parts[d] # {} /\ Parts[d] \subseteq Reach(c)
               /\ d \in Shell /\ Redirected \cap (Parts[d] \cup {d}) # {} => c \in Redirected
    <3>1. CASE c \in Shell
      <4>1. \A e \in Reach(c) : e \in Redirected => c \in Redirected
        BY <2>1, <3>1 DEF Settled
      <4>2. Parts[d] \subseteq Reach(c)
        BY <2>1, <2>4, <3>1 DEF Settled, Reach
      <4> QED
        BY <2>1, <2>4, <3>1, <4>1, <4>2 DEF Settled
    <3>2. CASE c \notin Shell
      BY <2>1, <2>4, <3>2, UpdaterAssumption DEF Reach
    <3> QED
      BY <3>1, <3>2
  <2>5. ASSUME NEW d \in Reach(c)
        PROVE  Covered(rules, mode, d)
    <3>1. d \in Calls
      BY <2>3
    <3>2. PICK k \in DOMAIN rules : Approves(rules[k], c, a[2], StartsWith[d])
      BY <2>4 DEF ApprovedInv
    <3>3. k \in Matching(rules, mode, d)
      BY <2>4, <3>1, <3>2 DEF Matching, Matches, Approves
    <3>4. ASSUME NEW i \in Matching(rules, mode, d), i <= k
          PROVE  IsApproval(rules[i])
      <4> SUFFICES ASSUME NEW h \in DOMAIN configured, rules[i] = configured[h]
                   PROVE  i = k
        BY <3>2, <3>4 DEF ApprovedInv, AddsApprovals, Matching, Approves
      <4>1. i \in DOMAIN rules /\ Matches(configured[h], d, mode)
        BY DEF Matching
      <4>2. i # k => rules[i].priority >= rules[k].priority
        BY <2>2, <3>4, <4>1 DEF ApprovedInv, AddsApprovals, InOrder
      <4>3. /\ rules[k].priority \in {SessionPriority, SavedPriority}
            /\ SavedPriority >= SessionPriority
            /\ configured[h].priority # SessionPriority
        BY <3>2 DEF Approves, IsApproval, ApprovalsDecide
      <4>4. configured[h].priority \in Nat
        <5>1. configured[h] \in RuleSet
          BY <2>2, PolicyAssumption
        <5> QED
          BY <5>1 DEF RuleSet
      <4>5. ~(configured[h].priority > SessionPriority)
        BY <4>1 DEF Overruled, Reach
      <4> QED
        BY <4>2, <4>3, <4>4, <4>5, UpdaterAssumption
    <3>5. ASSUME NEW i \in Matching(rules, mode, d), i <= k
          PROVE  rules[i].decision = "allow" /\ (d \in Shell => rules[i].narrow)
      <4>1. IsApproval(rules[i])
        BY <3>4, <3>5
      <4>2. d \in rules[i].calls
        BY DEF Matching, Matches
      <4> QED
        BY <4>1, <4>2 DEF IsApproval
    <3>6. d \in Shell /\ Redirected \cap (Parts[d] \cup {d}) # {} => rules[k].redirection
      BY <2>4, <3>2 DEF Approves
    <3> QED
      BY <3>3, <3>5, <3>6 DEF Covered
  <2>6. \A d \in Reach(c) : Decision(rules, mode, d) # "ask"
    BY <2>2, <2>3, <2>4, <2>5, CoveredNeverAsks
  <2> QED
    BY <2>6 DEF Reach
<1> QED
  BY <1>1, PolicyHolds, ApprovedHolds, PTL

-----------------------------------------------------------------------------
(* Types.                                                                  *)

(* The types of the requests of tools and of what has been approved.       *)
RequestTypes ==
  /\ BusTypeOK
  /\ approved \subseteq Calls \X Range(Modes) /\ saved \in Seq(Approvals)

LEMMA SettleTypes ==
  ASSUME BusTypeOK, NEW S, NEW d \in Decisions, Settle(S, d)
  PROVE  answer' \in [Requests -> Decisions \cup {"none"}] /\ handlers' \subseteq Requests
  BY DEF BusTypeOK, Settle

LEMMA BusTypes ==
  ASSUME BusTypeOK, rules \in Seq(RuleSet), Bus
  PROVE  BusTypeOK'
<1>1. CASE UserResponds
  <2>1. PICK d \in {"allow", "deny"} : Settle(Addressed("confirmation"), d)
    BY <1>1 DEF UserResponds
  <2>2. d \in Decisions
    BY DEF Decisions
  <2> QED
    BY <1>1, <2>1, <2>2, SettleTypes DEF UserResponds, BusTypeOK
<1>2. ASSUME NEW r \in Requests, NEW c \in Calls, Ask(r, c)
      PROVE  BusTypeOK'
  <2>1. Checks(rules, mode, c) \in SUBSET Decisions
    BY CheckedAs
  <2>2. "deny" \in Decisions
    BY DEF Decisions
  <2> QED
    BY <1>2, <2>1, <2>2 DEF Ask, BusTypeOK
<1>3. ASSUME NEW r \in Requests, Checked(r)
      PROVE  BusTypeOK'
  <2>1. PICK d \in check[r] : Settle(Addressed(r), d)
    BY <1>3 DEF Checked
  <2>2. d \in Decisions
    BY DEF BusTypeOK
  <2>3. answer' \in [Requests -> Decisions \cup {"none"}] /\ handlers' \subseteq Requests
    BY <2>1, <2>2, SettleTypes
  <2> QED
    BY <1>3, <2>3 DEF Checked, BusTypeOK
<1>4. ASSUME NEW r \in Requests, CheckFails(r)
      PROVE  BusTypeOK'
  BY <1>4 DEF CheckFails, BusTypeOK
<1>5. ASSUME NEW r \in Requests, Timeout(r) \/ Abort(r)
      PROVE  BusTypeOK'
  <2>1. PICK d \in {"ask", "deny"} : Settle({r}, d)
    BY <1>5 DEF Timeout, TimesOut, Abort
  <2>2. d \in Decisions
    BY DEF Decisions
  <2>3. answer' \in [Requests -> Decisions \cup {"none"}] /\ handlers' \subseteq Requests
    BY <2>1, <2>2, SettleTypes
  <2> QED
    BY <1>5, <2>3 DEF Timeout, Abort, BusTypeOK
<1> QED
  BY <1>1, <1>2, <1>3, <1>4, <1>5 DEF Bus

LEMMA RequestTypesStay ==
  ASSUME PolicyInv, RequestTypes, [Next]_vars
  PROVE  RequestTypes'
<1> USE DEF RequestTypes
<1>1. rules \in Seq(RuleSet) /\ mode \in Range(Modes)
  BY DEF PolicyInv, RulesInv, Extends
<1>2. CASE Bus /\ UNCHANGED <<engineVars, updaterVars>>
  BY <1>1, <1>2, BusTypes DEF updaterVars
<1>3. CASE UNCHANGED busVars /\ UNCHANGED <<approved, saved>>
  BY <1>3 DEF busVars, BusTypeOK
<1>4. ASSUME NEW c \in Calls, ApproveAlways(c)
      PROVE  RequestTypes'
  <2>1. approved' = approved \cup {<<c, mode>>} /\ UNCHANGED <<busVars, saved>>
    BY <1>4 DEF ApproveAlways
  <2> QED
    BY <1>1, <2>1 DEF busVars, BusTypeOK
<1>5. CASE Restart
  BY <1>5 DEF Restart, BusTypeOK
<1>6. CASE Load \/ StoreFails \/ \E m \in Range(Modes) : SwitchMode(m)
  BY <1>3, <1>6 DEF Load, StoreFails, SwitchMode, updaterVars
<1>7. CASE UNCHANGED vars
  BY <1>3, <1>7 DEF vars, updaterVars
<1>8. CASE Store
  <2>1. queue \in Seq(SomeApprovals) /\ queue # <<>>
    BY <1>8 DEF Store, PolicyInv, SavedInv
  <2>2. Head(queue) \in SomeApprovals
    BY <2>1
  <2>3. Head(queue) \in Approvals
    BY <2>2 DEF SomeApprovals
  <2>4. saved' = Append(saved, Head(queue)) /\ UNCHANGED <<busVars, approved>>
    BY <1>8 DEF Store
  <2> QED
    BY <2>3, <2>4 DEF busVars, BusTypeOK
<1> QED
  BY <1>2, <1>4, <1>5, <1>6, <1>7, <1>8 DEF Next

(* Every variable keeps its type; in particular whatever a tool is         *)
(* answered is one of the three decisions, and the rules in force and      *)
(* those of the file stay well-formed through merging, sorting and         *)
(* restarts (message-bus.ts, policy-engine.ts, policy/config.ts).          *)
THEOREM PolicyTypes == Spec => []TypeOK
<1>1. Init => RequestTypes
  BY DEF Init, BusInit, RequestTypes, BusTypeOK
<1>2. PolicyInv /\ RequestTypes /\ [Next]_vars => RequestTypes'
  BY RequestTypesStay
<1>3. PolicyInv /\ RequestTypes => TypeOK
  <2> SUFFICES ASSUME PolicyInv, RequestTypes PROVE TypeOK
    OBVIOUS
  <2>1. EngineTypeOK /\ configured \in Configurations
    BY DEF PolicyInv, RulesInv, Extends, EngineTypeOK
  <2>2. SomeApprovals \subseteq Approvals
    BY DEF SomeApprovals
  <2>3. queue \in Seq(SomeApprovals) /\ file \subseteq SomeApprovals
    BY DEF PolicyInv, SavedInv
  <2>4. queue \in Seq(Approvals)
    BY <2>2, <2>3
  <2>5. file \in SUBSET Approvals
    BY <2>2, <2>3
  <2>6. loaded \in Seq(SUBSET Approvals)
    <3>1. loaded = <<>> \/ loaded = <<file>>
      BY DEF PolicyInv, InTurn
    <3>2. <<file>> \in Seq(SUBSET Approvals) /\ <<>> \in Seq(SUBSET Approvals)
      BY <2>5
    <3> QED
      BY <3>1, <3>2
  <2> QED
    BY <2>1, <2>4, <2>5, <2>6 DEF RequestTypes, TypeOK
<1> QED
  BY <1>1, <1>2, <1>3, PolicyHolds, PTL DEF Spec

-----------------------------------------------------------------------------
(* Saved approvals.                                                        *)

Frozen == UNCHANGED <<file, saved>>

(* Merging an approval puts it into the file with its modes, and keeps     *)
(* every rule, but for the modes of the one for the same tool and words.   *)
LEMMA MergedKeeps ==
  ASSUME NEW old \in SUBSET Approvals, NEW a \in Approvals
  PROVE  /\ \E e \in Merged(old, a) :
              SameRule(e, a) /\ (a.redirection => e.redirection) /\ e.modes = a.modes
         /\ \A e \in old : \E f \in Merged(old, a) :
              /\ f.tool = e.tool /\ f.prefixes = e.prefixes
              /\ e.redirection => f.redirection
              /\ ~SameRule(e, a) => f = e
<1> DEFINE now(e) == IF SameRule(e, a)
                     THEN [e EXCEPT !.modes = a.modes,
                                    !.redirection = @ \/ a.redirection]
                     ELSE e
<1>1. CASE \E e \in old : SameRule(e, a)
  <2>1. Merged(old, a) = {now(e) : e \in old}
    BY <1>1, Zenon DEF Merged
  <2>2. \A e \in old : now(e).tool = e.tool /\ now(e).prefixes = e.prefixes
    BY DEF Approvals
  <2>3. \A e \in old : e.redirection => now(e).redirection
    BY DEF Approvals
  <2>4. \A e \in old : ~SameRule(e, a) => now(e) = e
    OBVIOUS
  <2>5. \A e \in old : SameRule(e, a) =>
          now(e).modes = a.modes /\ (a.redirection => now(e).redirection)
    BY DEF Approvals
  <2>6. \A e \in old : now(e) \in Merged(old, a)
    BY <2>1, Zenon
  <2> HIDE DEF now
  <2>7. PICK e \in old : SameRule(e, a)
    BY <1>1
  <2>8. SameRule(now(e), a)
    BY <2>2, <2>7 DEF SameRule
  <2>9. \E f \in Merged(old, a) :
          SameRule(f, a) /\ (a.redirection => f.redirection) /\ f.modes = a.modes
    <3>1. SameRule(e, a) /\ e \in old
      BY <2>7
    <3>2. now(e).modes = a.modes /\ (a.redirection => now(e).redirection)
      BY <2>5, <3>1
    <3>3. now(e) \in Merged(old, a)
      BY <2>6, <3>1
    <3> QED
      BY <2>8, <3>2, <3>3, Zenon
  <2>10. ASSUME NEW d \in old
         PROVE  \E f \in Merged(old, a) :
                  /\ f.tool = d.tool /\ f.prefixes = d.prefixes
                  /\ d.redirection => f.redirection
                  /\ ~SameRule(d, a) => f = d
    BY <2>2, <2>3, <2>4, <2>6
  <2> QED
    BY <2>9, <2>10
<1>2. CASE ~ \E e \in old : SameRule(e, a)
  <2>1. Merged(old, a) = old \cup {a}
    BY <1>2 DEF Merged
  <2> QED
    BY <2>1 DEF SameRule
<1> QED
  BY <1>1, <1>2

LEMMA SavedByStore ==
  ASSUME TypeOK, PolicyInv, SavedStays, Store
  PROVE  SavedStays'
<1> DEFINE a == Head(queue)
           n == Len(saved) + 1
           Kept(i, e, s) == /\ SameRule(e, s[i])
                            /\ s[i].redirection => e.redirection
                            /\ s[i].modes = e.modes
                                 \/ \E k \in DOMAIN s : k > i /\ SameRule(s[k], s[i])
<1>1. file' = Merged(file, a) /\ saved' = Append(saved, a)
  BY DEF Store, PolicyInv, InTurn
<1>2. queue # <<>>
  BY DEF Store, PolicyInv, SavedInv
<1>3. a \in Approvals /\ file \in SUBSET Approvals /\ saved \in Seq(Approvals)
  BY <1>2 DEF TypeOK
<1> HIDE DEF a
<1>4. saved'[n] = a /\ DOMAIN saved' = DOMAIN saved \cup {n}
      /\ \A i \in DOMAIN saved : saved'[i] = saved[i] /\ n > i
  <2>1. /\ Len(saved') = n /\ saved'[n] = a
        /\ \A i \in 1..Len(saved) : saved'[i] = saved[i] /\ n > i
    <3>1. saved' = Append(saved, a) /\ saved \in Seq(Approvals) /\ a \in Approvals
      BY <1>1, <1>3
    <3> QED
      BY <3>1
  <2>2. DOMAIN saved' = 1..n /\ DOMAIN saved = 1..Len(saved) /\ Len(saved) \in Nat
    BY <1>1, <1>3
  <2> QED
    BY <2>1, <2>2
<1>5. \E e \in file' : Kept(n, e, saved')
  BY <1>1, <1>3, <1>4, MergedKeeps
<1>6. ASSUME NEW i \in DOMAIN saved
      PROVE  \E e \in file' : Kept(i, e, saved')
  <2>1. PICK e \in file : Kept(i, e, saved)
    BY <1>6 DEF SavedStays
  <2>2. PICK f \in file' : /\ f.tool = e.tool /\ f.prefixes = e.prefixes
                           /\ e.redirection => f.redirection
                           /\ ~SameRule(e, a) => f = e
    BY <1>1, <1>3, MergedKeeps
  <2> QED
    BY <1>4, <2>1, <2>2 DEF SameRule
<1> QED
  BY <1>1, <1>4, <1>5, <1>6 DEF SavedStays

LEMMA SavedStep ==
  ASSUME TypeOK, PolicyInv, SavedStays, [Next]_vars
  PROVE  SavedStays'
<1>1. CASE Frozen
  BY <1>1 DEF Frozen, SavedStays
<1>2. CASE Store
  BY <1>2, SavedByStore
<1>3. CASE Load \/ StoreFails \/ Restart
  BY <1>1, <1>3 DEF Frozen, Load, StoreFails, Restart
<1>4. CASE Bus /\ UNCHANGED <<engineVars, updaterVars>>
  BY <1>1, <1>4 DEF Frozen, updaterVars
<1>5. ASSUME NEW c \in Calls, ApproveAlways(c)
      PROVE  SavedStays'
  BY <1>1, <1>5 DEF Frozen, ApproveAlways
<1>6. ASSUME NEW m, SwitchMode(m)
      PROVE  SavedStays'
  BY <1>1, <1>6 DEF Frozen, SwitchMode, updaterVars
<1>7. CASE UNCHANGED vars
  BY <1>1, <1>7 DEF Frozen, vars, updaterVars
<1> QED
  BY <1>2, <1>3, <1>4, <1>5, <1>6, <1>7 DEF Next

(* The tool, the words and the redirections of an approval that was saved  *)
(* stay in the file, and its modes until the same tool and words are       *)
(* approved again, whatever is approved while another one is being saved,  *)
(* and wherever a session ends (policy/config.ts, the queue of             *)
(* persistence).                                                           *)
THEOREM ApprovalsAreKept == Spec => []SavedStays
<1>1. Init => SavedStays
  BY DEF Init, SavedStays
<1>2. TypeOK /\ PolicyInv /\ SavedStays /\ [Next]_vars => SavedStays'
  BY SavedStep
<1> QED
  BY <1>1, <1>2, PolicyTypes, PolicyHolds, PTL DEF Spec
=============================================================================
