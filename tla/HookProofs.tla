----------------------------- MODULE HookProofs -----------------------------
(***************************************************************************)
(* What TLAPS proves of the hook system, for any hooks, events, answers    *)
(* and timeouts: types, what the hooks of a sequence see of each other,    *)
(* and what the verdict keeps of their answers.                            *)
(***************************************************************************)
EXTENDS HookProperties, WellFoundedInduction, TLAPS

-----------------------------------------------------------------------------
(* Numbers, and functions that are defined from one number to the next.    *)

LEMMA Smallest ==
  ASSUME NEW S \in SUBSET Nat, S # {}
  PROVE  \E x \in S : \A y \in S : x <= y
<1> DEFINE R == {p \in Nat \X Nat : p[1] < p[2]}
<1>1. IsWellFoundedOn(R, Nat)
  BY NatLessThanWellFounded DEF OpToRel
<1>2. R = {p \in Nat \X Nat : p[1] < p[2]}
  OBVIOUS
<1> HIDE DEF R
<1>3. PICK x \in S : \A y \in S : ~ (<<y, x>> \in R)
  BY <1>1, WFMin
<1>4. \A y \in S : ~(y < x)
  <2> SUFFICES ASSUME NEW y \in S, y < x PROVE FALSE
    OBVIOUS
  <2>1. <<y, x>> \in Nat \X Nat /\ <<y, x>>[1] < <<y, x>>[2]
    OBVIOUS
  <2> QED
    BY <2>1, <1>2, <1>3
<1> QED
  BY <1>4

(* Induction, over a set of numbers.                                       *)
LEMMA UpTo ==
  ASSUME NEW n \in Nat, NEW S, 0 \in S,
         \A k \in 1..n : k - 1 \in S => k \in S
  PROVE  \A k \in 0..n : k \in S
<1> DEFINE T == {k \in 0..n : k \notin S}
<1> SUFFICES ASSUME T # {} PROVE FALSE
  OBVIOUS
<1>1. T \in SUBSET Nat
  OBVIOUS
<1>2. PICK k \in T : \A y \in T : k <= y
  <2> HIDE DEF T
  <2> QED
    BY <1>1, Smallest
<1>3. k \in 1..n /\ k - 1 \in 0..n /\ ~(k <= k - 1)
  OBVIOUS
<1>4. k - 1 \in S
  BY <1>2, <1>3
<1> QED
  BY <1>3, <1>4

LEMMA Iterated ==
  ASSUME NEW A, NEW base \in A, NEW n \in Nat, NEW F \in [1..n -> [A -> A]]
  PROVE  \E g \in [0..n -> A] : g[0] = base /\ \A k \in 1..n : g[k] = F[k][g[k - 1]]
<1> DEFINE Good(m, g) == g[0] = base /\ \A k \in 1..m : g[k] = F[k][g[k - 1]]
           S == {m \in 0..n : \E g \in [0..m -> A] : Good(m, g)}
<1>1. 0 \in S
  <2> DEFINE g == [k \in 0..0 |-> base]
  <2>1. g \in [0..0 -> A] /\ g[0] = base
    OBVIOUS
  <2>2. 1..0 = {}
    OBVIOUS
  <2> HIDE DEF g
  <2>3. Good(0, g)
    BY <2>1, <2>2
  <2> QED
    BY <2>1, <2>3
<1>2. ASSUME NEW m \in 1..n, m - 1 \in S PROVE m \in S
  <2>1. PICK g \in [0..(m - 1) -> A] : Good(m - 1, g)
    BY <1>2
  <2>2. g[m - 1] \in A /\ F[m][g[m - 1]] \in A
    OBVIOUS
  <2> DEFINE h == [k \in 0..m |-> IF k < m THEN g[k] ELSE F[m][g[m - 1]]]
  <2>3. h \in [0..m -> A]
    BY <2>2
  <2>4. \A k \in 0..(m - 1) : h[k] = g[k]
    OBVIOUS
  <2>5. h[m] = F[m][g[m - 1]]
    OBVIOUS
  <2> HIDE DEF h
  <2>6. ASSUME NEW k \in 1..m PROVE h[k] = F[k][h[k - 1]]
    <3>1. CASE k = m
      <4>1. m - 1 \in 0..(m - 1)
        OBVIOUS
      <4> QED
        BY <2>4, <2>5, <3>1, <4>1
    <3>2. CASE k # m
      <4>1. k \in 1..(m - 1) /\ k - 1 \in 0..(m - 1) /\ k \in 0..(m - 1)
        BY <3>2
      <4> QED
        BY <2>1, <2>4, <4>1
    <3> QED
      BY <3>1, <3>2
  <2>7. h[0] = base
    BY <2>1, <2>4
  <2>8. Good(m, h) /\ m \in 0..n
    BY <2>6, <2>7
  <2> HIDE DEF Good
  <2> QED
    BY <2>3, <2>8
<1> HIDE DEF S
<1>3. \A m \in 1..n : m - 1 \in S => m \in S
  BY <1>2
<1>4. n \in 0..n
  OBVIOUS
<1>5. n \in S
  BY <1>1, <1>3, <1>4, UpTo
<1> QED
  BY <1>5 DEF S

-----------------------------------------------------------------------------
(* Filtering.                                                              *)

(* g[k]: what is kept of the first k elements.                             *)
Filters(q, keep, g) ==
  /\ g[0] = <<>>
  /\ \A k \in 1..Len(q) : g[k] = IF q[k] \in keep THEN Append(g[k - 1], q[k]) ELSE g[k - 1]

LEMMA FilteredIs ==
  ASSUME NEW S, NEW q \in Seq(S), NEW keep
  PROVE  \E g \in [0..Len(q) -> Seq(S)] : Filters(q, keep, g) /\ Filtered(q, keep) = g[Len(q)]
<1> DEFINE n == Len(q)
           A == Seq(S)
           next(s, k) == IF q[k] \in keep THEN Append(s, q[k]) ELSE s
           F == [k \in 1..n |-> [s \in A |-> next(s, k)]]
           Is(g) == g = [k \in 0..n |-> IF k = 0 THEN <<>>
                           ELSE IF q[k] \in keep THEN Append(g[k - 1], q[k]) ELSE g[k - 1]]
           found == CHOOSE h : Is(h)
<1>1. Filtered(q, keep) = found[n]
  BY Zenon DEF Filtered
<1> HIDE DEF found, Is
<1>2. n \in Nat /\ \A k \in 1..n : q[k] \in S
  OBVIOUS
<1>3. <<>> \in A
  OBVIOUS
<1>4. \A s \in A, k \in 1..n : next(s, k) \in A
  BY <1>2
<1>5. \A g : Is(g) <=> g = [k \in 0..n |-> IF k = 0 THEN <<>> ELSE next(g[k - 1], k)]
  BY Zenon DEF Is
<1>6. A = Seq(S) /\ n = Len(q)
  OBVIOUS
<1>7. \A s, k : next(s, k) = IF q[k] \in keep THEN Append(s, q[k]) ELSE s
  OBVIOUS
<1> HIDE DEF n, A, next
<1>8. F \in [1..n -> [A -> A]] /\ \A s \in A, k \in 1..n : F[k][s] = next(s, k)
  BY <1>4
<1> HIDE DEF F
<1>9. PICK g \in [0..n -> A] : g[0] = <<>> /\ \A k \in 1..n : g[k] = F[k][g[k - 1]]
  <2>1. n \in Nat /\ F \in [1..n -> [A -> A]]
    BY <1>2, <1>8
  <2> QED
    BY <1>3, <2>1, Iterated
<1>10. \A k \in 1..n : k - 1 \in 0..n /\ k # 0 /\ k \in 0..n
  BY <1>2
<1>11. \A k \in 1..n : g[k] = next(g[k - 1], k)
  BY <1>8, <1>9, <1>10
<1>12. \A k \in 0..n : k = 0 \/ k \in 1..n
  BY <1>2
<1>13. Is(g)
  BY <1>5, <1>9, <1>11, <1>12
<1>14. Is(found)
  BY <1>13 DEF found
<1>15. /\ found = [k \in 0..n |-> found[k]] /\ found[0] = <<>>
       /\ \A k \in 1..n : found[k] = next(found[k - 1], k)
  <2>1. 0 \in 0..n
    BY <1>2
  <2>2. found = [k \in 0..n |-> IF k = 0 THEN <<>> ELSE next(found[k - 1], k)]
    BY <1>5, <1>14
  <2> QED
    BY <1>10, <2>1, <2>2
<1>16. \A k \in 0..n : found[k] \in A
  <2> DEFINE T == {j \in 0..n : found[j] \in A}
  <2>1. 0 \in T
    BY <1>2, <1>3, <1>15
  <2>2. ASSUME NEW k \in 1..n, k - 1 \in T PROVE k \in T
    BY <1>4, <1>10, <1>15, <2>2
  <2> HIDE DEF T
  <2>3. \A k \in 0..n : k \in T
    BY <1>2, <2>1, <2>2, UpTo
  <2> QED
    BY <2>3 DEF T
<1>17. found \in [0..n -> A]
  BY <1>15, <1>16
<1>18. Filters(q, keep, found)
  BY <1>6, <1>7, <1>15 DEF Filters
<1> QED
  BY <1>1, <1>6, <1>17, <1>18

LEMMA Appended ==
  ASSUME NEW S, NEW s \in Seq(S), NEW x \in S
  PROVE  /\ Range(Append(s, x)) = Range(s) \cup {x}
         /\ IsInjective(s) /\ x \notin Range(s) => IsInjective(Append(s, x))
<1> DEFINE n == Len(s)
           r == Append(s, x)
<1>1. /\ n \in Nat /\ DOMAIN s = 1..n /\ DOMAIN r = 1..(n + 1)
      /\ \A i \in 1..n : r[i] = s[i]
      /\ r[n + 1] = x
  OBVIOUS
<1> HIDE DEF n, r
<1>2. 1..(n + 1) = (1..n) \cup {n + 1}
  BY <1>1
<1>3. Range(r) = Range(s) \cup {x}
  BY <1>1, <1>2 DEF Range
<1>4. ASSUME IsInjective(s), x \notin Range(s), NEW i \in DOMAIN r, NEW j \in DOMAIN r, r[i] = r[j]
      PROVE  i = j
  <2>1. i \in (1..n) \cup {n + 1} /\ j \in (1..n) \cup {n + 1}
    BY <1>1, <1>2
  <2>2. \A k \in 1..n : r[k] # x
    BY <1>1, <1>4 DEF Range
  <2>3. CASE i \in 1..n /\ j \in 1..n
    BY <1>1, <1>4, <2>3 DEF IsInjective
  <2>4. CASE i = n + 1 \/ j = n + 1
    BY <1>1, <1>4, <2>1, <2>2, <2>4
  <2> QED
    BY <2>1, <2>3, <2>4
<1>5. IsInjective(s) /\ x \notin Range(s) => IsInjective(r)
  BY <1>4 DEF IsInjective
<1> QED
  BY <1>3, <1>5 DEF r

LEMMA Joined ==
  ASSUME NEW S, NEW a \in Seq(S), NEW b \in Seq(S)
  PROVE  /\ a \o b \in Seq(S)
         /\ Range(a \o b) = Range(a) \cup Range(b)
         /\ IsInjective(a) /\ IsInjective(b) /\ Range(a) \cap Range(b) = {} =>
              IsInjective(a \o b)
<1> DEFINE m == Len(a)
           n == Len(b)
           r == a \o b
<1>1. /\ m \in Nat /\ n \in Nat /\ DOMAIN a = 1..m /\ DOMAIN b = 1..n
      /\ DOMAIN r = 1..(m + n) /\ r \in Seq(S)
      /\ \A i \in 1..m : r[i] = a[i]
      /\ \A i \in 1..n : r[m + i] = b[i]
  OBVIOUS
<1> HIDE DEF m, n, r
<1>2. \A i \in 1..(m + n) : i \in 1..m \/ (i - m \in 1..n /\ m + (i - m) = i)
  BY <1>1
<1>3. \A i \in 1..m : i \in 1..(m + n)
  BY <1>1
<1>4. \A i \in 1..n : m + i \in 1..(m + n)
  BY <1>1
<1>5. \A i \in DOMAIN r : IF i \in 1..m THEN r[i] = a[i] ELSE i - m \in 1..n /\ r[i] = b[i - m]
  BY <1>1, <1>2
<1>6. Range(r) = Range(a) \cup Range(b)
  <2>1. \A x \in Range(r) : x \in Range(a) \cup Range(b)
    BY <1>1, <1>5 DEF Range
  <2>2. \A x \in Range(a) : x \in Range(r)
    BY <1>1, <1>3 DEF Range
  <2>3. \A x \in Range(b) : x \in Range(r)
    BY <1>1, <1>4 DEF Range
  <2> QED
    BY <2>1, <2>2, <2>3
<1>7. ASSUME IsInjective(a), IsInjective(b), Range(a) \cap Range(b) = {},
             NEW i \in DOMAIN r, NEW j \in DOMAIN r, r[i] = r[j]
      PROVE  i = j
  <2>1. \A k \in 1..m, l \in 1..n : a[k] # b[l]
    BY <1>1, <1>7 DEF Range
  <2>2. CASE i \in 1..m /\ j \in 1..m
    BY <1>1, <1>7, <2>2 DEF IsInjective
  <2>3. CASE i \notin 1..m /\ j \notin 1..m
    <3>1. i - m = j - m
      BY <1>1, <1>5, <1>7, <2>3 DEF IsInjective
    <3>2. i \in Int /\ j \in Int
      BY <1>1
    <3> QED
      BY <1>1, <3>1, <3>2
  <2>4. CASE (i \in 1..m) # (j \in 1..m)
    BY <1>5, <1>7, <2>1, <2>4
  <2> QED
    BY <2>2, <2>3, <2>4
<1>8. IsInjective(a) /\ IsInjective(b) /\ Range(a) \cap Range(b) = {} => IsInjective(r)
  BY <1>7 DEF IsInjective
<1> QED
  BY <1>1, <1>6, <1>8 DEF r

LEMMA Kept ==
  ASSUME NEW S, NEW q \in Seq(S), NEW keep
  PROVE  /\ Filtered(q, keep) \in Seq(S)
         /\ Range(Filtered(q, keep)) \subseteq Range(q) \cap keep
         /\ IsInjective(q) => IsInjective(Filtered(q, keep))
<1> DEFINE n == Len(q)
<1>1. n \in Nat /\ DOMAIN q = 1..n /\ \A k \in 1..n : q[k] \in S
  OBVIOUS
<1>2. PICK g \in [0..n -> Seq(S)] : Filters(q, keep, g) /\ Filtered(q, keep) = g[n]
  BY FilteredIs
<1>3. /\ g[0] = <<>>
      /\ \A k \in 1..n : g[k] = IF q[k] \in keep THEN Append(g[k - 1], q[k]) ELSE g[k - 1]
  BY <1>2 DEF Filters
<1> HIDE DEF n
<1> DEFINE Inside(k) == \A x \in Range(g[k]) : x \in keep /\ \E i \in 1..k : x = q[i]
           Good(k) == Inside(k) /\ (IsInjective(q) => IsInjective(g[k]))
           T == {k \in 0..n : Good(k)}
<1>4. 0 \in T
  <2>1. Range(<<>>) = {} /\ IsInjective(<<>>)
    BY DEF Range, IsInjective
  <2> QED
    BY <1>1, <1>3, <2>1
<1>5. ASSUME NEW k \in 1..n, k - 1 \in T PROVE k \in T
  <2>1. k \in 0..n /\ k - 1 \in 0..n /\ k \in Nat /\ \A i \in 1..(k - 1) : i \in 1..k /\ i # k /\ i \in 1..n
    BY <1>1
  <2>2. Good(k - 1)
    BY <1>5
  <2> HIDE DEF Good
  <2>3. Good(k)
    <3> DEFINE s == g[k - 1]
    <3>1. s \in Seq(S) /\ q[k] \in S
      BY <1>1, <1>2, <2>1
    <3>2. CASE q[k] \notin keep
      <4>1. g[k] = g[k - 1]
        BY <1>3, <3>2
      <4> QED
        BY <2>1, <2>2, <4>1 DEF Good
    <3>3. CASE q[k] \in keep
      <4>1. g[k] = Append(s, q[k])
        BY <1>3, <3>3
      <4> HIDE DEF s
      <4>2. /\ Range(g[k]) = Range(s) \cup {q[k]}
            /\ IsInjective(s) /\ q[k] \notin Range(s) => IsInjective(g[k])
        BY <3>1, <4>1, Appended
      <4>3. k \in 1..k
        BY <2>1
      <4>4. Inside(k)
        BY <2>1, <2>2, <3>3, <4>2, <4>3 DEF Good, s
      <4>5. IsInjective(q) => q[k] \notin Range(s)
        BY <1>1, <2>1, <2>2 DEF Good, s, IsInjective
      <4> QED
        BY <2>2, <4>2, <4>4, <4>5 DEF Good, s
    <3> QED
      BY <3>2, <3>3
  <2> QED
    BY <2>1, <2>3
<1> HIDE DEF T
<1>6. \A k \in 1..n : k - 1 \in T => k \in T
  BY <1>5
<1>7. n \in 0..n
  BY <1>1
<1>8. n \in T
  BY <1>1, <1>4, <1>6, <1>7, UpTo
<1>9. Good(n)
  BY <1>8 DEF T
<1>10. Range(g[n]) \subseteq Range(q) \cap keep
  BY <1>1, <1>9 DEF Range
<1> QED
  BY <1>2, <1>7, <1>9, <1>10

-----------------------------------------------------------------------------
(* The registry and the plan: no hook is in them twice.                    *)

LEMMA LoadedIs ==
  /\ Loaded \in Seq(Hooks) /\ IsInjective(Loaded)
  /\ Range(Loaded) \subseteq {h \in Hooks : ~IsRuntime(h)}
<1> DEFINE kept == {h \in Hooks : SourceOf[h] = "project" => trusted}
<1>1. Configured \in Seq(Hooks) /\ IsInjective(Configured)
  BY HookAssumption
<1>2. Loaded = Filtered(Configured, kept)
  BY DEF Loaded
<1> HIDE DEF kept
<1>3. /\ Loaded \in Seq(Hooks) /\ IsInjective(Loaded)
      /\ Range(Loaded) \subseteq Range(Configured)
  BY <1>1, <1>2, Kept
<1>4. \A h \in Range(Configured) : h \in Hooks /\ ~IsRuntime(h)
  BY <1>1, HookAssumption DEF Range, IsRuntime
<1> QED
  BY <1>3, <1>4

LEMMA PlanIs ==
  ASSUME entries \in Seq(Hooks), IsInjective(entries), NEW o
  PROVE  Plan(o) \in Seq(Hooks) /\ IsInjective(Plan(o))
<1>1. \A source : /\ From(source) \in Seq(Hooks) /\ IsInjective(From(source))
                  /\ Range(From(source)) \subseteq {h \in enabled : SourceOf[h] = source}
  BY Kept DEF From
<1> DEFINE a == From("runtime")
           b == From("project")
           c == From("extension")
<1>2. /\ a \in Seq(Hooks) /\ b \in Seq(Hooks) /\ c \in Seq(Hooks)
      /\ IsInjective(a) /\ IsInjective(b) /\ IsInjective(c)
      /\ \A h \in Range(a) : SourceOf[h] = "runtime"
      /\ \A h \in Range(b) : SourceOf[h] = "project"
      /\ \A h \in Range(c) : SourceOf[h] = "extension"
  BY <1>1
<1>3. HooksForEvent = (a \o b) \o c
  BY DEF HooksForEvent
<1> HIDE DEF a, b, c
<1>4. /\ a \o b \in Seq(Hooks) /\ Range(a \o b) = Range(a) \cup Range(b)
      /\ IsInjective(a \o b)
  <2>1. Range(a) \cap Range(b) = {}
    BY <1>2
  <2> QED
    BY <1>2, <2>1, Joined
<1> DEFINE ab == a \o b
<1>5. /\ ab \in Seq(Hooks) /\ IsInjective(ab)
      /\ \A h \in Range(ab) : SourceOf[h] # "extension"
  BY <1>2, <1>4
<1>6. HooksForEvent = ab \o c
  BY <1>3
<1> HIDE DEF ab
<1>7. HooksForEvent \in Seq(Hooks) /\ IsInjective(HooksForEvent)
  <2>1. Range(ab) \cap Range(c) = {}
    BY <1>2, <1>5
  <2> QED
    BY <1>2, <1>5, <1>6, <2>1, Joined
<1> DEFINE matching == Filtered(HooksForEvent,
                         {h \in Hooks : o.event \in EventsOf[h] /\ o.target \in TargetsOf[h]})
           firsts == {i \in DOMAIN matching :
                        \A j \in 1..(i - 1) : KeyOf[matching[j]] # KeyOf[matching[i]]}
<1>8. matching \in Seq(Hooks) /\ IsInjective(matching)
  BY <1>7, Kept
<1>9. Plan(o) = Filtered(matching, {matching[i] : i \in firsts})
  BY Zenon DEF Plan
<1> HIDE DEF matching, firsts
<1> QED
  BY <1>8, <1>9, Kept

-----------------------------------------------------------------------------
(* A step of a firing.                                                     *)

(* How far the hooks are once those whose turn it is have gone on.         *)
Gone(p, at) == [h \in Hooks |-> IF h \notin Turn(p, at) THEN at[h]
                                ELSE IF Refused(h) THEN "ended" ELSE "runs"]

Sayings == {{}} \cup {{a} : a \in Answers}

(* A step of h that ends nothing: its process exits, or a timer fires.     *)
Quiet(h) ==
  /\ \/ progress' = progress
     \/ progress[h] = "runs" /\ progress' = [progress EXCEPT ![h] = "exited"]
  /\ timedOut' \subseteq timedOut \cup {h} /\ killed' \subseteq killed \cup {h}
  /\ forcing' \subseteq forcing \cup {h}
  /\ UNCHANGED <<registryVars, occasion, plan, spoken, succeeded, answer, input, verdict>>

LEMMA PlainTextType ==
  ASSUME NEW code
  PROVE  PlainText(code) \in Answers
<1>1. Silent \in Answers
  BY DEF Silent, Answers
<1>2. \A d \in {"none", "allow", "ask", "deny"} : [Silent EXCEPT !.decision = d] \in Answers
  BY <1>1 DEF Answers
<1> QED
  BY <1>2 DEF PlainText

LEMMA RunnerIs ==
  ASSUME NEW h \in Hooks, h \in Active => occasion \in Occasions, Runner(h),
         progress \in [Hooks -> {"none", "waits", "runs", "exited", "ended"}]
  PROVE  \/ Quiet(h)
         \/ h \in Active /\ \E success \in BOOLEAN, said \in Sayings : Ends(h, success, said)
<1>1. {} \in Sayings /\ \A a \in Answers : {a} \in Sayings
  BY DEF Sayings
<1>2. h \in Active => \A said \in Said : said \in Sayings
  BY <1>1, HookAssumption DEF Said
<1>3. CASE CannotSpawn(h) \/ Throws(h) \/ Raced(h)
  BY <1>1, <1>3 DEF CannotSpawn, Throws, Raced, Runs, Active
<1>4. CASE Returns(h)
  BY <1>1, <1>2, <1>4 DEF Returns, Runs, Active
<1>5. CASE Closes(h)
  <2>1. h \in Active
    BY <1>5 DEF Closes, Active
  <2>2. CASE h \in timedOut
    BY <1>1, <1>5, <2>1, <2>2 DEF Closes
  <2>3. CASE h \notin timedOut
    <3>1. PICK code \in {"ok", "error", "block", "signal"} :
            \E said \in {{}, {PlainText(code)}} \cup Said : Ends(h, code = "ok", said)
      BY <1>5, <2>3 DEF Closes
    <3>2. PICK said \in {{}, {PlainText(code)}} \cup Said : Ends(h, code = "ok", said)
      BY <3>1
    <3>3. said \in Sayings
      <4>1. PlainText(code) \in Answers
        BY PlainTextType
      <4>2. {PlainText(code)} \in Sayings
        BY <1>1, <4>1
      <4> QED
        BY <1>1, <1>2, <2>1, <4>2
    <3>4. PICK success \in BOOLEAN : Ends(h, success, said)
      <4>1. (code = "ok") \in BOOLEAN
        OBVIOUS
      <4> QED
        BY <3>2, <4>1, Zenon
    <3> QED
      BY <2>1, <3>3, <3>4
  <2> QED
    BY <2>2, <2>3
<1>6. CASE Exits(h)
  BY <1>6 DEF Exits, Quiet, processVars
<1>7. CASE TimesOut(h)
  BY <1>7 DEF TimesOut, Quiet, resultVars
<1>8. CASE ForceKill(h)
  <2>1. \/ progress' = progress
        \/ progress[h] = "runs" /\ progress' = [progress EXCEPT ![h] = "exited"]
    <3> DEFINE x == IF h \notin killed /\ progress[h] = "runs" THEN "exited" ELSE progress[h]
    <3>0. progress' = [progress EXCEPT ![h] = x]
      BY <1>8, Zenon DEF ForceKill
    <3>1. CASE h \notin killed /\ progress[h] = "runs"
      BY <3>0, <3>1
    <3>2. CASE ~(h \notin killed /\ progress[h] = "runs")
      <4>1. progress' = [progress EXCEPT ![h] = progress[h]]
        BY <3>0, <3>2
      <4>2. [progress EXCEPT ![h] = progress[h]] = progress
        OBVIOUS
      <4> QED
        BY <4>1, <4>2
    <3> QED
      BY <3>1, <3>2
  <2> QED
    BY <1>8, <2>1 DEF ForceKill, Quiet
<1> QED
  BY <1>3, <1>4, <1>5, <1>6, <1>7, <1>8 DEF Runner

-----------------------------------------------------------------------------
(* The verdict.                                                            *)

LEMMA FirstIs ==
  ASSUME NEW strategy
  PROVE  /\ First(strategy) \in Verdicts /\ NoVerdict \in Verdicts
         /\ First(strategy).decision = "none"
         /\ strategy = "strictest" => First(strategy).goes = "yes"
         /\ strategy = "union" => First(strategy).mode = "AUTO" /\ First(strategy).tools = {}
<1>1. NoVerdict \in Verdicts
  BY DEF NoVerdict, Verdicts
<1>2. CASE strategy = "strictest"
  <2>1. First(strategy) = [NoVerdict EXCEPT !.goes = "yes"]
    BY <1>2 DEF First
  <2> QED
    BY <1>1, <1>2, <2>1 DEF NoVerdict, Verdicts
<1>3. CASE strategy = "union"
  <2>1. First(strategy) = [NoVerdict EXCEPT !.mode = "AUTO"]
    BY <1>3 DEF First
  <2> QED
    BY <1>1, <1>3, <2>1 DEF NoVerdict, Verdicts
<1>4. CASE strategy \notin {"strictest", "union"}
  <2>1. First(strategy) = NoVerdict
    BY <1>4 DEF First
  <2> QED
    BY <1>1, <1>4, <2>1 DEF NoVerdict
<1> QED
  BY <1>2, <1>3, <1>4

LEMMA StrictestIs ==
  ASSUME NEW v \in Verdicts, NEW h \in Hooks, NEW a \in Answers
  PROVE  LET w == MergeStrictest(v, h, a)
         IN  /\ w \in Verdicts /\ w.decision = Stricter(v, a)
             /\ w.goes = IF a.goes = "no" THEN "no" ELSE v.goes
<1> DEFINE d == Stricter(v, a)
           g == IF a.goes = "no" THEN "no" ELSE v.goes
           e == IF a.edits THEN h ELSE v.edit
<1>1. MergeStrictest(v, h, a) = [v EXCEPT !.decision = d, !.goes = g, !.edit = e]
  BY Zenon DEF MergeStrictest
<1>2. d \in {"none", "allow", "ask", "deny"}
  BY DEF Stricter, Verdicts
<1>3. g \in {"unset", "yes", "no"} /\ e \in Hooks \cup {NoHook}
  BY DEF Verdicts
<1> HIDE DEF d, g, e
<1>4. /\ [v EXCEPT !.decision = d, !.goes = g, !.edit = e] \in Verdicts
      /\ [v EXCEPT !.decision = d, !.goes = g, !.edit = e].decision = d
      /\ [v EXCEPT !.decision = d, !.goes = g, !.edit = e].goes = g
  BY <1>2, <1>3 DEF Verdicts
<1> QED
  BY <1>1, <1>4 DEF d, g

LEMMA LastIs ==
  ASSUME NEW v \in Verdicts, NEW h \in Hooks, NEW a \in Answers
  PROVE  LET w == MergeLast(v, h, a)
         IN  /\ w \in Verdicts
             /\ w.decision = IF a.decision = "none" THEN v.decision ELSE a.decision
<1> DEFINE d == IF a.decision = "none" THEN v.decision ELSE a.decision
           g == IF a.goes = "unset" THEN v.goes ELSE a.goes
           e == IF a.edits THEN h ELSE v.edit
<1>1. MergeLast(v, h, a) = [v EXCEPT !.decision = d, !.goes = g, !.edit = e]
  BY Zenon DEF MergeLast
<1>2. d \in {"none", "allow", "ask", "deny"}
  BY DEF Verdicts, Answers
<1>3. g \in {"unset", "yes", "no"} /\ e \in Hooks \cup {NoHook}
  BY DEF Verdicts, Answers
<1> HIDE DEF d, g, e
<1>4. /\ [v EXCEPT !.decision = d, !.goes = g, !.edit = e] \in Verdicts
      /\ [v EXCEPT !.decision = d, !.goes = g, !.edit = e].decision = d
  BY <1>2, <1>3 DEF Verdicts
<1> QED
  BY <1>1, <1>4 DEF d

LEMMA UnionIs ==
  ASSUME NEW v \in Verdicts, NEW h \in Hooks, NEW a \in Answers
  PROVE  LET w == MergeUnion(v, h, a)
         IN  /\ w \in Verdicts
             /\ w.mode = IF a.mode \in {"none", "AUTO"} \/ v.mode = "NONE" THEN v.mode ELSE a.mode
             /\ w.tools = IF a.mode = "none" THEN v.tools ELSE v.tools \cup {h}
<1> DEFINE m == IF a.mode = "AUTO" \/ v.mode = "NONE" THEN v.mode ELSE a.mode
           t == v.tools \cup {h}
<1>1. CASE a.mode = "none"
  <2>1. MergeUnion(v, h, a) = v
    BY <1>1 DEF MergeUnion
  <2> QED
    BY <1>1, <2>1
<1>2. CASE a.mode # "none"
  <2>1. MergeUnion(v, h, a) = [v EXCEPT !.mode = m, !.tools = t]
    BY <1>2, Zenon DEF MergeUnion
  <2>2. m \in {"none", "AUTO", "ANY", "NONE"} /\ t \in SUBSET Hooks
    BY DEF Verdicts, Answers
  <2>3. m = IF a.mode \in {"none", "AUTO"} \/ v.mode = "NONE" THEN v.mode ELSE a.mode
    BY <1>2
  <2> HIDE DEF m
  <2>4. /\ [v EXCEPT !.mode = m, !.tools = t] \in Verdicts
        /\ [v EXCEPT !.mode = m, !.tools = t].mode = m
        /\ [v EXCEPT !.mode = m, !.tools = t].tools = t
    BY <2>2 DEF Verdicts
  <2> QED
    BY <1>2, <2>1, <2>3, <2>4
<1> QED
  BY <1>1, <1>2

LEMMA ConcludedIs ==
  ASSUME NEW v \in Verdicts, NEW strategy
  PROVE  LET w == Concluded(strategy, v)
         IN  /\ w \in Verdicts /\ w.goes = v.goes /\ w.mode = v.mode
             /\ w.decision = v.decision \/ (v.decision = "none" /\ strategy = "strictest" /\ w.decision = "allow")
             /\ ~(strategy = "union" /\ v.mode = "NONE") => w.tools = v.tools
<1>1. CASE strategy = "strictest" /\ v.decision = "none" /\ v.goes = "yes"
  <2>1. Concluded(strategy, v) = [v EXCEPT !.decision = "allow"]
    BY <1>1 DEF Concluded
  <2> QED
    BY <1>1, <2>1 DEF Verdicts
<1>2. CASE strategy = "union" /\ v.mode = "NONE"
  <2>1. Concluded(strategy, v) = [v EXCEPT !.tools = {}]
    BY <1>2 DEF Concluded
  <2> QED
    BY <1>2, <2>1 DEF Verdicts
<1>3. CASE ~(strategy = "strictest" /\ v.decision = "none" /\ v.goes = "yes")
           /\ ~(strategy = "union" /\ v.mode = "NONE")
  <2>1. Concluded(strategy, v) = v
    BY <1>3 DEF Concluded
  <2> QED
    BY <2>1
<1> QED
  BY <1>1, <1>2, <1>3

(* g[k]: what the answers of the first k hooks of p come to.               *)
Folds(strategy, p, said, told, g) ==
  /\ g \in [0..Len(p) -> Verdicts] /\ g[0] = First(strategy)
  /\ \A k \in 1..Len(p) :
       g[k] = IF p[k] \in said THEN Merged(strategy, g[k - 1], p[k], told[p[k]]) ELSE g[k - 1]

LEMMA VerdictsIterated ==
  ASSUME NEW first \in Verdicts, NEW n \in Nat, NEW F \in [1..n -> [Verdicts -> Verdicts]]
  PROVE  \E g \in [0..n -> Verdicts] :
           g[0] = first /\ \A k \in 1..n : g[k] = F[k][g[k - 1]]
<1> DEFINE A == Verdicts
<1>1. first \in A /\ F \in [1..n -> [A -> A]]
  OBVIOUS
<1> HIDE DEF A
<1>2. \E g \in [0..n -> A] : g[0] = first /\ \A k \in 1..n : g[k] = F[k][g[k - 1]]
  BY <1>1, Iterated
<1> QED
  BY <1>2 DEF A

LEMMA AggregatedIs ==
  ASSUME NEW event, NEW p \in Seq(Hooks), NEW said, NEW told \in [Hooks -> Answers]
  PROVE  \E g : /\ Folds(Strategy(event), p, said, told, g)
                /\ Aggregated(event, p, said, told) =
                     IF Range(p) \cap said = {} THEN NoVerdict
                     ELSE Concluded(Strategy(event), g[Len(p)])
<1> DEFINE n == Len(p)
           strategy == Strategy(event)
           next(v, k) == IF p[k] \in said THEN Merged(strategy, v, p[k], told[p[k]]) ELSE v
           F == [k \in 1..n |-> [v \in Verdicts |-> next(v, k)]]
           Is(g) == g = [k \in 0..n |-> IF k = 0 THEN First(strategy)
                           ELSE IF p[k] \in said
                                  THEN Merged(strategy, g[k - 1], p[k], told[p[k]])
                           ELSE g[k - 1]]
           found == CHOOSE h : Is(h)
<1>1. Aggregated(event, p, said, told) =
        IF Range(p) \cap said = {} THEN NoVerdict ELSE Concluded(strategy, found[n])
  BY Zenon DEF Aggregated
<1> HIDE DEF found, Is
<1>2. n \in Nat /\ \A k \in 1..n : p[k] \in Hooks
  OBVIOUS
<1>3. First(strategy) \in Verdicts
  BY FirstIs
<1>4. \A v \in Verdicts, k \in 1..n : next(v, k) \in Verdicts
  <2> SUFFICES ASSUME NEW v \in Verdicts, NEW k \in 1..n
               PROVE  Merged(strategy, v, p[k], told[p[k]]) \in Verdicts
    OBVIOUS
  <2>1. p[k] \in Hooks /\ told[p[k]] \in Answers
    BY <1>2
  <2>2. /\ MergeStrictest(v, p[k], told[p[k]]) \in Verdicts
        /\ MergeLast(v, p[k], told[p[k]]) \in Verdicts
        /\ MergeUnion(v, p[k], told[p[k]]) \in Verdicts
    BY <2>1, StrictestIs, LastIs, UnionIs
  <2> QED
    BY <2>2 DEF Merged
<1>5. \A g : Is(g) <=> g = [k \in 0..n |-> IF k = 0 THEN First(strategy) ELSE next(g[k - 1], k)]
  BY Zenon DEF Is
<1>6. strategy = Strategy(event) /\ n = Len(p)
  OBVIOUS
<1>7. \A v, k : next(v, k) = IF p[k] \in said
                              THEN Merged(strategy, v, p[k], told[p[k]]) ELSE v
  OBVIOUS
<1> HIDE DEF n, strategy, next
<1>8. /\ F \in [1..n -> [Verdicts -> Verdicts]]
      /\ \A v \in Verdicts, k \in 1..n : F[k][v] = next(v, k)
  BY <1>4
<1> HIDE DEF F
<1>9. PICK g \in [0..n -> Verdicts] :
        g[0] = First(strategy) /\ \A k \in 1..n : g[k] = F[k][g[k - 1]]
  BY <1>2, <1>3, <1>8, VerdictsIterated
<1>10. \A k \in 1..n : k - 1 \in 0..n /\ k # 0 /\ k \in 0..n
  BY <1>2
<1>11. \A k \in 1..n : g[k] = next(g[k - 1], k)
  BY <1>8, <1>9, <1>10
<1>12. \A k \in 0..n : k = 0 \/ k \in 1..n
  BY <1>2
<1>13. Is(g)
  BY <1>5, <1>9, <1>11, <1>12
<1>14. Is(found)
  BY <1>13 DEF found
<1>15. /\ found = [k \in 0..n |-> found[k]] /\ found[0] = First(strategy)
       /\ \A k \in 1..n : found[k] = next(found[k - 1], k)
  <2>1. 0 \in 0..n
    BY <1>2
  <2>2. found = [k \in 0..n |-> IF k = 0 THEN First(strategy) ELSE next(found[k - 1], k)]
    BY <1>5, <1>14
  <2> QED
    BY <1>10, <2>1, <2>2
<1>16. \A k \in 0..n : found[k] \in Verdicts
  <2> DEFINE T == {j \in 0..n : found[j] \in Verdicts}
  <2>1. 0 \in T
    BY <1>2, <1>3, <1>15
  <2>2. ASSUME NEW k \in 1..n, k - 1 \in T PROVE k \in T
    BY <1>4, <1>10, <1>15, <2>2
  <2> HIDE DEF T
  <2>3. \A k \in 0..n : k \in T
    BY <1>2, <2>1, <2>2, UpTo
  <2> QED
    BY <2>3 DEF T
<1>17. found \in [0..n -> Verdicts]
  BY <1>15, <1>16
<1>18. Folds(strategy, p, said, told, found)
  BY <1>6, <1>7, <1>15, <1>17 DEF Folds
<1> QED
  BY <1>1, <1>6, <1>18

LEMMA AggregatedType ==
  ASSUME NEW event, NEW p \in Seq(Hooks), NEW said, NEW told \in [Hooks -> Answers]
  PROVE  Aggregated(event, p, said, told) \in Verdicts
<1>1. PICK g : /\ Folds(Strategy(event), p, said, told, g)
               /\ Aggregated(event, p, said, told) =
                    IF Range(p) \cap said = {} THEN NoVerdict
                    ELSE Concluded(Strategy(event), g[Len(p)])
  BY AggregatedIs
<1>2. g[Len(p)] \in Verdicts
  BY <1>1 DEF Folds
<1> QED
  BY <1>1, <1>2, FirstIs, ConcludedIs

-----------------------------------------------------------------------------
(* What the verdict keeps, answer by answer.                               *)

Heard(p, said, k) == {p[i] : i \in 1..k} \cap said

LEMMA HeardIs ==
  ASSUME NEW p \in Seq(Hooks), NEW said
  PROVE  /\ Heard(p, said, 0) = {} /\ Heard(p, said, Len(p)) = Range(p) \cap said
         /\ \A k \in 1..Len(p) :
              Heard(p, said, k) = IF p[k] \in said THEN Heard(p, said, k - 1) \cup {p[k]}
                                  ELSE Heard(p, said, k - 1)
<1>1. Len(p) \in Nat /\ DOMAIN p = 1..Len(p) /\ 1..0 = {}
  OBVIOUS
<1>2. \A k \in 1..Len(p) : 1..k = (1..(k - 1)) \cup {k}
  BY <1>1
<1>3. \A k \in 1..Len(p) :
        {p[i] : i \in 1..k} = {p[i] : i \in 1..(k - 1)} \cup {p[k]}
  <2> SUFFICES ASSUME NEW k \in 1..Len(p)
               PROVE  {p[i] : i \in 1..k} = {p[i] : i \in 1..(k - 1)} \cup {p[k]}
    OBVIOUS
  <2> QED
    BY <1>2
<1>4. ASSUME NEW k \in 1..Len(p)
      PROVE  Heard(p, said, k) = IF p[k] \in said THEN Heard(p, said, k - 1) \cup {p[k]}
                                 ELSE Heard(p, said, k - 1)
  <2> DEFINE before == {p[i] : i \in 1..(k - 1)}
  <2>1. Heard(p, said, k) = (before \cup {p[k]}) \cap said
    BY <1>3 DEF Heard
  <2>2. Heard(p, said, k - 1) = before \cap said
    BY DEF Heard
  <2> HIDE DEF before
  <2> QED
    BY <2>1, <2>2
<1> QED
  BY <1>1, <1>4 DEF Heard, Range

LEMMA StrictestFold ==
  ASSUME NEW p \in Seq(Hooks), NEW said, NEW told \in [Hooks -> Answers], NEW g,
         Folds("strictest", p, said, told, g)
  PROVE  LET v == g[Len(p)]
             H == Range(p) \cap said
         IN  /\ v.decision \in {"none", "ask", "deny"}
             /\ v.decision = "deny" <=> \E h \in H : told[h].decision = "deny"
             /\ (\E h \in H : told[h].decision = "ask") => v.decision \in {"ask", "deny"}
             /\ v.goes = "no" <=> \E h \in H : told[h].goes = "no"
<1> DEFINE n == Len(p)
           H(k) == Heard(p, said, k)
           Good(v, S) ==
             /\ v.decision \in {"none", "ask", "deny"}
             /\ v.decision = "deny" <=> \E h \in S : told[h].decision = "deny"
             /\ (\E h \in S : told[h].decision = "ask") => v.decision \in {"ask", "deny"}
             /\ v.goes = "no" <=> \E h \in S : told[h].goes = "no"
           T == {k \in 0..n : Good(g[k], H(k))}
<1>1. n \in Nat /\ \A k \in 1..n : p[k] \in Hooks /\ k - 1 \in 0..n /\ k \in 0..n
  OBVIOUS
<1>2. /\ g \in [0..n -> Verdicts] /\ g[0] = First("strictest")
      /\ \A k \in 1..n : g[k] = IF p[k] \in said
                                  THEN Merged("strictest", g[k - 1], p[k], told[p[k]])
                                ELSE g[k - 1]
  BY DEF Folds
<1>3. /\ H(0) = {} /\ H(n) = Range(p) \cap said
      /\ \A k \in 1..n : H(k) = IF p[k] \in said THEN H(k - 1) \cup {p[k]} ELSE H(k - 1)
  BY HeardIs
<1> HIDE DEF n, H
<1>4. 0 \in T
  BY <1>1, <1>2, <1>3, FirstIs
<1>5. ASSUME NEW k \in 1..n, k - 1 \in T PROVE k \in T
  <2> DEFINE v == g[k - 1]
             a == told[p[k]]
             S == H(k - 1)
             h == p[k]
  <2>1. v \in Verdicts /\ h \in Hooks /\ a \in Answers /\ Good(v, S)
    BY <1>1, <1>2, <1>5
  <2>2. CASE p[k] \notin said
    <3>1. H(k) = S /\ g[k] = v
      BY <1>2, <1>3, <2>2
    <3> QED
      BY <1>1, <1>5, <3>1
  <2>3. CASE p[k] \in said
    <3>1. H(k) = S \cup {h} /\ g[k] = MergeStrictest(v, h, a)
      BY <1>2, <1>3, <2>3 DEF Merged
    <3>2. told[h] = a
      OBVIOUS
    <3> HIDE DEF v, a, S, h
    <3>3. g[k].decision = Stricter(v, a) /\ g[k].goes = IF a.goes = "no" THEN "no" ELSE v.goes
      BY <2>1, <3>1, StrictestIs
    <3>4. Good(g[k], S \cup {h})
      BY <2>1, <3>2, <3>3 DEF Stricter, Answers
    <3> QED
      BY <1>1, <3>1, <3>4
  <2> QED
    BY <2>2, <2>3
<1> HIDE DEF T
<1>6. n \in T
  <2>1. n \in 0..n /\ \A k \in 1..n : k - 1 \in T => k \in T
    BY <1>1, <1>5
  <2> QED
    BY <1>1, <1>4, <2>1, UpTo
<1> QED
  BY <1>3, <1>6 DEF T, n

LEMMA UnionFold ==
  ASSUME NEW p \in Seq(Hooks), NEW said, NEW told \in [Hooks -> Answers], NEW g,
         Folds("union", p, said, told, g)
  PROVE  LET v == g[Len(p)]
             H == Range(p) \cap said
         IN  /\ v.mode = "NONE" <=> \E h \in H : told[h].mode = "NONE"
             /\ v.tools = {h \in H : told[h].mode # "none"}
<1> DEFINE n == Len(p)
           H(k) == Heard(p, said, k)
           Good(v, S) ==
             /\ v.mode = "NONE" <=> \E h \in S : told[h].mode = "NONE"
             /\ v.tools = {h \in S : told[h].mode # "none"}
           T == {k \in 0..n : Good(g[k], H(k))}
<1>1. n \in Nat /\ \A k \in 1..n : p[k] \in Hooks /\ k - 1 \in 0..n /\ k \in 0..n
  OBVIOUS
<1>2. /\ g \in [0..n -> Verdicts] /\ g[0] = First("union")
      /\ \A k \in 1..n : g[k] = IF p[k] \in said
                                  THEN Merged("union", g[k - 1], p[k], told[p[k]])
                                ELSE g[k - 1]
  BY DEF Folds
<1>3. /\ H(0) = {} /\ H(n) = Range(p) \cap said
      /\ \A k \in 1..n : H(k) = IF p[k] \in said THEN H(k - 1) \cup {p[k]} ELSE H(k - 1)
  BY HeardIs
<1> HIDE DEF n, H
<1>4. 0 \in T
  BY <1>1, <1>2, <1>3, FirstIs
<1>5. ASSUME NEW k \in 1..n, k - 1 \in T PROVE k \in T
  <2> DEFINE v == g[k - 1]
             a == told[p[k]]
             S == H(k - 1)
             h == p[k]
  <2>1. v \in Verdicts /\ h \in Hooks /\ a \in Answers /\ Good(v, S)
    BY <1>1, <1>2, <1>5
  <2>2. CASE p[k] \notin said
    <3>1. H(k) = S /\ g[k] = v
      BY <1>2, <1>3, <2>2
    <3> QED
      BY <1>1, <1>5, <3>1
  <2>3. CASE p[k] \in said
    <3>1. H(k) = S \cup {h} /\ g[k] = MergeUnion(v, h, a)
      BY <1>2, <1>3, <2>3 DEF Merged
    <3>2. told[h] = a
      OBVIOUS
    <3> HIDE DEF v, a, S, h
    <3>3. /\ g[k].mode = IF a.mode \in {"none", "AUTO"} \/ v.mode = "NONE" THEN v.mode ELSE a.mode
          /\ g[k].tools = IF a.mode = "none" THEN v.tools ELSE v.tools \cup {h}
      <4> HIDE DEF Good
      <4> DEFINE w == MergeUnion(v, h, a)
      <4>1. /\ w.mode = IF a.mode \in {"none", "AUTO"} \/ v.mode = "NONE" THEN v.mode ELSE a.mode
            /\ w.tools = IF a.mode = "none" THEN v.tools ELSE v.tools \cup {h}
        BY <2>1, UnionIs, Zenon
      <4> HIDE DEF w
      <4> QED
        BY <3>1, <4>1 DEF w
    <3>4. g[k].mode = "NONE" <=> \E x \in S \cup {h} : told[x].mode = "NONE"
      BY <2>1, <3>2, <3>3
    <3>5. g[k].tools = {x \in S \cup {h} : told[x].mode # "none"}
      BY <2>1, <3>2, <3>3
    <3> QED
      BY <1>1, <3>1, <3>4, <3>5
  <2> QED
    BY <2>2, <2>3
<1> HIDE DEF T
<1>6. n \in T
  <2>1. n \in 0..n /\ \A k \in 1..n : k - 1 \in T => k \in T
    BY <1>1, <1>5
  <2> QED
    BY <1>1, <1>4, <2>1, UpTo
<1> QED
  BY <1>3, <1>6 DEF T, n

-----------------------------------------------------------------------------
(* The inductive invariant.                                                *)

(* No hook is registered or planned twice; what has begun is the plan of   *)
(* what was fired, and only what has ended has answered.                   *)
OncePlanned ==
  /\ IsInjective(entries) /\ IsInjective(plan)
  /\ \A h \in Hooks : progress[h] # "none" <=> h \in Range(plan)
  /\ \A h \in spoken \cup succeeded : progress[h] = "ended"
  /\ plan # <<>> => occasion \in Occasions

InSequence ==
  Sequential(plan) => \A i, j \in DOMAIN plan : plan[i] \in Active =>
    /\ j < i => progress[plan[j]] = "ended"
    /\ j > i => progress[plan[j]] = "waits"

Edited == {h \in spoken \cap succeeded : answer[h].edits}

(* The input holds the edits in the order of the plan, and not more than   *)
(* there are hooks before the one that runs.                               *)
EditsKept ==
  /\ ~Sequential(plan) => input = <<>>
  /\ Sequential(plan) /\ occasion.event = "BeforeTool" =>
       /\ Range(input) = Edited
       /\ \A m, n \in DOMAIN input : m < n =>
            \E k, l \in DOMAIN plan : k < l /\ plan[k] = input[m] /\ plan[l] = input[n]
       /\ \A i \in DOMAIN plan : plan[i] \in Active => Len(input) <= i - 1

VerdictKept ==
  Pending = {} /\ spoken # {} =>
    verdict = Aggregated(occasion.event, plan, spoken, answer)

HookInv == TypeOK /\ OncePlanned /\ InSequence /\ EditsKept /\ VerdictKept

-----------------------------------------------------------------------------
(* One step of a firing, in full.                                          *)

Stages == {"none", "waits", "runs", "exited", "ended"}

LEMMA GoneIs ==
  ASSUME NEW p \in Seq(Hooks), NEW at \in [Hooks -> Stages]
  PROVE  /\ Gone(p, at) \in [Hooks -> Stages]
         /\ \A h \in Hooks : \/ Gone(p, at)[h] = at[h]
                              \/ /\ h \in Range(p) /\ at[h] = "waits"
                                 /\ Gone(p, at)[h] \in {"runs", "ended"}
<1>1. \A h \in Turn(p, at) : h \in Range(p) /\ at[h] = "waits"
  BY DEF Turn, Range
<1>2. \A h \in Hooks : \/ Gone(p, at)[h] = at[h]
                       \/ /\ h \in Range(p) /\ at[h] = "waits"
                          /\ Gone(p, at)[h] \in {"runs", "ended"}
  BY <1>1 DEF Gone
<1>3. Gone(p, at) \in [Hooks -> Stages]
  BY DEF Gone, Stages
<1> QED
  BY <1>2, <1>3

LEMMA GoOnIs ==
  ASSUME NEW o, NEW p \in Seq(Hooks), NEW at \in [Hooks -> Stages], NEW said,
         NEW told \in [Hooks -> Answers], GoOn(o, p, at, said, told)
  PROVE  /\ progress' = Gone(p, at)
         /\ (\A h \in Range(p) : Gone(p, at)[h] = "ended") =>
              verdict' = Aggregated(o.event, p, said, told)
         /\ verdict' \in Verdicts
<1>1. /\ progress' = Gone(p, at)
      /\ verdict' = IF \A h \in Range(p) : Gone(p, at)[h] = "ended"
                      THEN Aggregated(o.event, p, said, told) ELSE NoVerdict
  BY Zenon DEF GoOn, Gone
<1>2. NoVerdict \in Verdicts /\ Aggregated(o.event, p, said, told) \in Verdicts
  BY FirstIs, AggregatedType
<1> QED
  BY <1>1, <1>2

(* In a sequence that has come to its hook i, the next one that runs is    *)
(* the first of those behind that is not refused.                          *)
LEMMA NextInLine ==
  ASSUME NEW p \in Seq(Hooks), IsInjective(p), Sequential(p),
         NEW at, NEW i \in Int, NEW after, after = Gone(p, at),
         \A j \in DOMAIN p : at[p[j]] = IF j <= i THEN "ended" ELSE "waits"
  PROVE  \A a, j \in DOMAIN p : after[p[a]] \in {"runs", "exited"} =>
           /\ a > i
           /\ j < a => after[p[j]] = "ended"
           /\ j > a => after[p[j]] = "waits"
<1> DEFINE waiting == {j \in DOMAIN p : j > i}
           first(j) == j \in waiting /\ \A k \in waiting : k < j => Refused(p[k])
<1>1. DOMAIN p \subseteq Int /\ \A j \in DOMAIN p : p[j] \in Hooks
  OBVIOUS
<1>2. {j \in DOMAIN p : at[p[j]] = "waits"} = waiting
  BY <1>1
<1>3. \A j \in DOMAIN p : p[j] \in Turn(p, at) <=> first(j)
  <2>1. Turn(p, at) = {p[j] : j \in {k \in waiting : first(k)}}
    BY <1>2 DEF Turn
  <2> HIDE DEF first, waiting
  <2>2. \A j, k \in DOMAIN p : p[j] = p[k] => j = k
    BY DEF IsInjective
  <2>3. waiting \subseteq DOMAIN p /\ \A k : first(k) => k \in waiting
    BY DEF waiting, first
  <2> QED
    BY <2>1, <2>2, <2>3
<1>4. \A j \in DOMAIN p : after[p[j]] = IF ~first(j) THEN at[p[j]]
                                        ELSE IF Refused(p[j]) THEN "ended" ELSE "runs"
  <2> HIDE DEF first
  <2> QED
    BY <1>1, <1>3 DEF Gone
<1> SUFFICES ASSUME NEW a \in DOMAIN p, NEW j \in DOMAIN p,
                    after[p[a]] \in {"runs", "exited"}
             PROVE  /\ a > i
                    /\ j < a => after[p[j]] = "ended"
                    /\ j > a => after[p[j]] = "waits"
  OBVIOUS
<1>5. first(a) /\ ~Refused(p[a])
  <2> HIDE DEF first
  <2>1. at[p[a]] \in {"ended", "waits"}
    OBVIOUS
  <2>2. after[p[a]] = IF ~first(a) THEN at[p[a]]
                      ELSE IF Refused(p[a]) THEN "ended" ELSE "runs"
    BY <1>4
  <2> QED
    BY <2>1, <2>2
<1>6. ASSUME j < a PROVE after[p[j]] = "ended"
  <2>1. CASE j <= i
    BY <1>1, <1>4, <2>1
  <2>2. CASE ~(j <= i)
    <3>1. Refused(p[j])
      BY <1>1, <1>5, <1>6, <2>2
    <3>2. first(j)
      BY <1>1, <1>5, <1>6, <2>2
    <3> HIDE DEF first
    <3> QED
      BY <1>4, <3>1, <3>2
  <2> QED
    BY <2>1, <2>2
<1>7. ASSUME j > a PROVE after[p[j]] = "waits"
  <2>1. ~first(j)
    BY <1>1, <1>5, <1>7
  <2>2. ~(j <= i)
    BY <1>1, <1>5, <1>7
  <2> HIDE DEF first
  <2> QED
    BY <1>4, <2>1, <2>2
<1> QED
  BY <1>1, <1>5, <1>6, <1>7

LEMMA EndsIs ==
  ASSUME answer \in [Hooks -> Answers], NEW h \in Hooks, NEW success, NEW said \in Sayings,
         Ends(h, success, said)
  PROVE  /\ answer' \in [Hooks -> Answers]
         /\ \A x \in Hooks : x # h => answer'[x] = answer[x]
         /\ spoken' = IF said = {} THEN spoken ELSE spoken \cup {h}
         /\ succeeded' = IF success THEN succeeded \cup {h} ELSE succeeded
         /\ input' = IF /\ said # {} /\ Sequential(plan) /\ success /\ answer'[h].edits
                        /\ occasion.event \in {"BeforeAgent", "BeforeModel", "BeforeTool"}
                       THEN Append(input, h) ELSE input
         /\ GoOn(occasion, plan, [progress EXCEPT ![h] = "ended"], spoken', answer')
         /\ UNCHANGED <<registryVars, occasion, plan, timedOut, killed>>
         /\ forcing' = forcing \ {h}
<1> DEFINE told == IF said = {} THEN answer
                   ELSE [answer EXCEPT ![h] = CHOOSE a \in said : TRUE]
           all  == IF said = {} THEN spoken ELSE spoken \cup {h}
<1>1. /\ answer' = told /\ spoken' = all
      /\ succeeded' = IF success THEN succeeded \cup {h} ELSE succeeded
      /\ input' = IF said = {} THEN input ELSE Applied(h, success, told[h])
      /\ GoOn(occasion, plan, [progress EXCEPT ![h] = "ended"], all, told)
      /\ forcing' = forcing \ {h}
      /\ UNCHANGED <<registryVars, occasion, plan, timedOut, killed>>
  BY Zenon DEF Ends
<1>2. told \in [Hooks -> Answers] /\ \A x \in Hooks : x # h => told[x] = answer[x]
  <2>1. CASE said = {}
    BY <2>1
  <2>2. CASE said # {}
    <3>1. PICK a \in Answers : said = {a}
      BY <2>2 DEF Sayings
    <3>2. (CHOOSE b \in said : TRUE) = a
      BY <3>1
    <3>3. told = [answer EXCEPT ![h] = a]
      BY <2>2, <3>2
    <3> QED
      BY <3>3
  <2> QED
    BY <2>1, <2>2
<1>3. GoOn(occasion, plan, [progress EXCEPT ![h] = "ended"], spoken', answer')
  <2> HIDE DEF told, all
  <2> QED
    BY <1>1, Zenon
<1>4. input' = IF /\ said # {} /\ Sequential(plan) /\ success /\ answer'[h].edits
                  /\ occasion.event \in {"BeforeAgent", "BeforeModel", "BeforeTool"}
                 THEN Append(input, h) ELSE input
  <2> HIDE DEF told, all
  <2>1. input' = IF said = {} THEN input ELSE Applied(h, success, answer'[h])
    BY <1>1
  <2>2. CASE said = {}
    BY <2>1, <2>2
  <2>3. CASE said # {}
    BY <2>1, <2>3 DEF Applied
  <2> QED
    BY <2>2, <2>3
<1>5. spoken' = IF said = {} THEN spoken ELSE spoken \cup {h}
  BY <1>1
<1> QED
  BY <1>1, <1>2, <1>3, <1>4, <1>5

LEMMA FireKeeps ==
  ASSUME HookInv, NEW o \in Occasions, FireEvent(o)
  PROVE  HookInv'
<1> DEFINE p == Plan(o)
           at == [h \in Hooks |-> IF h \in Range(p) THEN "waits" ELSE "none"]
<1>1. /\ occasion' = o /\ plan' = p /\ spoken' = {} /\ succeeded' = {}
      /\ answer' = [h \in Hooks |-> Silent] /\ input' = <<>>
      /\ timedOut' = {} /\ killed' = {} /\ forcing' = {}
      /\ UNCHANGED <<entries, enabled, trusted>>
  BY DEF FireEvent, registryVars
<1>2. GoOn(o, p, at, {}, answer')
  BY <1>1, Zenon DEF FireEvent
<1>3. p \in Seq(Hooks) /\ IsInjective(p)
  BY PlanIs DEF HookInv, TypeOK, OncePlanned
<1>4. answer' \in [Hooks -> Answers]
  <2>1. Silent \in Answers
    BY DEF Silent, Answers
  <2> QED
    BY <1>1, <2>1
<1>5. at \in [Hooks -> Stages] /\ \A h \in Hooks : at[h] = IF h \in Range(p) THEN "waits" ELSE "none"
  BY DEF Stages
<1> HIDE DEF p, at
<1>6. progress' = Gone(p, at) /\ verdict' \in Verdicts
  BY <1>2, <1>3, <1>4, <1>5, GoOnIs
<1>7. /\ progress' \in [Hooks -> Stages]
      /\ \A h \in Hooks : \/ progress'[h] = at[h]
                          \/ h \in Range(p) /\ progress'[h] \in {"runs", "ended"}
  BY <1>3, <1>5, <1>6, GoneIs
<1>8. TypeOK'
  <2>1. entries' \in Seq(Hooks) /\ enabled' \subseteq Hooks /\ trusted' \in BOOLEAN
    BY <1>1 DEF HookInv, TypeOK
  <2>2. plan' \in Seq(Hooks) /\ input' \in Seq(Hooks)
    BY <1>1, <1>3
  <2> QED
    BY <1>1, <1>4, <1>6, <1>7, <2>1, <2>2 DEF TypeOK, Stages
<1>9. OncePlanned'
  <2>1. IsInjective(entries') /\ IsInjective(plan')
    BY <1>1, <1>3 DEF HookInv, OncePlanned
  <2>2. \A h \in Hooks : progress'[h] # "none" <=> h \in Range(plan')
    BY <1>1, <1>5, <1>7
  <2> QED
    BY <1>1, <2>1, <2>2 DEF OncePlanned
<1>10. ASSUME Sequential(plan'), NEW i \in DOMAIN plan', NEW j \in DOMAIN plan', plan'[i] \in Active'
       PROVE  (j < i => progress'[plan'[j]] = "ended") /\ (j > i => progress'[plan'[j]] = "waits")
  <2>1. \A k \in DOMAIN p : at[p[k]] = IF k <= 0 THEN "ended" ELSE "waits"
    BY <1>3, <1>5 DEF Range
  <2>2. 0 \in Int /\ Sequential(p)
    BY <1>1, <1>10
  <2>3. \A a, k \in DOMAIN p : progress'[p[a]] \in {"runs", "exited"} =>
          /\ k < a => progress'[p[k]] = "ended"
          /\ k > a => progress'[p[k]] = "waits"
    BY <1>3, <1>6, <2>1, <2>2, NextInLine
  <2> QED
    BY <1>1, <1>10, <2>3 DEF Active
<1>11. InSequence'
  BY <1>10 DEF InSequence
<1>12. EditsKept'
  <2>1. Range(<<>>) = {} /\ Len(<<>>) = 0 /\ DOMAIN <<>> = {}
    BY DEF Range
  <2>2. Edited' = {}
    BY <1>1 DEF Edited
  <2>3. \A i \in DOMAIN p : 0 <= i - 1
    BY <1>3
  <2> QED
    BY <1>1, <2>1, <2>2, <2>3 DEF EditsKept
<1>13. VerdictKept'
  BY <1>1 DEF VerdictKept
<1> QED
  BY <1>8, <1>9, <1>11, <1>12, <1>13 DEF HookInv

LEMMA EndsKeeps ==
  ASSUME HookInv, NEW h \in Active, NEW success, NEW said \in Sayings, Ends(h, success, said)
  PROVE  HookInv'
<1> DEFINE at == [progress EXCEPT ![h] = "ended"]
<1>1. h \in Hooks /\ progress[h] \in {"runs", "exited"}
  BY DEF Active
<1>2. /\ plan \in Seq(Hooks) /\ input \in Seq(Hooks) /\ progress \in [Hooks -> Stages]
      /\ answer \in [Hooks -> Answers] /\ spoken \subseteq Hooks /\ succeeded \subseteq Hooks
      /\ IsInjective(plan) /\ h \in Range(plan)
      /\ \A x \in Hooks : progress[x] # "none" <=> x \in Range(plan)
      /\ \A x \in spoken \cup succeeded : progress[x] = "ended"
  BY <1>1 DEF HookInv, TypeOK, OncePlanned, Stages
<1>3. /\ answer' \in [Hooks -> Answers]
      /\ \A x \in Hooks : x # h => answer'[x] = answer[x]
      /\ spoken' = IF said = {} THEN spoken ELSE spoken \cup {h}
      /\ succeeded' = IF success THEN succeeded \cup {h} ELSE succeeded
      /\ input' = IF /\ said # {} /\ Sequential(plan) /\ success /\ answer'[h].edits
                     /\ occasion.event \in {"BeforeAgent", "BeforeModel", "BeforeTool"}
                    THEN Append(input, h) ELSE input
  BY <1>1, <1>2, EndsIs
<1>4. GoOn(occasion, plan, at, spoken', answer')
  BY <1>1, <1>2, EndsIs
<1>5. /\ UNCHANGED <<entries, enabled, trusted, occasion, plan, timedOut, killed>>
      /\ forcing' = forcing \ {h}
  <2>1. UNCHANGED <<registryVars, occasion, plan, timedOut, killed>> /\ forcing' = forcing \ {h}
    BY <1>1, <1>2, EndsIs
  <2> QED
    BY <2>1 DEF registryVars
<1>6. /\ at \in [Hooks -> Stages] /\ at[h] = "ended"
      /\ \A x \in Hooks : x # h => at[x] = progress[x]
  BY <1>1, <1>2 DEF Stages
<1> HIDE DEF at
<1>7. /\ progress' = Gone(plan, at) /\ verdict' \in Verdicts
      /\ (\A x \in Range(plan) : progress'[x] = "ended") =>
           verdict' = Aggregated(occasion.event, plan, spoken', answer')
  <2>1. /\ progress' = Gone(plan, at) /\ verdict' \in Verdicts
        /\ (\A x \in Range(plan) : Gone(plan, at)[x] = "ended") =>
             verdict' = Aggregated(occasion.event, plan, spoken', answer')
    BY <1>2, <1>3, <1>4, <1>6, GoOnIs
  <2> QED
    BY <2>1
<1>8. /\ progress' \in [Hooks -> Stages]
      /\ \A x \in Hooks : \/ progress'[x] = at[x]
                          \/ /\ x \in Range(plan) /\ at[x] = "waits"
                             /\ progress'[x] \in {"runs", "ended"}
  BY <1>2, <1>6, <1>7, GoneIs
<1>9. /\ spoken' \subseteq Hooks /\ succeeded' \subseteq Hooks
      /\ \A x \in spoken' \cup succeeded' : x = h \/ x \in spoken \cup succeeded
  BY <1>1, <1>2, <1>3
<1>10. \A x \in spoken' \cup succeeded' : progress'[x] = "ended"
  BY <1>2, <1>6, <1>8, <1>9
<1>11. TypeOK'
  <2>1. input' \in Seq(Hooks)
    BY <1>1, <1>2, <1>3
  <2>2. forcing' \subseteq Hooks /\ entries' \in Seq(Hooks) /\ plan' \in Seq(Hooks)
    BY <1>5 DEF HookInv, TypeOK
  <2> QED
    BY <1>3, <1>5, <1>7, <1>8, <1>9, <2>1, <2>2 DEF HookInv, TypeOK, Stages
<1>12. OncePlanned'
  <2>1. \A x \in Hooks : progress'[x] # "none" <=> x \in Range(plan)
    BY <1>1, <1>2, <1>6, <1>8
  <2> QED
    BY <1>5, <1>10, <2>1 DEF HookInv, OncePlanned
<1>13. PICK i \in DOMAIN plan : plan[i] = h
  BY <1>2 DEF Range
<1>14. DOMAIN plan = 1..Len(plan) /\ Len(plan) \in Nat /\ DOMAIN plan \subseteq Int
  BY <1>2
<1>15. ASSUME Sequential(plan)
       PROVE  \A a, k \in DOMAIN plan : progress'[plan[a]] \in {"runs", "exited"} =>
                /\ a > i
                /\ k < a => progress'[plan[k]] = "ended"
                /\ k > a => progress'[plan[k]] = "waits"
  <2>1. ASSUME NEW k \in DOMAIN plan
        PROVE  at[plan[k]] = IF k <= i THEN "ended" ELSE "waits"
    <3>1. plan[k] \in Hooks /\ (k = i => plan[k] = h) /\ (k # i => plan[k] # h)
      BY <1>2, <1>13 DEF IsInjective
    <3>2. (k < i => progress[plan[k]] = "ended") /\ (k > i => progress[plan[k]] = "waits")
      BY <1>13, <1>15 DEF HookInv, InSequence
    <3>3. k < i \/ k = i \/ k > i
      BY <1>14
    <3> QED
      BY <1>6, <1>14, <3>1, <3>2, <3>3
  <2>2. i \in Int /\ \A k \in DOMAIN plan : at[plan[k]] = IF k <= i THEN "ended" ELSE "waits"
    BY <1>14, <2>1
  <2> QED
    BY <1>2, <1>7, <1>15, <2>2, NextInLine
<1>16. InSequence'
  <2>1. Active' = {x \in Hooks : progress'[x] \in {"runs", "exited"}}
    BY DEF Active
  <2> QED
    BY <1>5, <1>15, <2>1 DEF InSequence
<1>17. EditsKept'
  <2>1. CASE ~Sequential(plan)
    BY <1>3, <1>5, <2>1 DEF HookInv, EditsKept
  <2>2. CASE Sequential(plan) /\ occasion.event # "BeforeTool"
    BY <1>5, <2>2 DEF EditsKept
  <2>3. CASE Sequential(plan) /\ occasion.event = "BeforeTool"
    <3> DEFINE adds == said # {} /\ success /\ answer'[h].edits
    <3>1. /\ Range(input) = Edited
          /\ \A m, n \in DOMAIN input : m < n =>
               \E k, l \in DOMAIN plan : k < l /\ plan[k] = input[m] /\ plan[l] = input[n]
          /\ Len(input) <= i - 1
      BY <1>13, <2>3 DEF HookInv, EditsKept
    <3>2. h \notin spoken \cup succeeded
      BY <1>1, <1>2
    <3>3. Edited' = IF adds THEN Edited \cup {h} ELSE Edited
      <4>1. \A x \in spoken \cup succeeded : answer'[x] = answer[x]
        BY <1>2, <1>3, <3>2
      <4>2. h \in Edited' <=> adds
        BY <1>3, <3>2 DEF Edited
      <4>3. \A x : x # h => (x \in Edited' <=> x \in Edited)
        BY <1>3, <4>1 DEF Edited
      <4>4. h \notin Edited
        BY <3>2 DEF Edited
      <4> HIDE DEF adds
      <4> QED
        BY <4>2, <4>3, <4>4
    <3>4. input' = IF adds THEN Append(input, h) ELSE input
      BY <1>3, <2>3
    <3> HIDE DEF adds
    <3>5. Range(input') = Edited'
      <4>1. Range(Append(input, h)) = Range(input) \cup {h}
        BY <1>1, <1>2, Appended
      <4> QED
        BY <3>1, <3>3, <3>4, <4>1
    <3>6. Len(input) \in Nat /\ Len(input') \in Nat /\ Len(input') <= Len(input) + 1
      BY <1>1, <1>2, <3>4
    <3>7. \A a \in DOMAIN plan : plan[a] \in Active' => Len(input') <= a - 1
      <4> SUFFICES ASSUME NEW a \in DOMAIN plan, plan[a] \in Active'
                   PROVE  Len(input') <= a - 1
        OBVIOUS
      <4>1. progress'[plan[a]] \in {"runs", "exited"}
        BY DEF Active
      <4>2. a > i
        BY <1>15, <2>3, <4>1
      <4>3. a \in Int /\ i \in Int
        BY <1>14
      <4> QED
        BY <3>1, <3>6, <4>2, <4>3
    <3>8. \A m, n \in DOMAIN input' : m < n =>
            \E k, l \in DOMAIN plan : k < l /\ plan[k] = input'[m] /\ plan[l] = input'[n]
      <4>1. CASE ~adds
        BY <3>1, <3>4, <4>1
      <4>2. CASE adds
        <5> SUFFICES ASSUME NEW m \in DOMAIN input', NEW n \in DOMAIN input', m < n
                     PROVE  \E k, l \in DOMAIN plan :
                              k < l /\ plan[k] = input'[m] /\ plan[l] = input'[n]
          OBVIOUS
        <5>1. /\ DOMAIN input' = 1..(Len(input) + 1) /\ DOMAIN input = 1..Len(input)
              /\ input'[Len(input) + 1] = h
              /\ \A x \in 1..Len(input) : input'[x] = input[x]
          BY <1>1, <1>2, <3>4, <4>2
        <5>2. m \in DOMAIN input /\ input'[m] = input[m]
          BY <3>6, <5>1
        <5>3. CASE n \in DOMAIN input
          BY <3>1, <5>1, <5>2, <5>3
        <5>4. CASE n \notin DOMAIN input
          <6>1. input'[n] = h
            BY <3>6, <5>1, <5>4
          <6>2. input[m] \in Edited
            BY <3>1, <5>2 DEF Range
          <6>3. input[m] \in Hooks /\ progress[input[m]] = "ended"
            BY <1>2, <6>2 DEF Edited
          <6>4. PICK k \in DOMAIN plan : plan[k] = input[m]
            BY <1>2, <6>3 DEF Range
          <6>5. ~(k > i) /\ k # i
            BY <1>1, <1>13, <2>3, <6>3, <6>4 DEF HookInv, InSequence
          <6>6. k < i
            BY <1>14, <6>5
          <6> QED
            BY <1>13, <5>2, <6>1, <6>4, <6>6
        <5> QED
          BY <5>3, <5>4
      <4> QED
        BY <4>1, <4>2
    <3> QED
      BY <1>5, <2>3, <3>5, <3>7, <3>8 DEF EditsKept
  <2> QED
    BY <2>1, <2>2, <2>3
<1>18. VerdictKept'
  <2> SUFFICES ASSUME Pending' = {}
               PROVE  verdict' = Aggregated(occasion.event, plan, spoken', answer')
    BY <1>5 DEF VerdictKept
  <2>1. \A x \in Range(plan) : x \in Hooks /\ progress'[x] \in Stages
    BY <1>2, <1>8 DEF Range
  <2>2. \A x \in Range(plan) : progress'[x] # "none" /\ progress'[x] \notin {"waits", "runs", "exited"}
    BY <1>5, <1>12, <2>1 DEF OncePlanned, Pending
  <2>3. \A x \in Range(plan) : progress'[x] = "ended"
    BY <2>1, <2>2 DEF Stages
  <2> QED
    BY <1>7, <2>3
<1> QED
  BY <1>11, <1>12, <1>16, <1>17, <1>18 DEF HookInv

LEMMA QuietKeeps ==
  ASSUME HookInv, NEW h \in Hooks, Quiet(h)
  PROVE  HookInv'
<1>1. UNCHANGED <<entries, enabled, trusted, occasion, plan, spoken, succeeded, answer,
                  input, verdict>>
  BY DEF Quiet, registryVars
<1>2. progress \in [Hooks -> Stages]
  BY DEF HookInv, TypeOK, Stages
<1>3. /\ progress' \in [Hooks -> Stages]
      /\ \A x \in Hooks : \/ progress'[x] = progress[x]
                          \/ progress[x] = "runs" /\ progress'[x] = "exited"
  BY <1>2 DEF Quiet, Stages
<1>4. Active' = Active /\ Pending' = Pending
  BY <1>2, <1>3 DEF Active, Pending
<1>5. TypeOK'
  <2>1. timedOut' \subseteq Hooks /\ killed' \subseteq Hooks /\ forcing' \subseteq Hooks
    BY DEF HookInv, TypeOK, Quiet
  <2> QED
    BY <1>1, <1>3, <2>1 DEF HookInv, TypeOK, Stages
<1>6. OncePlanned'
  <2>1. \A x \in Hooks : progress'[x] # "none" <=> x \in Range(plan)
    BY <1>3 DEF HookInv, OncePlanned
  <2>2. \A x \in spoken \cup succeeded : progress'[x] = "ended"
    BY <1>3 DEF HookInv, OncePlanned, TypeOK
  <2> QED
    BY <1>1, <2>1, <2>2 DEF HookInv, OncePlanned
<1>7. InSequence'
  <2> SUFFICES ASSUME Sequential(plan), NEW i \in DOMAIN plan, NEW j \in DOMAIN plan,
                      plan[i] \in Active
               PROVE  /\ j < i => progress'[plan[j]] = "ended"
                      /\ j > i => progress'[plan[j]] = "waits"
    BY <1>1, <1>4 DEF InSequence
  <2>1. plan[j] \in Hooks
    BY DEF HookInv, TypeOK
  <2>2. /\ j < i => progress[plan[j]] = "ended"
        /\ j > i => progress[plan[j]] = "waits"
    BY DEF HookInv, InSequence
  <2> QED
    BY <1>3, <2>1, <2>2
<1>8. EditsKept'
  <2>1. Edited' = Edited
    BY <1>1 DEF Edited
  <2> QED
    BY <1>1, <1>4, <2>1 DEF HookInv, EditsKept
<1>9. VerdictKept'
  BY <1>1, <1>4 DEF HookInv, VerdictKept
<1> QED
  BY <1>5, <1>6, <1>7, <1>8, <1>9 DEF HookInv

(* The registry may change while hooks run.                                *)
LEMMA RegistryKeeps ==
  ASSUME HookInv, Registry
  PROVE  HookInv'
<1>1. /\ entries \in Seq(Hooks) /\ IsInjective(entries) /\ enabled \subseteq Hooks
      /\ trusted \in BOOLEAN
  BY DEF HookInv, TypeOK, OncePlanned
<1>2. \A loaded \in Seq(Hooks) : EnabledFirst(loaded) \subseteq Hooks
  BY DEF EnabledFirst, Range
<1>3. /\ entries' \in Seq(Hooks) /\ IsInjective(entries') /\ enabled' \subseteq Hooks
      /\ trusted' \in BOOLEAN
      /\ UNCHANGED <<occasion, plan, processVars, resultVars>>
  <2>1. CASE \E h \in Hooks : Register(h)
    <3>1. PICK h \in Hooks : Register(h)
      BY <2>1
    <3>2. h \notin Range(entries) /\ entries' = Append(entries, h) /\ enabled' = enabled \cup {h}
      BY <3>1 DEF Register
    <3>3. entries' \in Seq(Hooks) /\ IsInjective(entries')
      BY <1>1, <3>2, Appended
    <3> QED
      BY <1>1, <3>1, <3>2, <3>3 DEF Register
  <2>2. CASE Initialize
    <3> DEFINE kept == Filtered(entries, {h \in Hooks : IsRuntime(h)})
    <3>1. /\ entries' = kept \o Loaded
          /\ enabled' = {h \in enabled : IsRuntime(h)} \cup EnabledFirst(Loaded)
          /\ UNCHANGED <<trusted, occasion, plan, processVars, resultVars>>
      BY <2>2 DEF Initialize
    <3>2. /\ kept \in Seq(Hooks) /\ IsInjective(kept)
          /\ Range(kept) \subseteq {h \in Hooks : IsRuntime(h)}
      BY <1>1, Kept
    <3>3. /\ Loaded \in Seq(Hooks) /\ IsInjective(Loaded)
          /\ Range(Loaded) \subseteq {h \in Hooks : ~IsRuntime(h)}
      BY LoadedIs
    <3> HIDE DEF kept
    <3>4. Range(kept) \cap Range(Loaded) = {}
      BY <3>2, <3>3
    <3>5. entries' \in Seq(Hooks) /\ IsInjective(entries')
      BY <3>1, <3>2, <3>3, <3>4, Joined
    <3>6. enabled' \subseteq Hooks
      BY <1>1, <1>2, <3>1, <3>3
    <3> QED
      BY <1>1, <3>1, <3>5, <3>6
  <2>3. CASE \E key \in {KeyOf[h] : h \in Hooks}, on \in BOOLEAN : SetHookEnabled(key, on)
    <3>1. PICK key \in {KeyOf[h] : h \in Hooks}, on \in BOOLEAN : SetHookEnabled(key, on)
      BY <2>3
    <3> DEFINE named == {h \in Range(entries) : KeyOf[h] = key}
    <3>2. /\ enabled' = IF on THEN enabled \cup named ELSE enabled \ named
          /\ UNCHANGED <<entries, trusted, occasion, plan, processVars, resultVars>>
      BY <3>1 DEF SetHookEnabled
    <3>3. named \subseteq Hooks
      BY <1>1 DEF Range
    <3> QED
      BY <1>1, <3>2, <3>3
  <2>4. CASE TrustChanges
    BY <1>1, <2>4 DEF TrustChanges
  <2> QED
    BY <2>1, <2>2, <2>3, <2>4 DEF Registry
<1>4. UNCHANGED <<occasion, plan, timedOut, killed, forcing, progress, spoken, succeeded,
                  answer, input, verdict>>
  BY <1>3 DEF processVars, resultVars
<1>5. Active' = Active /\ Pending' = Pending /\ Edited' = Edited
  BY <1>4 DEF Active, Pending, Edited
<1> QED
  BY <1>3, <1>4, <1>5 DEF HookInv, TypeOK, OncePlanned, InSequence, EditsKept, VerdictKept

LEMMA HookInit ==
  ASSUME Init
  PROVE  HookInv
<1>1. Loaded \in Seq(Hooks) /\ IsInjective(Loaded)
  BY LoadedIs
<1>2. Range(<<>>) = {} /\ IsInjective(<<>>) /\ DOMAIN <<>> = {} /\ <<>> \in Seq(Hooks)
  BY DEF Range, IsInjective
<1>3. TypeOK
  <2>1. Silent \in Answers /\ NoVerdict \in Verdicts
    BY FirstIs DEF Silent, Answers
  <2>2. EnabledFirst(entries) \subseteq Hooks
    BY <1>1 DEF Init, EnabledFirst, Range
  <2> QED
    BY <1>1, <1>2, <2>1, <2>2 DEF Init, TypeOK
<1>4. OncePlanned
  BY <1>1, <1>2 DEF Init, OncePlanned
<1>5. InSequence /\ VerdictKept
  BY <1>2 DEF Init, InSequence, VerdictKept
<1>6. EditsKept
  <2>1. ~Sequential(plan)
    BY <1>2 DEF Init, Sequential
  <2> QED
    BY <2>1 DEF Init, EditsKept
<1> QED
  BY <1>3, <1>4, <1>5, <1>6 DEF HookInv

LEMMA HookStep ==
  ASSUME HookInv, [Next]_vars
  PROVE  HookInv'
<1>1. CASE Registry
  BY <1>1, RegistryKeeps
<1>2. CASE \E o \in Occasions : FireEvent(o)
  BY <1>2, FireKeeps
<1>3. CASE \E h \in Hooks : Runner(h)
  <2>1. PICK h \in Hooks : Runner(h)
    BY <1>3
  <2>2. h \in Active => occasion \in Occasions
    <3>1. h \in Active => h \in Range(plan)
      BY DEF Active, HookInv, OncePlanned
    <3>2. h \in Range(plan) => plan # <<>>
      BY DEF Range
    <3> QED
      BY <3>1, <3>2 DEF HookInv, OncePlanned
  <2>3. progress \in [Hooks -> {"none", "waits", "runs", "exited", "ended"}]
    BY DEF HookInv, TypeOK
  <2>4. \/ Quiet(h)
        \/ h \in Active /\ \E success \in BOOLEAN, said \in Sayings : Ends(h, success, said)
    BY <2>1, <2>2, <2>3, RunnerIs
  <2> QED
    BY <2>4, QuietKeeps, EndsKeeps
<1>4. CASE UNCHANGED vars
  <2>1. UNCHANGED <<entries, enabled, trusted, occasion, plan, timedOut, killed, forcing,
                    progress, spoken, succeeded, answer, input, verdict>>
    BY <1>4 DEF vars, registryVars, processVars, resultVars
  <2>2. Active' = Active /\ Pending' = Pending /\ Edited' = Edited
    BY <2>1 DEF Active, Pending, Edited
  <2> QED
    BY <2>1, <2>2 DEF HookInv, TypeOK, OncePlanned, InSequence, EditsKept, VerdictKept
<1> QED
  BY <1>1, <1>2, <1>3, <1>4 DEF Next

-----------------------------------------------------------------------------
(* What follows from it.                                                   *)

LEMMA SeenEdits ==
  ASSUME HookInv
  PROVE  SeesEarlierEdits
<1>1. /\ plan \in Seq(Hooks) /\ input \in Seq(Hooks) /\ IsInjective(plan)
      /\ \A x \in Hooks : progress[x] # "none" <=> x \in Range(plan)
      /\ \A x \in spoken \cup succeeded : progress[x] = "ended"
      /\ spoken \subseteq Hooks
  BY DEF HookInv, TypeOK, OncePlanned
<1>2. ASSUME Sequential(plan), NEW i \in DOMAIN plan, plan[i] \in Active,
             occasion.event = "BeforeTool"
      PROVE  input \in Surviving(SubSeq(plan, 1, i - 1), Edited)
  <2> DEFINE q == SubSeq(plan, 1, i - 1)
  <2>1. /\ i \in 1..Len(plan) /\ Len(plan) \in Nat /\ DOMAIN plan = 1..Len(plan)
        /\ Len(q) = i - 1 /\ DOMAIN q = 1..(i - 1)
        /\ \A k \in 1..(i - 1) : q[k] = plan[k]
    BY <1>1
  <2>2. /\ Range(input) = Edited
        /\ \A m, n \in DOMAIN input : m < n =>
             \E k, l \in DOMAIN plan : k < l /\ plan[k] = input[m] /\ plan[l] = input[n]
        /\ Len(input) <= i - 1
    BY <1>2 DEF HookInv, EditsKept
  <2> HIDE DEF q
  <2>3. ASSUME NEW k \in DOMAIN plan, plan[k] \in Edited
        PROVE  k \in DOMAIN q /\ q[k] = plan[k]
    <3>1. progress[plan[k]] = "ended"
      BY <1>1, <2>3 DEF Edited
    <3>2. ~(k > i) /\ k # i
      BY <1>2, <3>1 DEF HookInv, InSequence, Active
    <3> QED
      BY <2>1, <3>2
  <2>4. Range(q) \cap Edited = Edited
    <3>1. \A x \in Edited : x \in Range(plan)
      BY <1>1 DEF Edited
    <3>2. \A x \in Edited : x \in Range(q)
      BY <2>3, <3>1 DEF Range
    <3> QED
      BY <3>2
  <2>5. Len(input) \in 0..Len(q) /\ input \in [1..Len(input) -> Edited]
    <3>1. input \in [1..Len(input) -> Hooks] /\ Len(input) \in Nat /\ DOMAIN input = 1..Len(input)
      BY <1>1
    <3>2. \A m \in 1..Len(input) : input[m] \in Edited
      BY <2>2, <3>1 DEF Range
    <3> QED
      BY <2>1, <2>2, <3>1, <3>2
  <2>6. \A m, n \in DOMAIN input : m < n =>
          \E k, l \in DOMAIN q : k < l /\ q[k] = input[m] /\ q[l] = input[n]
    <3> SUFFICES ASSUME NEW m \in DOMAIN input, NEW n \in DOMAIN input, m < n
                 PROVE  \E k, l \in DOMAIN q : k < l /\ q[k] = input[m] /\ q[l] = input[n]
      OBVIOUS
    <3>1. PICK k \in DOMAIN plan, l \in DOMAIN plan :
            k < l /\ plan[k] = input[m] /\ plan[l] = input[n]
      BY <2>2
    <3>2. input[m] \in Edited /\ input[n] \in Edited
      BY <2>2 DEF Range
    <3> QED
      BY <2>3, <3>1, <3>2
  <2>7. input \in UNION {[1..n -> Edited] : n \in 0..Len(q)}
    BY <2>5
  <2>8. Range(input) = Range(q) \cap Edited
    BY <2>2, <2>4
  <2>9. input \in Surviving(q, Edited)
    BY <2>6, <2>7, <2>8 DEF Surviving
  <2> QED
    BY <2>9 DEF q
<1>3. ASSUME Sequential(plan), NEW i \in DOMAIN plan, NEW j \in DOMAIN plan, plan[i] \in Active
      PROVE  /\ j < i => progress[plan[j]] = "ended"
             /\ j > i => progress[plan[j]] = "waits"
  BY <1>3 DEF HookInv, InSequence
<1>4. ~Sequential(plan) => input = <<>>
  BY DEF HookInv, EditsKept
<1> QED
  BY <1>2, <1>3, <1>4 DEF SeesEarlierEdits, Edited

LEMMA DecisionsIn ==
  ASSUME HookInv
  PROVE  DecisionsCount
<1>1. /\ plan \in Seq(Hooks) /\ answer \in [Hooks -> Answers] /\ spoken \subseteq Hooks
      /\ \A x \in Hooks : progress[x] # "none" <=> x \in Range(plan)
      /\ \A x \in spoken : progress[x] = "ended"
  BY DEF HookInv, TypeOK, OncePlanned
<1>2. Range(plan) \cap spoken = spoken
  BY <1>1
<1> DEFINE strategy == Strategy(occasion.event)
<1>3. PICK g : /\ Folds(strategy, plan, spoken, answer, g)
               /\ Aggregated(occasion.event, plan, spoken, answer) =
                    IF Range(plan) \cap spoken = {} THEN NoVerdict
                    ELSE Concluded(strategy, g[Len(plan)])
  BY <1>1, AggregatedIs
<1>4. g[Len(plan)] \in Verdicts
  BY <1>1, <1>3 DEF Folds
<1> DEFINE v == g[Len(plan)]
<1>5. Pending = {} /\ spoken # {} => verdict = Concluded(strategy, v)
  BY <1>2, <1>3 DEF HookInv, VerdictKept
<1>6. /\ verdict = Concluded(strategy, v) =>
           /\ verdict.goes = v.goes /\ verdict.mode = v.mode
           /\ \/ verdict.decision = v.decision
              \/ v.decision = "none" /\ strategy = "strictest" /\ verdict.decision = "allow"
           /\ ~(strategy = "union" /\ v.mode = "NONE") => verdict.tools = v.tools
  BY <1>4, ConcludedIs
<1>7. ASSUME Over("strictest")
      PROVE  /\ verdict.decision = "deny" <=> \E h \in spoken : answer[h].decision = "deny"
             /\ (\E h \in spoken : answer[h].decision = "ask") =>
                  verdict.decision \in {"ask", "deny"}
             /\ verdict.goes = "no" <=> \E h \in spoken : answer[h].goes = "no"
  <2>1. strategy = "strictest" /\ verdict = Concluded(strategy, v)
    BY <1>5, <1>7 DEF Over
  <2>2. Folds("strictest", plan, spoken, answer, g)
    BY <1>3, <2>1
  <2>3. /\ v.decision \in {"none", "ask", "deny"}
        /\ v.decision = "deny" <=> \E h \in spoken : answer[h].decision = "deny"
        /\ (\E h \in spoken : answer[h].decision = "ask") => v.decision \in {"ask", "deny"}
        /\ v.goes = "no" <=> \E h \in spoken : answer[h].goes = "no"
    BY <1>1, <1>2, <2>2, StrictestFold
  <2> HIDE DEF v, strategy
  <2> QED
    BY <1>6, <2>1, <2>3
<1>8. ASSUME Over("union")
      PROVE  /\ verdict.mode = "NONE" <=> \E h \in spoken : answer[h].mode = "NONE"
             /\ verdict.mode # "NONE" =>
                  verdict.tools = {h \in spoken : answer[h].mode # "none"}
  <2>1. strategy = "union" /\ verdict = Concluded(strategy, v)
    BY <1>5, <1>8 DEF Over
  <2>2. Folds("union", plan, spoken, answer, g)
    BY <1>3, <2>1
  <2>3. /\ v.mode = "NONE" <=> \E h \in spoken : answer[h].mode = "NONE"
        /\ v.tools = {h \in spoken : answer[h].mode # "none"}
    BY <1>1, <1>2, <2>2, UnionFold
  <2> HIDE DEF v, strategy
  <2> QED
    BY <1>6, <2>1, <2>3
<1> QED
  BY <1>7, <1>8 DEF DecisionsCount

-----------------------------------------------------------------------------
(* The theorems.                                                           *)

LEMMA HookInvHolds == Spec => []HookInv
<1>1. Init => HookInv
  BY HookInit
<1>2. HookInv /\ [Next]_vars => HookInv'
  BY HookStep
<1> QED
  BY <1>1, <1>2, PTL DEF Spec

(* Whatever hooks are configured, registered, disabled, fired, killed or   *)
(* silent, the variables keep their types.                                 *)
THEOREM HookTypes == Spec => []TypeOK
<1>1. HookInv => TypeOK
  BY DEF HookInv
<1> QED
  BY <1>1, HookInvHolds, PTL

(* executeHooksSequential: the hooks of a sequence run one at a time, and  *)
(* each sees the edits of exactly those before it that succeeded, however  *)
(* they ended; the hooks of executeHooksParallel see none.                 *)
THEOREM EditsAreSeen == Spec => []SeesEarlierEdits
<1>1. HookInv => SeesEarlierEdits
  BY SeenEdits
<1> QED
  BY <1>1, HookInvHolds, PTL

(* HookAggregator: no denial, stop, question or restriction of a hook is   *)
(* lost in the verdict of a firing for a tool, an agent, a session's start *)
(* or a selection of tools.                                                *)
THEOREM DecisionsKept == Spec => []DecisionsCount
<1>1. HookInv => DecisionsCount
  BY DecisionsIn
<1> QED
  BY <1>1, HookInvHolds, PTL

=============================================================================
