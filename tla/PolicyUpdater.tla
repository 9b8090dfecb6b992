--------------------------- MODULE PolicyUpdater ---------------------------
(***************************************************************************)
(* What becomes of an approval "always": updatePolicy() restricts it to    *)
(* the current approval mode and the more permissive ones and publishes    *)
(* it; the policy updater adds rules to the engine and, when the approval  *)
(* is for later sessions as well, merges it into a file, one approval      *)
(* after the other.  A session may end at any time; the next one loads the *)
(* file.                                                                   *)
(***************************************************************************)
EXTENDS MessageBus

CONSTANTS
  StartsWith,       \* StartsWith[c]: the first word of c (its tool, if not shell)
  Roots,            \* Roots[c]: the first words of all parts of c
  SessionPriority,  \* of an approval in memory, workspace tier
  SavedPriority,    \* of a saved approval: tier of its scope
  MaxApprovals      \* bound: approvals of a session and saved ones

ASSUME UpdaterAssumption ==
  /\ DOMAIN StartsWith = Calls
  /\ \A c \in Calls : /\ StartsWith[c] \in Roots[c] /\ IsFiniteSet(Roots[c])
                      /\ Roots[c] \subseteq Range(StartsWith)
  /\ SessionPriority \in Nat /\ SavedPriority \in Nat /\ MaxApprovals \in Nat

VARIABLES
  configured,  \* the configured rules
  queue,       \* persistenceQueue: approvals to be saved
  loaded,      \* the file as read for the first approvals of the queue
  file,        \* rules of the auto-saved policy file
  approved,    \* history: calls approved in this session, with the mode
  saved        \* history: approvals ever written to the file, in order

updaterVars == <<configured, queue, loaded, file, approved, saved>>
vars == <<engineVars, busVars, updaterVars>>

Approvals == [tool : Range(ToolOf), prefixes : SUBSET Range(StartsWith),
              modes : SUBSET Range(Modes), redirection : BOOLEAN]

TypeOK ==
  /\ EngineTypeOK /\ BusTypeOK
  /\ configured \in Configurations
  /\ queue \in Seq(Approvals)
  /\ file \subseteq Approvals /\ loaded \in Seq(SUBSET Approvals)
  /\ approved \subseteq Calls \X Range(Modes)
  /\ saved \in Seq(Approvals)

Init ==
  /\ configured \in Configurations /\ rules = configured
  /\ mode \in Range(Modes)
  /\ BusInit
  /\ queue = <<>> /\ loaded = <<>> /\ file = {} /\ approved = {} /\ saved = <<>>

-----------------------------------------------------------------------------

(* The mode and the more permissive ones.                                  *)
AtLeast(m) == {Modes[i] : i \in {j \in DOMAIN Modes : \E k \in 1..j : Modes[k] = m}}

Approval(c) ==
  [tool |-> ToolOf[c], prefixes |-> Roots[c], modes |-> AtLeast(mode),
   redirection |-> c \in Redirected]

(* One rule for each first word.                                           *)
RuleFor(a, word, priority) ==
  [tools |-> {a.tool},
   calls |-> {c \in Calls : ToolOf[c] = a.tool /\ StartsWith[c] = word},
   narrow |-> \E c \in Shell : StartsWith[c] = word,
   modes |-> a.modes, decision |-> "allow",
   redirection |-> a.redirection, priority |-> priority]

RulesFor(approvals, priority) ==
  UNION {{RuleFor(a, word, priority) : word \in a.prefixes} : a \in approvals}

WithApprovals(rs, approvals, priority) ==
  WithRules(rs, SetToSeq(RulesFor(approvals, priority)), priority)

(* The user was asked about c and approves it, for this session or for     *)
(* good; once a session in each mode (a bound).                            *)
ApproveAlways(c) ==
  /\ "ask" \in Checks(rules, mode, c)
  /\ <<c, mode>> \notin approved
  /\ Cardinality(approved) + Len(saved) < MaxApprovals
  /\ approved' = approved \cup {<<c, mode>>}
  /\ \/ /\ rules' = WithApprovals(rules, {Approval(c)}, SessionPriority)
        /\ UNCHANGED queue
     \/ /\ rules' = WithApprovals(rules, {Approval(c)}, SavedPriority)
        /\ queue' = Append(queue, Approval(c))
  /\ UNCHANGED <<mode, busVars, configured, loaded, file, saved>>

SwitchMode(m) ==
  /\ m # mode /\ SetApprovalMode(m)
  /\ UNCHANGED <<rules, busVars, updaterVars>>

-----------------------------------------------------------------------------

(* Mutant: approvals are saved without waiting for each other.             *)
LoadsAtOnce == Len(loaded) < Len(queue)

LoadsInTurn == loaded = <<>> /\ queue # <<>>

(* The file is read for the next approval of the queue.                    *)
Load ==
  /\ LoadsInTurn
  /\ loaded' = Append(loaded, file)
  /\ UNCHANGED <<engineVars, busVars, configured, queue, file, approved, saved>>

SameRule(e, a) == e.tool = a.tool /\ e.prefixes = a.prefixes

(* A rule for the same tool and words is updated, otherwise one is added.  *)
Merged(old, a) ==
  IF \E e \in old : SameRule(e, a)
    THEN {IF SameRule(e, a)
            THEN [e EXCEPT !.modes = a.modes, !.redirection = @ \/ a.redirection]
            ELSE e : e \in old}
    ELSE old \cup {a}

(* The merged rules replace the file by a rename.                          *)
Store ==
  /\ loaded # <<>>
  /\ file' = Merged(Head(loaded), Head(queue))
  /\ saved' = Append(saved, Head(queue))
  /\ loaded' = Tail(loaded) /\ queue' = Tail(queue)
  /\ UNCHANGED <<engineVars, busVars, configured, approved>>

(* An error of the file system: the approval is not saved.                 *)
StoreFails ==
  /\ loaded # <<>>
  /\ loaded' = Tail(loaded) /\ queue' = Tail(queue)
  /\ UNCHANGED <<engineVars, busVars, configured, file, approved, saved>>

(* The session ends, or crashes, and another one starts.                   *)
Restart ==
  /\ rules' = WithApprovals(configured, file, SavedPriority)
  /\ mode' \in Range(Modes)
  /\ asked' = {} /\ check' = [r \in Requests |-> {}]
  /\ handlers' = {} /\ answer' = [r \in Requests |-> "none"]
  /\ queue' = <<>> /\ loaded' = <<>> /\ approved' = {}
  /\ UNCHANGED <<configured, file, saved>>

-----------------------------------------------------------------------------

Next ==
  \/ Bus /\ UNCHANGED <<engineVars, updaterVars>>
  \/ \E c \in Calls : ApproveAlways(c)
  \/ \E m \in Range(Modes) : SwitchMode(m)
  \/ Load \/ Store \/ StoreFails \/ Restart

(* The timers of requests fire.                                            *)
Fairness == \A r \in Requests :
  WF_vars(Timeout(r) /\ UNCHANGED <<engineVars, updaterVars>>)

Spec == Init /\ [][Next]_vars /\ Fairness

=============================================================================
