-------------------------- MODULE PolicyProperties --------------------------
(***************************************************************************)
(* What is checked of the policy engine, of the bus that tools ask it      *)
(* through, and of approvals.                                              *)
(***************************************************************************)
EXTENDS PolicyUpdater

(* A command that consists of others is never judged more leniently than   *)
(* any of them alone, whatever the rules, their order and the mode, and    *)
(* however often the loop over the rules passes a match over.              *)
NoLaxerThanParts == \A c \in Shell : \A p \in Parts[c] :
  Strictness[Decision(rules, mode, p)] <= Strictness[Decision(rules, mode, c)]

(* getExcludedTools() and check() agree: a tool that is hidden from the    *)
(* model for being denied has no call that check() would not deny, save    *)
(* commands that a heuristic takes for dangerous, which always ask, and    *)
(* the yolo mode, where no rule at all means allow.                        *)
ExcludedIsDenied == \A t \in Range(ToolOf) :
  Excluded(rules, mode, t) /\ mode # "yolo" =>
    \A c \in Calls \ Dangerous : ToolOf[c] = t => Decision(rules, mode, c) = "deny"

(* A rule of higher priority than approvals concerns c or a part of it.    *)
Overruled(c) ==
  \E i \in DOMAIN configured, d \in {c} \cup (IF c \in Shell THEN Parts[c] ELSE {}) :
     configured[i].priority > SessionPriority /\ Matches(configured[i], d, mode)

(* Who approved a command "always" is not asked about it again in the same *)
(* or a more permissive mode, unless a rule of a higher tier concerns it.  *)
ApprovalHolds == \A a \in approved :
  mode \in AtLeast(a[2]) /\ ~Overruled(a[1]) => Decision(rules, mode, a[1]) # "ask"

(* What has been saved stays in the file, whatever is saved later and      *)
(* wherever a session ends: the tool and the words of every approval are   *)
(* there, with the redirections that one of them allowed and, as the modes *)
(* of a rule are replaced by those of the next approval of the same tool   *)
(* and words, with the modes of the last one.                              *)
SavedStays == \A i \in DOMAIN saved : \E e \in file :
  /\ SameRule(e, saved[i])
  /\ saved[i].redirection => e.redirection
  /\ saved[i].modes = e.modes
       \/ \E k \in DOMAIN saved : k > i /\ SameRule(saved[k], saved[i])

(* Every tool that asks is told something, also when the check fails or    *)
(* never ends.                                                             *)
EveryRequestAnswered == \A r \in Requests :
  r \in asked ~> (answer[r] # "none" \/ r \notin asked)
=============================================================================
