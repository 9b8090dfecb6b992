--------------------------- MODULE HookProperties ---------------------------
(***************************************************************************)
(* What is checked of the hook system.                                     *)
(***************************************************************************)
EXTENDS HookSystem

Active == {h \in Hooks : progress[h] \in {"runs", "exited"}}

(* Hooks of a sequential plan run one after another, whatever their        *)
(* timeouts and failures, and the one that runs sees the edits of exactly  *)
(* the hooks before it that succeeded, in their order (parallel hooks all  *)
(* see the input as it was).  The edits are looked at for BeforeTool; the  *)
(* order of the hooks for every event.                                     *)
SeesEarlierEdits ==
  /\ ~Sequential(plan) => input = <<>>
  /\ Sequential(plan) => \A i, j \in DOMAIN plan : plan[i] \in Active =>
       /\ j < i => progress[plan[j]] = "ended"
       /\ j > i => progress[plan[j]] = "waits"
       /\ occasion.event = "BeforeTool" =>
            input \in Surviving(SubSeq(plan, 1, i - 1),
                               {h \in spoken \cap succeeded : answer[h].edits})

Over(strategy) == Pending = {} /\ spoken # {} /\ Strategy(occasion.event) = strategy

(* What hooks decided is not lost in the verdict, in whichever order they  *)
(* ended and however the others failed: one denial or stop suffices and a  *)
(* question counts unless there is a denial, and one NONE leaves no tool.  *)
(* (The answers to events of the model replace one another, denials too.)  *)
DecisionsCount ==
  /\ Over("strictest") =>
       /\ verdict.decision = "deny" <=> \E h \in spoken : answer[h].decision = "deny"
       /\ (\E h \in spoken : answer[h].decision = "ask") =>
            verdict.decision \in {"ask", "deny"}
       /\ verdict.goes = "no" <=> \E h \in spoken : answer[h].goes = "no"
  /\ Over("union") =>
       /\ verdict.mode = "NONE" <=> \E h \in spoken : answer[h].mode = "NONE"
       /\ verdict.mode # "NONE" =>
            verdict.tools = {h \in spoken : answer[h].mode # "none"}

(* A firing comes to an end, whatever its hooks do, unless a command of it *)
(* ignores SIGTERM or leaves its pipes open: it is waited for beyond its   *)
(* timeout, since SIGKILL is not sent after SIGTERM.                       *)
EveryFiringEnds ==
  Pending # {} ~> Pending = {} \/ Stubborn \cap timedOut \cap Active # {}
=============================================================================
