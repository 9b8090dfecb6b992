----------------------------- MODULE LocalAgent -----------------------------
(* A run of a local agent (agents/local-executor.ts): turns of the model   *)
(* and its tools, limited in number and in time, with a last turn of grace *)
(* when a limit is reached.                                                *)
EXTENDS DeadlineTimer, FiniteSets

CONSTANTS
  Calls,       \* tool calls of one turn
  Deaf,        \* those of tools that do not heed the signal
  MaxTurns,    \* runConfig.maxTurns
  Grace        \* GRACE_PERIOD_MS, in ticks

ASSUME AgentAssumption == Deaf \subseteq Calls /\ MaxTurns \in Nat /\ Grace \in Nat

VARIABLES
  pc,          \* where the run is suspended
  turn,        \* turnCounter
  reason,      \* terminateReason, "none" while the loop goes on
  aborted,     \* the signal passed to run()
  grace,       \* the last turn: "off", "on", "expired" once its time is over
  graceLeft,   \* time until then
  call,        \* what became of each call of the turn
  completes,   \* complete_task has succeeded in this turn
  \* history
  worked,      \* time in which no call waited for the user, until told to end
  overlapped   \* two calls have waited for the user at once

turnVars == <<call, completes>>
graceVars == <<grace, graceLeft>>
history == <<worked, overlapped>>
vars == <<timerVars, pc, turn, reason, aborted, graceVars, turnVars, history>>

Limits == {"timeout", "max_turns", "no_completion"}
Reasons == Limits \cup {"none", "error", "aborted", "goal"}
Settled == {"none", "done", "refused", "cancelled"}

Init ==
  /\ TimerInit
  /\ pc = "loop" /\ turn = 0 /\ reason = "none" /\ aborted = FALSE
  /\ grace = "off" /\ graceLeft = Grace
  /\ call = [c \in Calls |-> "none"] /\ completes = FALSE
  /\ worked = 0 /\ overlapped = FALSE

(* Mutant: the last turn has a signal of its own only.                     *)
CombinedInGraceAlone ==
  IF grace = "off" THEN aborted \/ expired ELSE grace = "expired"

(* combinedSignal, of the loop and of the last turn.                       *)
Combined ==
  \/ aborted
  \/ IF grace = "off" THEN expired ELSE grace = "expired"

(* Bound of the history variable worked: more than an agent may have.      *)
Ample == Budget + 1

Waiting == {c \in Calls : call[c] = "awaiting"}

-----------------------------------------------------------------------------
(* The end of a turn.  In the loop a limit leads to the turn of grace; in  *)
(* that turn only success changes what is reported.                        *)
Recover(r) ==
  /\ reason' = r
  /\ grace' = "on" /\ pc' = "model"
  /\ call' = [c \in Calls |-> "none"] /\ completes' = FALSE
  /\ UNCHANGED <<timerVars, turn, aborted, graceLeft, history>>

End(r) ==
  /\ reason' = r
  /\ pc' = "ended"
  /\ Stop
  /\ UNCHANGED <<turn, aborted, graceVars, turnVars, history>>

Leave(r) ==
  IF grace # "off" THEN End(IF r = "goal" THEN r ELSE reason)
  ELSE IF r \in Limits THEN Recover(r) ELSE End(r)

(* Which signal is blamed.                                                 *)
Blamed == IF expired THEN "timeout" ELSE "aborted"

TurnsLeft == turn < MaxTurns

(* checkTermination.                                                       *)
LimitReached ==
  /\ pc = "loop"
  /\ ~TurnsLeft \/ Combined
  /\ Leave(IF ~TurnsLeft THEN "max_turns" ELSE Blamed)

BeginTurn ==
  /\ pc = "loop" /\ TurnsLeft /\ ~Combined
  /\ turn' = turn + 1
  /\ pc' = "model"
  /\ call' = [c \in Calls |-> "none"] /\ completes' = FALSE
  /\ UNCHANGED <<timerVars, reason, aborted, graceVars, history>>

(* The model asks for tools.                                               *)
ModelCallsTools ==
  /\ pc = "model" /\ ~Combined
  /\ \E s \in SUBSET Calls \ {{}} :
       call' = [c \in Calls |-> IF c \in s THEN "checking" ELSE "none"]
  /\ pc' = "tools"
  /\ UNCHANGED <<timerVars, turn, reason, aborted, graceVars, completes,
                 history>>

ModelStops ==
  /\ pc = "model" /\ ~Combined
  /\ Leave("no_completion")

(* The request to the model is aborted: the stream ends, or it throws.     *)
ModelAborted ==
  /\ pc = "model" /\ Combined
  /\ \/ Leave(Blamed)
     \/ Leave(IF expired /\ ~aborted THEN "timeout" ELSE "error")

(* Any other error of the model, of compression, of a hook of the agent.   *)
ModelFails ==
  /\ pc = "model"
  /\ Leave("error")

-----------------------------------------------------------------------------
(* The tools of a turn, run by a scheduler of their own.                   *)

CallFrame == UNCHANGED <<pc, turn, reason, aborted, graceVars>>

(* The user is asked, and the agent's time stops.                          *)
Ask(c) ==
  /\ call[c] = "checking" /\ ~Combined
  /\ call' = [call EXCEPT ![c] = "awaiting"]
  /\ Pause
  /\ overlapped' = (overlapped \/ Waiting # {})
  /\ CallFrame /\ UNCHANGED <<completes, worked>>

(* The first answer lets the time of the agent go on.  Nobody listens for  *)
(* it once the signal is aborted.                                          *)
Answer(c) ==
  /\ call[c] = "awaiting" /\ ~Combined
  /\ Resume
  /\ CallFrame /\ UNCHANGED <<completes, history>>

Agree(c) == Answer(c) /\ call' = [call EXCEPT ![c] = "running"]

(* With a refused call the scheduler cancels the calls still in its queue. *)
Refuse(c) ==
  /\ Answer(c)
  /\ \E queued \in SUBSET {x \in Calls : call[x] = "checking"} :
       call' = [x \in Calls |-> IF x = c THEN "refused"
                               ELSE IF x \in queued THEN "cancelled" ELSE call[x]]

(* No permission is needed.                                                *)
Permit(c) ==
  /\ call[c] = "checking" /\ ~Combined
  /\ call' = [call EXCEPT ![c] = "running"]
  /\ CallFrame /\ UNCHANGED <<timerVars, completes, history>>

Cancelled(c) ==
  /\ Combined /\ call' = [call EXCEPT ![c] = "cancelled"]
  /\ CallFrame /\ UNCHANGED <<timerVars, completes, history>>

(* Once the signal is aborted, checks and waits end, and the runs of tools *)
(* that heed it; a call that was waiting does not say that it waits no     *)
(* more.                                                                   *)
CallAborted(c) ==
  /\ call[c] \in {"checking", "awaiting"} \/ (call[c] = "running" /\ c \notin Deaf)
  /\ Cancelled(c)

(* The executor waits for a tool that does not heed it, and makes of what  *)
(* it returns a cancellation.                                              *)
DeafReturns(c) == call[c] = "running" /\ c \in Deaf /\ Cancelled(c)

(* A tool has succeeded or failed; complete_task submits the result.       *)
ToolEnds(c) ==
  /\ call[c] = "running" /\ ~Combined
  /\ call' = [call EXCEPT ![c] = "done"]
  /\ completes' \in {completes, TRUE}
  /\ CallFrame /\ UNCHANGED <<timerVars, history>>

(* processFunctionCalls: a cancelled call that the user did not refuse     *)
(* itself aborts the run, whatever has cancelled it.                       *)
ToolsEnd ==
  /\ pc = "tools" /\ \A c \in Calls : call[c] \in Settled
  /\ IF \E c \in Calls : call[c] = "cancelled" THEN Leave("aborted")
     ELSE IF completes THEN Leave("goal")
     ELSE IF grace # "off" THEN Leave("none")
     ELSE /\ pc' = "loop"
          /\ UNCHANGED <<timerVars, turn, reason, aborted, graceVars,
                         turnVars, history>>

-----------------------------------------------------------------------------
Abort ==
  /\ ~aborted /\ pc # "ended"
  /\ aborted' = TRUE
  /\ UNCHANGED <<timerVars, pc, turn, reason, graceVars, turnVars, history>>

Timeout ==
  /\ pc # "ended" /\ Fire
  /\ UNCHANGED <<pc, turn, reason, aborted, graceVars, turnVars, history>>

GraceOver ==
  /\ pc # "ended" /\ grace = "on" /\ graceLeft = 0
  /\ grace' = "expired"
  /\ UNCHANGED <<timerVars, pc, turn, reason, aborted, graceLeft, turnVars,
                 history>>

Tick ==
  /\ pc # "ended"
  /\ ~Due /\ ~(grace = "on" /\ graceLeft = 0)
  /\ Passes
  /\ graceLeft' = IF grace = "on" THEN graceLeft - 1 ELSE graceLeft
  /\ worked' = IF Waiting = {} /\ ~expired /\ ~Combined /\ worked < Ample
               THEN worked + 1 ELSE worked
  /\ UNCHANGED <<pc, turn, reason, aborted, grace, turnVars, overlapped>>

Reacts ==
  \/ LimitReached \/ BeginTurn \/ ModelAborted \/ ToolsEnd
  \/ \E c \in Calls : Ask(c) \/ Permit(c) \/ CallAborted(c)

Next ==
  \/ Reacts \/ Timeout \/ GraceOver \/ Tick
  \/ ModelCallsTools \/ ModelStops \/ ModelFails
  \/ \E c \in Calls : Agree(c) \/ Refuse(c) \/ ToolEnds(c) \/ DeafReturns(c)
  \/ Abort

(* Time passes, timers fire and the agent reacts, as do requests to the    *)
(* model and the tools that heed the signal when it is aborted.  The user, *)
(* the other tools and, before the abort, everyone may never answer.       *)
Fairness ==
  WF_vars(Tick) /\ WF_vars(Timeout) /\ WF_vars(GraceOver) /\ WF_vars(Reacts)

Spec == Init /\ [][Next]_vars /\ Fairness

-----------------------------------------------------------------------------
TypeOK ==
  /\ TimerTypeOK
  /\ aborted \in BOOLEAN /\ completes \in BOOLEAN /\ overlapped \in BOOLEAN
  /\ pc \in {"loop", "model", "tools", "ended"}
  /\ turn \in 0..MaxTurns /\ reason \in Reasons
  /\ grace \in {"off", "on", "expired"} /\ graceLeft \in 0..Grace
  /\ call \in [Calls -> Settled \cup {"checking", "awaiting", "running"}]
  /\ worked \in 0..Ample

(* local-executor.ts:566: time spent waiting for the user is credited back *)
(* to the agent: unless it was told to end before, it times out only after *)
(* it has had all of its own time.  (Of several questions that are open at *)
(* once, the first answer starts the clock.)                               *)
TimeIsCredited ==
  expired /\ ~overlapped => worked = Budget \/ aborted \/ grace = "expired"

(* However often the clock is stopped, the agent never has more time of    *)
(* its own than its limit.                                                 *)
TimeIsLimited == worked <= Budget

(* The agent gets its time and no more.                                    *)
TimeIsKept == TimeIsCredited /\ TimeIsLimited

(* After the user's abort no tool starts any more, in the run or in its    *)
(* turn of grace, and the run does not succeed any more unless             *)
(* complete_task had succeeded before.  (At the limit of turns the turn of *)
(* grace is entered even so, and its request ends at once.)                *)
AbortEndsWork ==
  /\ \A c \in Calls : [](aborted /\ call[c] # "running" => [](call[c] # "running"))
  /\ [](aborted /\ ~completes /\ reason # "goal" => [](reason # "goal"))

(* A run ends, by its deadline or its period of grace, though the model or *)
(* a tool may not answer, unless a question to the user stays open or a    *)
(* tool that does not heed the signal never returns.                       *)
RunEnds ==
  \/ <>(pc = "ended")
  \/ <>[](Waiting # {})
  \/ <>[](\E c \in Deaf : call[c] = "running")
=============================================================================
