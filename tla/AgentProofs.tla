---------------------------- MODULE AgentProofs ----------------------------
(* What TLAPS proves of a local agent, for any limits of turns and time    *)
(* and any number of tools at once.                                        *)
EXTENDS LocalAgent, TLAPS

-----------------------------------------------------------------------------
(* Types.                                                                  *)

LEMMA PauseType ==
  ASSUME TimerTypeOK, Pause
  PROVE  TimerTypeOK'
<1>1. CASE isPaused \/ Over
  BY <1>1 DEF Pause, timerVars, TimerTypeOK
<1>2. CASE ~(isPaused \/ Over)
  <2>1. remaining' \in 0..Budget /\ elapsed' \in 0..remaining'
    BY <1>2, BudgetAssumption DEF Pause, LeftNow, TimerTypeOK
  <2>2. isPaused' \in BOOLEAN /\ armed' \in BOOLEAN
    BY <1>2 DEF Pause
  <2>3. expired' \in BOOLEAN /\ stopped' \in BOOLEAN
    BY <1>2 DEF Pause, TimerTypeOK
  <2> QED
    BY <2>1, <2>2, <2>3 DEF TimerTypeOK
<1> QED
  BY <1>1, <1>2

LEMMA ResumeType ==
  ASSUME TimerTypeOK, Resume
  PROVE  TimerTypeOK'
<1>1. CASE ~isPaused \/ Over
  BY <1>1 DEF Resume, timerVars, TimerTypeOK
<1>2. CASE ~(~isPaused \/ Over)
  <2>1. remaining' \in 0..Budget /\ elapsed' \in 0..remaining'
    BY <1>2, BudgetAssumption DEF Resume, TimerTypeOK
  <2>2. isPaused' \in BOOLEAN /\ armed' \in BOOLEAN
    BY <1>2 DEF Resume
  <2>3. expired' \in BOOLEAN /\ stopped' \in BOOLEAN
    BY <1>2 DEF Resume, TimerTypeOK
  <2> QED
    BY <2>1, <2>2, <2>3 DEF TimerTypeOK
<1> QED
  BY <1>1, <1>2

LEMMA LeaveType ==
  ASSUME TypeOK, NEW r \in Reasons, Leave(r)
  PROVE  TypeOK'
<1>1. CASE grace # "off"
  BY <1>1 DEF Leave, End, Stop, TypeOK, TimerTypeOK, graceVars, turnVars, history
<1>2. CASE grace = "off" /\ r \in Limits
  BY <1>2 DEF Leave, Recover, TypeOK, TimerTypeOK, timerVars, history, Settled
<1>3. CASE grace = "off" /\ r \notin Limits
  BY <1>3 DEF Leave, End, Stop, TypeOK, TimerTypeOK, graceVars, turnVars, history
<1> QED
  BY <1>1, <1>2, <1>3

LEMMA TypeStays == TypeOK /\ [Next]_vars => TypeOK'
<1> SUFFICES ASSUME TypeOK, [Next]_vars
             PROVE  TypeOK'
  OBVIOUS
<1> USE AgentAssumption
<1>1. CASE LimitReached
  BY <1>1, LeaveType DEF LimitReached, Blamed, Reasons, Limits
<1>2. CASE BeginTurn
  <2>1. turn' \in 0..MaxTurns
    BY <1>2 DEF BeginTurn, TurnsLeft, TypeOK
  <2> QED
    BY <1>2, <2>1 DEF BeginTurn, TypeOK, TimerTypeOK, timerVars, graceVars,
       history, Settled
<1>3. CASE ModelAborted
  BY <1>3, LeaveType DEF ModelAborted, Blamed, Reasons, Limits
<1>4. CASE ToolsEnd
  <2>1. CASE UNCHANGED <<timerVars, turn, reason, aborted, graceVars, turnVars,
                         history>> /\ pc' = "loop"
    BY <2>1 DEF TypeOK, TimerTypeOK, timerVars, graceVars, turnVars, history
  <2>2. CASE \E r \in {"aborted", "goal", "none"} : Leave(r)
    BY <2>2, LeaveType DEF Reasons
  <2> QED
    BY <1>4, <2>1, <2>2 DEF ToolsEnd
<1>5. CASE Timeout
  BY <1>5 DEF Timeout, Fire, TypeOK, TimerTypeOK, graceVars, turnVars, history
<1>6. CASE GraceOver
  BY <1>6 DEF GraceOver, TypeOK, TimerTypeOK, timerVars, turnVars, history
<1>7. CASE Tick
  <2>1. TimerTypeOK'
    BY <1>7 DEF Tick, Passes, Due, TypeOK, TimerTypeOK
  <2>2. graceLeft' \in 0..Grace /\ worked' \in 0..Ample
    BY <1>7, BudgetAssumption DEF Tick, TypeOK, Ample
  <2> QED
    BY <1>7, <2>1, <2>2 DEF Tick, TypeOK, turnVars
<1>8. CASE ModelCallsTools
  BY <1>8 DEF ModelCallsTools, TypeOK, TimerTypeOK, timerVars, graceVars, history,
              Settled
<1>9. CASE ModelStops
  BY <1>9, LeaveType DEF ModelStops, Reasons, Limits
<1>10. CASE ModelFails
  BY <1>10, LeaveType DEF ModelFails, Reasons
<1>11. CASE Abort
  BY <1>11 DEF Abort, TypeOK, TimerTypeOK, timerVars, graceVars, turnVars, history
<1>12. ASSUME NEW c \in Calls, Ask(c)
       PROVE  TypeOK'
  BY <1>12, PauseType DEF Ask, TypeOK, CallFrame, graceVars
<1>13. ASSUME NEW c \in Calls, Agree(c) \/ Refuse(c)
       PROVE  TypeOK'
  <2>1. call' \in [Calls -> Settled \cup {"checking", "awaiting", "running"}]
    BY <1>13 DEF Agree, Refuse, TypeOK, Settled
  <2> QED
    BY <1>13, <2>1, ResumeType DEF Agree, Refuse, Answer, TypeOK, CallFrame,
       graceVars, history
<1>14. ASSUME NEW c \in Calls, Permit(c) \/ CallAborted(c) \/ DeafReturns(c)
       PROVE  TypeOK'
  BY <1>14 DEF Permit, CallAborted, DeafReturns, Cancelled, TypeOK, TimerTypeOK, timerVars, CallFrame,
               graceVars, history, Settled
<1>15. ASSUME NEW c \in Calls, ToolEnds(c)
       PROVE  TypeOK'
  BY <1>15 DEF ToolEnds, TypeOK, TimerTypeOK, timerVars, CallFrame, graceVars,
               history, Settled
<1>16. CASE UNCHANGED vars
  BY <1>16 DEF vars, TypeOK, TimerTypeOK, timerVars, graceVars, turnVars, history
<1> QED
  BY <1>1, <1>2, <1>3, <1>4, <1>5, <1>6, <1>7, <1>8, <1>9, <1>10, <1>11, <1>12,
     <1>13, <1>14, <1>15, <1>16 DEF Next, Reacts

LEMMA TypeInit == Init => TypeOK
<1> SUFFICES ASSUME Init
             PROVE  TypeOK
  OBVIOUS
<1>1. remaining \in 0..Budget /\ elapsed \in 0..remaining /\ worked \in 0..Ample
  BY BudgetAssumption DEF Init, TimerInit, Ample
<1>2. /\ armed \in BOOLEAN /\ isPaused \in BOOLEAN
      /\ expired \in BOOLEAN /\ stopped \in BOOLEAN
  BY DEF Init, TimerInit
<1>3. turn \in 0..MaxTurns /\ graceLeft \in 0..Grace
  BY AgentAssumption DEF Init
<1> QED
  BY <1>1, <1>2, <1>3 DEF Init, TypeOK, TimerTypeOK, Reasons, Settled

(* The agent and its timer keep their types: in particular the timer never *)
(* measures more than the time it was set to.                              *)
THEOREM AgentTypes == Spec => []TypeOK
BY TypeInit, TypeStays, PTL DEF Spec

-----------------------------------------------------------------------------
(* Time.  The invariant: the clock runs unless it is stopped for the user  *)
(* or over; it is stopped only while a call waits, or when an abort has    *)
(* ended the wait; and the time worked is the time measured.               *)
ClockOK ==
  /\ armed => ~isPaused /\ ~expired /\ ~stopped
  /\ armed \/ isPaused \/ expired \/ stopped
  /\ stopped <=> pc = "ended"
  /\ expired => ~isPaused

CallsOK == pc # "tools" => \A c \in Calls : call[c] \in Settled

WaitOK ==
  /\ isPaused => (\E c \in Calls : call[c] = "awaiting")
                 \/ aborted \/ grace = "expired"
  /\ ~overlapped =>
       \A c, d \in Calls : call[c] = "awaiting" /\ call[d] = "awaiting" => c = d
  /\ armed /\ ~overlapped => \A c \in Calls : call[c] # "awaiting"

Steps == ClockOK /\ CallsOK /\ WaitOK

Used == Budget - remaining + elapsed

SpentOK ==
  /\ worked <= Used
  /\ expired => elapsed = remaining
  /\ isPaused => elapsed = 0
  /\ ~overlapped /\ ~aborted /\ grace # "expired" => worked = Used

LEMMA LeaveSteps ==
  ASSUME TypeOK, Steps, NEW r \in Reasons, Leave(r), pc # "ended",
         \A c \in Calls : call[c] \in Settled
  PROVE  Steps'
<1>1. CASE grace # "off" \/ r \notin Limits
  <2>1. PICK q \in Reasons : End(q)
    BY <1>1 DEF Leave, Reasons, TypeOK
  <2>2. ClockOK'
    BY <2>1 DEF End, Stop, ClockOK
  <2> QED
    BY <2>1, <2>2 DEF End, Stop, Steps, ClockOK, CallsOK, WaitOK, graceVars,
       turnVars, history, Settled
<1>2. CASE grace = "off" /\ r \in Limits
  <2>1. Recover(r)
    BY <1>2 DEF Leave
  <2>2. \A c \in Calls : call'[c] = "none"
    BY <2>1 DEF Recover
  <2>3. ClockOK'
    BY <2>1 DEF Recover, Steps, ClockOK, timerVars
  <2> QED
    BY <1>2, <2>1, <2>2, <2>3 DEF Recover, Steps, CallsOK, WaitOK, timerVars,
       history, Settled
<1> QED
  BY <1>1, <1>2

LEMMA StepsStay == TypeOK /\ Steps /\ [Next]_vars => Steps'
<1> SUFFICES ASSUME TypeOK, Steps, [Next]_vars
             PROVE  Steps'
  OBVIOUS
<1>1. CASE LimitReached
  BY <1>1, LeaveSteps DEF LimitReached, Blamed, Reasons, Limits, Steps, CallsOK
<1>2. CASE BeginTurn
  <2>1. \A c \in Calls : call'[c] = "none"
    BY <1>2 DEF BeginTurn
  <2> QED
    BY <1>2, <2>1 DEF BeginTurn, Steps, ClockOK, CallsOK, WaitOK, timerVars,
       graceVars, history, Settled, Combined
<1>3. CASE ModelAborted
  BY <1>3, LeaveSteps DEF ModelAborted, Blamed, Reasons, Limits, Steps, CallsOK
<1>4. CASE ToolsEnd
  <2>1. CASE \E r \in {"aborted", "goal", "none"} : Leave(r)
    BY <1>4, <2>1, LeaveSteps DEF ToolsEnd, Reasons
  <2>2. CASE /\ pc' = "loop"
             /\ UNCHANGED <<timerVars, turn, reason, aborted, graceVars,
                            turnVars, history>>
    BY <1>4, <2>2 DEF ToolsEnd, Steps, ClockOK, CallsOK, WaitOK, timerVars,
       graceVars, turnVars, history
  <2> QED
    BY <1>4, <2>1, <2>2 DEF ToolsEnd
<1>5. CASE Timeout
  <2>1. ClockOK'
    BY <1>5 DEF Timeout, Fire, Due, Steps, ClockOK
  <2> QED
    BY <1>5, <2>1 DEF Timeout, Fire, Steps, CallsOK, WaitOK, graceVars, turnVars,
       history
<1>6. CASE GraceOver
  BY <1>6 DEF GraceOver, Steps, ClockOK, CallsOK, WaitOK, timerVars, turnVars,
              history
<1>7. CASE Tick
  BY <1>7 DEF Tick, Passes, Steps, ClockOK, CallsOK, WaitOK, turnVars
<1>8. CASE ModelCallsTools
  <2>1. \A c \in Calls : call'[c] # "awaiting"
    BY <1>8 DEF ModelCallsTools
  <2>2. ClockOK'
    BY <1>8 DEF ModelCallsTools, Steps, ClockOK, timerVars
  <2>3. \A c \in Calls : call[c] # "awaiting"
    BY <1>8 DEF ModelCallsTools, Steps, CallsOK, Settled
  <2> QED
    BY <1>8, <2>1, <2>2, <2>3 DEF ModelCallsTools, Steps, CallsOK, WaitOK,
       timerVars, graceVars, history
<1>9. CASE ModelStops
  BY <1>9, LeaveSteps DEF ModelStops, Reasons, Limits, Steps, CallsOK
<1>10. CASE ModelFails
  BY <1>10, LeaveSteps DEF ModelFails, Reasons, Steps, CallsOK
<1>11. CASE Abort
  BY <1>11 DEF Abort, Steps, ClockOK, CallsOK, WaitOK, timerVars, graceVars,
               turnVars, history
<1>12. ASSUME NEW c \in Calls, Ask(c)
       PROVE  Steps'
  <2>1. ClockOK'
    BY <1>12 DEF Ask, Pause, Over, timerVars, CallFrame, Steps, ClockOK
  <2>2. /\ call'[c] = "awaiting" /\ pc = "tools" /\ pc' = "tools"
        /\ \A d \in Calls \ {c} : call'[d] = call[d]
    BY <1>12 DEF Ask, CallFrame, TypeOK, Steps, CallsOK, Settled
  <2>3. overlapped' = (overlapped \/ \E d \in Calls : call[d] = "awaiting")
    BY <1>12 DEF Ask, Waiting
  <2>4. armed' => FALSE
    BY <1>12 DEF Ask, Pause, Over, timerVars, Steps, ClockOK
  <2> QED
    BY <2>1, <2>2, <2>3, <2>4 DEF Steps, CallsOK, WaitOK
<1>13. ASSUME NEW c \in Calls, Agree(c) \/ Refuse(c)
       PROVE  Steps'
  <2>1. ClockOK'
    BY <1>13 DEF Agree, Refuse, Answer, Resume, Over, timerVars, CallFrame,
       Steps, ClockOK
  <2>2. /\ call'[c] # "awaiting" /\ pc = "tools" /\ pc' = "tools"
        /\ call[c] = "awaiting"
        /\ \A d \in Calls \ {c} : call'[d] = "awaiting" => call[d] = "awaiting"
    BY <1>13 DEF Agree, Refuse, Answer, CallFrame, TypeOK, Steps, CallsOK, Settled
  <2>3. overlapped' = overlapped
    BY <1>13 DEF Agree, Refuse, Answer, history
  <2>4. ~isPaused'
    BY <1>13, <2>2 DEF Agree, Refuse, Answer, Resume, Over, timerVars, Steps,
       ClockOK
  <2> QED
    BY <2>1, <2>2, <2>3, <2>4 DEF Steps, CallsOK, WaitOK
<1>14. ASSUME NEW c \in Calls, Permit(c) \/ ToolEnds(c)
       PROVE  Steps'
  <2>0. UNCHANGED <<timerVars, pc, aborted, grace, overlapped>>
    BY <1>14 DEF Permit, ToolEnds, CallFrame, graceVars, history
  <2>1. ClockOK'
    BY <2>0 DEF timerVars, Steps, ClockOK
  <2>2. /\ pc = "tools" /\ pc' = "tools"
        /\ \A d \in Calls : call'[d] = "awaiting" <=> call[d] = "awaiting"
    BY <1>14 DEF Permit, ToolEnds, CallFrame, TypeOK, Steps, CallsOK, Settled
  <2> QED
    BY <2>0, <2>1, <2>2 DEF timerVars, Steps, CallsOK, WaitOK
<1>15. ASSUME NEW c \in Calls, CallAborted(c) \/ DeafReturns(c)
       PROVE  Steps'
  <2>1. ClockOK'
    BY <1>15 DEF CallAborted, DeafReturns, Cancelled, timerVars, CallFrame, Steps, ClockOK
  <2>2. /\ pc = "tools" /\ pc' = "tools"
        /\ \A d \in Calls : call'[d] = "awaiting" => call[d] = "awaiting"
    BY <1>15 DEF CallAborted, DeafReturns, Cancelled, CallFrame, TypeOK, Steps, CallsOK, Settled
  <2>3. isPaused => aborted \/ grace = "expired"
    BY <1>15 DEF CallAborted, DeafReturns, Cancelled, Combined, Steps, ClockOK
  <2> QED
    BY <1>15, <2>1, <2>2, <2>3 DEF CallAborted, DeafReturns, Cancelled, timerVars, CallFrame, graceVars,
       history, Steps, CallsOK, WaitOK
<1>16. CASE UNCHANGED vars
  BY <1>16 DEF vars, Steps, ClockOK, CallsOK, WaitOK, timerVars, graceVars,
               turnVars, history
<1> QED
  BY <1>1, <1>2, <1>3, <1>4, <1>5, <1>6, <1>7, <1>8, <1>9, <1>10, <1>11, <1>12,
     <1>13, <1>14, <1>15, <1>16 DEF Next, Reacts

LEMMA StepsInit == Init => Steps
BY DEF Init, TimerInit, Steps, ClockOK, CallsOK, WaitOK, Settled

LEMMA LeaveSpent ==
  ASSUME SpentOK, NEW r \in Reasons, Leave(r)
  PROVE  SpentOK'
<1>1. UNCHANGED <<remaining, elapsed, expired, worked, overlapped, aborted>>
  BY DEF Leave, End, Recover, Stop, timerVars, history
<1>2. isPaused' => isPaused
  BY DEF Leave, End, Recover, Stop, timerVars
<1>3. grace = "expired" => grace' = "expired"
  BY DEF Leave, End, Recover, graceVars
<1> QED
  BY <1>1, <1>2, <1>3 DEF SpentOK, Used

LEMMA SpentStays == TypeOK /\ Steps /\ SpentOK /\ [Next]_vars => SpentOK'
<1> SUFFICES ASSUME TypeOK, Steps, SpentOK, [Next]_vars
             PROVE  SpentOK'
  OBVIOUS
<1> DEFINE Untimed ==
      /\ UNCHANGED <<timerVars, worked>>
      /\ overlapped => overlapped'
      /\ aborted => aborted'
      /\ grace = "expired" => grace' = "expired"
<1>0. Untimed => SpentOK'
  BY DEF SpentOK, Used, timerVars
<1>1. CASE LimitReached
  BY <1>1, LeaveSpent DEF LimitReached, Blamed, Reasons, Limits
<1>2. CASE BeginTurn
  BY <1>0, <1>2 DEF BeginTurn, graceVars, history
<1>3. CASE ModelAborted
  BY <1>3, LeaveSpent DEF ModelAborted, Blamed, Reasons, Limits
<1>4. CASE ToolsEnd
  <2>1. CASE \E r \in {"aborted", "goal", "none"} : Leave(r)
    BY <2>1, LeaveSpent DEF Reasons
  <2>2. CASE /\ pc' = "loop"
             /\ UNCHANGED <<timerVars, turn, reason, aborted, graceVars,
                            turnVars, history>>
    BY <1>0, <2>2 DEF graceVars, history
  <2> QED
    BY <1>4, <2>1, <2>2 DEF ToolsEnd
<1>5. CASE Timeout
  BY <1>5 DEF Timeout, Fire, Due, SpentOK, Used, graceVars, history
<1>6. CASE GraceOver
  BY <1>0, <1>6 DEF GraceOver, history
<1>7. CASE Tick
  <2> DEFINE works == Waiting = {} /\ ~expired /\ ~Combined /\ worked < Ample
  <2>1. /\ remaining \in Nat /\ elapsed \in Nat /\ worked \in Nat
        /\ elapsed <= remaining /\ remaining <= Budget /\ Budget \in Nat
    BY BudgetAssumption DEF TypeOK, TimerTypeOK, Ample
  <2>2. works => armed
    BY <1>7 DEF Tick, Steps, ClockOK, WaitOK, Combined, Waiting
  <2>3. armed => ~(elapsed = remaining) /\ ~expired /\ ~isPaused
    BY <1>7 DEF Tick, Due, Steps, ClockOK
  <2>4. /\ remaining' = remaining /\ expired' = expired /\ isPaused' = isPaused
        /\ elapsed' = IF armed THEN elapsed + 1 ELSE elapsed
        /\ worked' = IF works THEN worked + 1 ELSE worked
        /\ UNCHANGED <<overlapped, aborted, grace>>
    BY <1>7 DEF Tick, Passes
  <2>5. ~overlapped /\ ~aborted /\ grace # "expired" /\ armed =>
          Waiting = {} /\ ~expired /\ ~Combined
    BY DEF Steps, ClockOK, WaitOK, Combined, Waiting
  <2>6. CASE armed
    <3>1. elapsed' = elapsed + 1 /\ elapsed < remaining /\ ~expired /\ ~isPaused
      BY <2>1, <2>3, <2>4, <2>6
    <3>2. ~overlapped /\ ~aborted /\ grace # "expired" => works
      BY <2>1, <2>5, <2>6, <3>1 DEF SpentOK, Used, Ample
    <3>3. worked' <= Used' /\ worked' \in {worked, worked + 1}
      BY <2>1, <2>4, <3>1 DEF SpentOK, Used
    <3>4. works => (worked = Used => worked' = Used')
      BY <2>1, <2>4, <3>1 DEF Used
    <3> QED
      BY <2>4, <3>1, <3>2, <3>3, <3>4 DEF SpentOK
  <2>7. CASE ~armed
    <3>1. UNCHANGED <<remaining, elapsed, isPaused, expired, worked, overlapped,
                      aborted, grace>>
      BY <2>2, <2>4, <2>7
    <3> QED
      BY <3>1 DEF SpentOK, Used
  <2> QED
    BY <2>6, <2>7
<1>8. CASE ModelCallsTools
  BY <1>0, <1>8 DEF ModelCallsTools, graceVars, history
<1>9. CASE ModelStops
  BY <1>9, LeaveSpent DEF ModelStops, Reasons, Limits
<1>10. CASE ModelFails
  BY <1>10, LeaveSpent DEF ModelFails, Reasons
<1>11. CASE Abort
  BY <1>0, <1>11 DEF Abort, graceVars, history
<1>12. ASSUME NEW c \in Calls, Ask(c)
       PROVE  SpentOK'
  <2>1. UNCHANGED <<worked, aborted, grace>> /\ (overlapped => overlapped')
    BY <1>12 DEF Ask, CallFrame, graceVars
  <2>2. CASE isPaused \/ Over
    <3>1. UNCHANGED timerVars
      BY <1>12, <2>2 DEF Ask, Pause
    <3> QED
      BY <1>0, <2>1, <3>1
  <2>3. CASE ~(isPaused \/ Over)
    <3>1. remaining' = remaining - elapsed /\ elapsed' = 0 /\ expired' = expired
          /\ ~expired
      BY <1>12, <2>3 DEF Ask, Pause, LeftNow, Over
    <3>2. Used' = Used
      BY <3>1, BudgetAssumption DEF Used, TypeOK, TimerTypeOK
    <3> QED
      BY <2>1, <3>1, <3>2 DEF SpentOK
  <2> QED
    BY <2>2, <2>3
<1>13. ASSUME NEW c \in Calls, Agree(c) \/ Refuse(c)
       PROVE  SpentOK'
  <2>0. Resume
    BY <1>13 DEF Agree, Refuse, Answer
  <2>1. UNCHANGED <<worked, aborted, grace, overlapped>>
    BY <1>13 DEF Agree, Refuse, Answer, CallFrame, graceVars, history
  <2>2. CASE ~isPaused \/ Over
    <3>1. UNCHANGED timerVars
      BY <2>0, <2>2 DEF Resume
    <3> QED
      BY <1>0, <2>1, <3>1
  <2>3. CASE ~(~isPaused \/ Over)
    <3>1. /\ elapsed' = 0 /\ remaining' = remaining
          /\ expired' = expired /\ ~expired /\ isPaused
      BY <2>0, <2>3 DEF Resume, Over
    <3> QED
      BY <2>1, <3>1 DEF SpentOK, Used
  <2> QED
    BY <2>2, <2>3
<1>14. ASSUME NEW c \in Calls, Permit(c) \/ ToolEnds(c) \/ CallAborted(c) \/ DeafReturns(c)
       PROVE  SpentOK'
  <2>1. UNCHANGED <<timerVars, worked, overlapped, aborted, grace>>
    BY <1>14 DEF Permit, ToolEnds, CallAborted, DeafReturns, Cancelled, CallFrame, graceVars, history
  <2> QED
    BY <1>0, <2>1
<1>15. CASE UNCHANGED vars
  BY <1>0, <1>15 DEF vars, graceVars, history
<1> QED
  BY <1>1, <1>2, <1>3, <1>4, <1>5, <1>6, <1>7, <1>8, <1>9, <1>10, <1>11, <1>12,
     <1>13, <1>14, <1>15 DEF Next, Reacts

LEMMA SpentInit == Init => SpentOK
<1> SUFFICES ASSUME Init
             PROVE  SpentOK
  OBVIOUS
<1>1. Used = 0 /\ worked = 0
  BY BudgetAssumption DEF Init, TimerInit, Used
<1>2. ~expired /\ ~isPaused
  BY DEF Init, TimerInit
<1> QED
  BY <1>1, <1>2 DEF SpentOK

LEMMA AgentInvariant == Spec => [](TypeOK /\ Steps /\ SpentOK)
<1>1. Init => TypeOK /\ Steps /\ SpentOK
  BY TypeInit, StepsInit, SpentInit
<1>2. TypeOK /\ Steps /\ SpentOK /\ [Next]_vars => (TypeOK /\ Steps /\ SpentOK)'
  BY TypeStays, StepsStay, SpentStays
<1> QED
  BY <1>1, <1>2, PTL DEF Spec

(* However often and in whatever order the clock is stopped and started,   *)
(* by questions, answers, aborts and the turn of grace, an agent never     *)
(* works longer than its limit.                                            *)
THEOREM LimitHolds == Spec => []TimeIsLimited
<1>1. TypeOK /\ SpentOK => TimeIsLimited
  BY BudgetAssumption DEF TypeOK, TimerTypeOK, SpentOK, Used, TimeIsLimited, Ample
<1> QED
  BY AgentInvariant, <1>1, PTL

(* No time in which the user is asked counts: an agent that times out has  *)
(* worked for its whole limit, if it was not aborted before and no two     *)
(* questions were open at once.                                            *)
THEOREM CreditHolds == Spec => []TimeIsCredited
<1>1. TypeOK /\ SpentOK => TimeIsCredited
  <2>1. TypeOK /\ SpentOK /\ expired => Used = Budget
    BY BudgetAssumption DEF TypeOK, TimerTypeOK, SpentOK, Used
  <2> QED
    BY <2>1 DEF SpentOK, TimeIsCredited
<1> QED
  BY AgentInvariant, <1>1, PTL

(* Whatever the order of questions, answers and callbacks of the timer, an *)
(* agent has all of its time when it times out, and never more.            *)
THEOREM TimeKept == Spec => []TimeIsKept
<1>1. TimeIsCredited /\ TimeIsLimited => TimeIsKept
  BY DEF TimeIsKept
<1> QED
  BY CreditHolds, LimitHolds, <1>1, PTL

(* After the abort, whichever signal the turn has, no tool starts and the  *)
(* run does not succeed any more, unless complete_task had succeeded       *)
(* before.                                                                 *)
THEOREM AbortHolds == Spec => AbortEndsWork
<1>1. ASSUME TypeOK, [Next]_vars, aborted, NEW c \in Calls, call[c] # "running"
      PROVE  call'[c] # "running"
  <2>1. Combined
    BY <1>1 DEF Combined
  <2>2. ASSUME NEW r, Leave(r)
        PROVE  call'[c] # "running"
    BY <1>1, <2>2 DEF Leave, End, Recover, turnVars
  <2>3. CASE LimitReached \/ ModelAborted \/ ModelStops \/ ModelFails
    BY <2>2, <2>3 DEF LimitReached, ModelAborted, ModelStops, ModelFails
  <2>4. CASE ToolsEnd
    BY <1>1, <2>2, <2>4 DEF ToolsEnd, turnVars
  <2>5. CASE BeginTurn \/ ModelCallsTools
    BY <2>1, <2>5 DEF BeginTurn, ModelCallsTools
  <2>6. CASE Timeout \/ GraceOver \/ Tick \/ Abort \/ UNCHANGED vars
    BY <1>1, <2>6 DEF Timeout, GraceOver, Tick, Abort, vars, turnVars
  <2>7. ASSUME NEW d \in Calls, CallAborted(d) \/ DeafReturns(d)
        PROVE  call'[c] # "running"
    BY <1>1, <2>7 DEF CallAborted, DeafReturns, Cancelled, TypeOK
  <2>8. ASSUME NEW d \in Calls, Ask(d) \/ Permit(d) \/ ToolEnds(d) \/ Agree(d) \/ Refuse(d)
        PROVE  FALSE
    BY <2>1, <2>8 DEF Ask, Permit, ToolEnds, Agree, Refuse, Answer
  <2> QED
    BY <1>1, <2>3, <2>4, <2>5, <2>6, <2>7, <2>8 DEF Next, Reacts
<1>2. ASSUME [Next]_vars, aborted
      PROVE  aborted'
  <2>1. ASSUME NEW r, Leave(r)
        PROVE  aborted'
    BY <1>2, <2>1 DEF Leave, End, Recover
  <2>2. CASE LimitReached \/ ModelAborted \/ ModelStops \/ ModelFails \/ ToolsEnd
    BY <1>2, <2>1, <2>2 DEF LimitReached, ModelAborted, ModelStops, ModelFails, ToolsEnd
  <2>3. CASE BeginTurn \/ ModelCallsTools \/ Timeout \/ GraceOver \/ Tick \/ Abort \/ UNCHANGED vars
    BY <1>2, <2>3 DEF BeginTurn, ModelCallsTools, Timeout, GraceOver, Tick, Abort, vars
  <2>4. ASSUME NEW d \in Calls,
               \/ Ask(d) \/ Permit(d) \/ ToolEnds(d) \/ Agree(d) \/ Refuse(d)
               \/ CallAborted(d) \/ DeafReturns(d)
        PROVE  aborted'
    BY <1>2, <2>4 DEF Ask, Permit, ToolEnds, Agree, Refuse, Answer, CallAborted,
       DeafReturns, Cancelled, CallFrame
  <2> QED
    BY <1>2, <2>2, <2>3, <2>4 DEF Next, Reacts
<1>3. ASSUME TypeOK, [Next]_vars, aborted, ~completes, reason # "goal"
      PROVE  ~completes' /\ reason' # "goal"
  <2>1. Combined
    BY <1>3 DEF Combined
  <2>2. ASSUME NEW r, r # "goal", Leave(r)
        PROVE  ~completes' /\ reason' # "goal"
    BY <1>3, <2>2 DEF Leave, End, Recover, turnVars
  <2>3. CASE LimitReached \/ ModelAborted \/ ModelStops \/ ModelFails
    BY <2>2, <2>3 DEF LimitReached, ModelAborted, ModelStops, ModelFails, Blamed
  <2>4. CASE ToolsEnd
    BY <1>3, <2>2, <2>4 DEF ToolsEnd, turnVars
  <2>5. CASE BeginTurn \/ ModelCallsTools
    BY <2>1, <2>5 DEF BeginTurn, ModelCallsTools
  <2>6. CASE Timeout \/ GraceOver \/ Tick \/ Abort \/ UNCHANGED vars
    <3>1. reason' = reason
      BY <2>6 DEF Timeout, GraceOver, Tick, Abort, vars
    <3>2. completes' = completes
      BY <2>6 DEF Timeout, GraceOver, Tick, Abort, vars, turnVars
    <3> QED
      BY <1>3, <3>1, <3>2, Zenon
  <2>7. ASSUME NEW d \in Calls, CallAborted(d) \/ DeafReturns(d)
        PROVE  ~completes' /\ reason' # "goal"
    <3>1. reason' = reason
      BY <2>7 DEF CallAborted, DeafReturns, Cancelled, CallFrame
    <3>2. completes' = completes
      BY <2>7 DEF CallAborted, DeafReturns, Cancelled
    <3> QED
      BY <1>3, <3>1, <3>2, Zenon
  <2>8. ASSUME NEW d \in Calls, Ask(d) \/ Permit(d) \/ ToolEnds(d) \/ Agree(d) \/ Refuse(d)
        PROVE  FALSE
    BY <2>1, <2>8 DEF Ask, Permit, ToolEnds, Agree, Refuse, Answer
  <2> QED
    BY <1>3, <2>3, <2>4, <2>5, <2>6, <2>7, <2>8 DEF Next, Reacts
<1>4. ASSUME NEW c \in Calls
      PROVE  Spec => [](aborted /\ call[c] # "running" => [](call[c] # "running"))
  <2>1. TypeOK /\ [Next]_vars /\ (aborted /\ call[c] # "running")
        => (aborted /\ call[c] # "running")'
    BY <1>1, <1>2
  <2> QED
    BY <2>1, AgentTypes, PTL DEF Spec
<1>5. Spec => [](aborted /\ ~completes /\ reason # "goal" => [](reason # "goal"))
  <2>1. TypeOK /\ [Next]_vars /\ (aborted /\ ~completes /\ reason # "goal")
        => (aborted /\ ~completes /\ reason # "goal")'
    BY <1>2, <1>3
  <2> QED
    BY <2>1, AgentTypes, PTL DEF Spec
<1> QED
  BY <1>4, <1>5 DEF AbortEndsWork
=============================================================================
