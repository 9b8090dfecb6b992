---------------------------- MODULE DeadlineTimer ---------------------------
(* A timeout that can be paused (utils/deadlineTimer.ts).  Time passes in  *)
(* ticks; a timer of the runtime fires when it is due.  extend() has no    *)
(* callers and is left out.                                                *)
EXTENDS Naturals

CONSTANT Budget    \* timeoutMs, in ticks
ASSUME BudgetAssumption == Budget \in Nat \ {0}

VARIABLES
  remaining,   \* remainingMs
  elapsed,     \* time since lastStartedAt
  armed,       \* timeoutId # null: the timer fires at elapsed = remaining
  isPaused,
  expired,     \* the timer has aborted its signal
  stopped      \* abort() was called

timerVars == <<remaining, elapsed, armed, isPaused, expired, stopped>>

TimerTypeOK ==
  /\ remaining \in 0..Budget /\ elapsed \in 0..remaining
  /\ armed \in BOOLEAN /\ isPaused \in BOOLEAN
  /\ expired \in BOOLEAN /\ stopped \in BOOLEAN

TimerInit ==
  /\ remaining = Budget /\ elapsed = 0
  /\ armed = TRUE /\ isPaused = FALSE
  /\ expired = FALSE /\ stopped = FALSE

Over == expired \/ stopped

LeftNow == remaining - elapsed

(* Mutant: the timer of the runtime is not cleared.                        *)
PauseStillArmed ==
  /\ isPaused' = (isPaused \/ ~Over)
  /\ UNCHANGED <<remaining, elapsed, armed, expired, stopped>>

Pause ==
  IF isPaused \/ Over THEN UNCHANGED timerVars
  ELSE /\ isPaused' = TRUE /\ armed' = FALSE
       /\ remaining' = LeftNow /\ elapsed' = 0
       /\ UNCHANGED <<expired, stopped>>

(* Mutant: the timer is told to go on and not set again.                   *)
ResumeUnarmed ==
  /\ isPaused' = FALSE
  /\ UNCHANGED <<remaining, elapsed, armed, expired, stopped>>

Resume ==
  IF ~isPaused \/ Over THEN UNCHANGED timerVars
  ELSE /\ isPaused' = FALSE /\ armed' = TRUE /\ elapsed' = 0
       /\ UNCHANGED <<remaining, expired, stopped>>

Due == armed /\ elapsed = remaining

Fire ==
  /\ Due
  /\ armed' = FALSE /\ expired' = TRUE
  /\ UNCHANGED <<remaining, elapsed, isPaused, stopped>>

Stop ==
  /\ armed' = FALSE /\ isPaused' = FALSE /\ stopped' = TRUE
  /\ UNCHANGED <<remaining, elapsed, expired>>

(* Time passes; nothing is measured while the timer is paused.             *)
Passes ==
  /\ elapsed' = IF armed THEN elapsed + 1 ELSE elapsed
  /\ UNCHANGED <<remaining, armed, isPaused, expired, stopped>>

=============================================================================
