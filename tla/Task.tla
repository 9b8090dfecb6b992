-------------------------------- MODULE Task --------------------------------
(* A task of the A2A server (agent/task.ts): the calls it waits for, the   *)
(* promise with which an execution waits for them, and what it does with   *)
(* the updates of its scheduler.  The scheduler, modelled in full in       *)
(* Scheduler, is here what a task can tell of it: a batch at a time, in    *)
(* one wave, each call with its status.                                    *)
EXTENDS Naturals, FiniteSets

CONSTANTS
  Tasks,      \* Task objects; the same task may be loaded more than once
  MaxCalls,   \* bound on the tool calls of the model
  Requests,   \* requests of clients, each handled by one execute()
  Nobody      \* not one of the above

ASSUME TaskAssumption == MaxCalls \in Nat /\ Nobody \notin Tasks

Calls == 1..MaxCalls

TaskStates == {"submitted", "working", "input-required", "canceled", "failed"}
(* A call that has succeeded or failed has a result.                       *)
Terminal == {"result", "cancelled"}
Statuses == {"none", "queued", "validating", "awaiting", "scheduled",
             "executing", "rejected", "lost"} \cup Terminal

VARIABLES
  \* of each Task object
  taskState,    \* taskState
  promise,      \* toolCompletionPromise: "open" or "resolved"
  listens,      \* messageBusListener is subscribed
  \* of each call, in the maps of the task it belongs to
  pending,      \* pendingToolCalls: a status, or "none"
  completed,    \* completedToolCalls: the status it ended with, or "none"
  processed,    \* processedToolCallIds
  confirmed,    \* toolsAlreadyConfirmed
  details,      \* pendingToolConfirmationDetails
  correlation,  \* pendingCorrelationIds
  \* of each execution
  wait,         \* what became of the promise it waits for
  \* of the schedulers
  status,       \* status of a call
  work,         \* what the scheduler still does for it
  home, by,     \* the task of a call, the request whose signal it has
  isCancelling, \* isCancelling, of the scheduler of each task
  \* history
  told          \* how often a result was given to the model

mapVars == <<pending, completed, processed, confirmed, details, correlation>>
schedulerVars == <<status, work, home, by, isCancelling>>
taskVars == <<taskState, promise, listens, mapVars, wait, schedulerVars, told>>

TaskInit ==
  /\ taskState = [o \in Tasks |-> "submitted"]
  /\ promise = [o \in Tasks |-> "resolved"]
  /\ listens = [o \in Tasks |-> FALSE]
  /\ pending = [c \in Calls |-> "none"]
  /\ completed = [c \in Calls |-> "none"]
  /\ processed = {} /\ confirmed = {} /\ details = {} /\ correlation = {}
  /\ wait = [e \in Requests |-> <<Nobody, "none">>]
  /\ status = [c \in Calls |-> "none"]
  /\ work = [c \in Calls |-> "none"]
  /\ home = [c \in Calls |-> Nobody]
  /\ by = [c \in Calls |-> Nobody]
  /\ isCancelling = [o \in Tasks |-> FALSE]
  /\ told = [c \in Calls |-> 0]

Of(o) == {c \in Calls : home[c] = o}
Pending(o) == {c \in Of(o) : pending[c] # "none"}

(* A map of the task is cleared.                                           *)
Without(map, o) == [c \in Calls |-> IF c \in Of(o) THEN "none" ELSE map[c]]

(* Who waits for the present promise of a task is told how it settled;     *)
(* when the promise is replaced nobody can settle it any more.             *)
Settled(o, how) ==
  [e \in Requests |-> IF wait[e] = <<o, "open">> THEN <<o, how>> ELSE wait[e]]

-----------------------------------------------------------------------------
(* Updates of the scheduler.                                               *)

(* The calls of an update of which the task has not yet seen the end.      *)
Fresh(o, st) ==
  {c \in Of(o) : /\ st[c] \notin {"none", "queued", "rejected", "lost"}
                 /\ c \notin processed /\ completed[c] = "none"}

(* hasChanged.                                                             *)
Changed(c, st) == pending[c] # st[c]

(* Mutant: the task does not count cancelled calls as ended.               *)
EndedWithResult(o, st) ==
  {c \in Fresh(o, st) : st[c] = "result" /\ Changed(c, st)}

Ended(o, st) == {c \in Fresh(o, st) : st[c] \in Terminal /\ Changed(c, st)}

Registered(o, st) ==
  [c \in Calls |-> IF c \in Ended(o, st) THEN "none"
                   ELSE IF c \in Fresh(o, st) THEN st[c] ELSE pending[c]]

(* checkInputRequiredState, for the pending calls p of a task.             *)
AwaitsInput(o, p, conf) ==
  /\ \E c \in Of(o) \ conf : p[c] = "awaiting"
  /\ \A c \in Of(o) : p[c] \notin {"executing", "scheduled"}

(* Mutant: the promise is not resolved when a result comes.                *)
SettlesOnInputOnly(o, st) ==
  /\ AwaitsInput(o, Registered(o, st), confirmed \ Ended(o, st))
  /\ taskState[o] # "input-required"

(* An update resolves the promise when nothing is left pending, or when    *)
(* the user must answer before anything can go on.                         *)
Settles(o, st) ==
  \/ Pending(o) # {} /\ \A c \in Of(o) : Registered(o, st)[c] = "none"
  \/ /\ AwaitsInput(o, Registered(o, st), confirmed \ Ended(o, st))
     /\ taskState[o] # "input-required"

Opens(o, st) ==
  Pending(o) = {} /\ \E c \in Of(o) : Registered(o, st)[c] # "none"

(* handleEventDrivenToolCallsUpdate.                                       *)
Update(o, st) ==
  LET awaiting == {c \in Fresh(o, st) : st[c] = "awaiting"}
      left == confirmed \ Ended(o, st)
  IN  /\ pending' = Registered(o, st)
      /\ completed' = [c \in Calls |-> IF c \in Ended(o, st) THEN st[c]
                                       ELSE completed[c]]
      /\ confirmed' = left
      /\ details' = details \cup awaiting
      /\ correlation' = correlation \cup awaiting
      /\ taskState' = [taskState EXCEPT ![o] =
                         IF AwaitsInput(o, pending', left)
                         THEN "input-required" ELSE @]
      /\ promise' = [promise EXCEPT ![o] =
                       IF Settles(o, st) THEN "resolved"
                       ELSE IF Opens(o, st) THEN "open" ELSE @]
      /\ wait' = IF Settles(o, st) THEN Settled(o, "resolved") ELSE wait
      /\ UNCHANGED <<listens, processed, told>>

(* The scheduler has changed statuses to st and says so on the bus.        *)
Report(o, st) ==
  /\ status' = st
  /\ IF listens[o] THEN Update(o, st)
     ELSE UNCHANGED <<taskState, promise, listens, mapVars, wait, told>>

-----------------------------------------------------------------------------
(* What the scheduler does by itself.                                      *)

Live == {"validating", "awaiting", "scheduled", "executing"}

(* isProcessing or isActive.                                               *)
Busy(o) == \E c \in Of(o) : status[c] \in Live \/ work[c] # "none"

(* The batch that has waited longest is started.                           *)
StartQueued(o) ==
  /\ ~Busy(o)
  /\ \E c \in Of(o) : status[c] = "queued"
  /\ LET first == CHOOSE c \in Of(o) :
                    /\ status[c] = "queued"
                    /\ \A x \in Of(o) : status[x] = "queued" => c <= x
         batch == {c \in Of(o) : status[c] = "queued" /\ by[c] = by[first]}
     IN  /\ work' = [c \in Calls |-> IF c \in batch THEN "checks" ELSE work[c]]
         /\ Report(o, [c \in Calls |-> IF c \in batch THEN "validating"
                                       ELSE status[c]])
  /\ isCancelling' = [isCancelling EXCEPT ![o] = FALSE]
  /\ UNCHANGED <<home, by>>

(* Hooks and policy have looked at the call; what cancelAll() has made of  *)
(* its status is overwritten.                                              *)
Checked(c) ==
  /\ work[c] = "checks"
  /\ \/ /\ Report(home[c], [status EXCEPT ![c] = "awaiting"])
        /\ work' = [work EXCEPT ![c] = "asks"]
     \/ \E s \in {"scheduled", "result"} :
          /\ Report(home[c], [status EXCEPT ![c] = s])
          /\ work' = [work EXCEPT ![c] = "none"]
  /\ UNCHANGED <<home, by, isCancelling>>

(* The answer of the user takes effect.                                    *)
Decided(c) ==
  /\ work[c] \in {"agreed", "refused"}
  /\ Report(home[c], [status EXCEPT
       ![c] = IF work[c] = "agreed" THEN "scheduled" ELSE "cancelled"])
  /\ work' = [work EXCEPT ![c] = "none"]
  /\ UNCHANGED <<home, by, isCancelling>>

(* The signal ends the check or the wait for an answer.                    *)
CheckAborted(c, aborted) ==
  /\ work[c] \in {"checks", "asks"} /\ aborted[by[c]]
  /\ Report(home[c], [status EXCEPT ![c] = "cancelled"])
  /\ work' = [work EXCEPT ![c] = "none"]
  /\ UNCHANGED <<home, by, isCancelling>>

(* All calls of the wave are decided: the permitted ones run.              *)
RunWave(o, aborted) ==
  LET wave == {c \in Of(o) : status[c] = "scheduled"}
      runs == {c \in wave : ~aborted[by[c]]}
  IN  /\ wave # {}
      /\ \A c \in Of(o) :
           work[c] = "none" /\ status[c] \notin {"validating", "awaiting"}
      /\ work' = [c \in Calls |-> IF c \in runs THEN "runs" ELSE work[c]]
      /\ Report(o, [c \in Calls |-> IF c \in runs THEN "executing"
                                    ELSE IF c \in wave THEN "cancelled"
                                    ELSE status[c]])
      /\ UNCHANGED <<home, by, isCancelling>>

(* A tool comes back; after the signal its result is a cancellation.       *)
ToolReturns(c, aborted) ==
  /\ work[c] = "runs"
  /\ work' = [work EXCEPT ![c] = "none"]
  /\ \E s \in IF aborted[by[c]] THEN {"cancelled"} ELSE Terminal :
       Report(home[c], [status EXCEPT ![c] = s])
  /\ UNCHANGED <<home, by, isCancelling>>

-----------------------------------------------------------------------------
(* Operations of the task.                                                 *)

(* scheduleToolCalls with the calls new of the model, for request e: they  *)
(* are registered before the scheduler is told.  The task's state becomes  *)
(* "working", whatever it was.                                             *)
Schedule(o, e, new) ==
  LET s == IF Busy(o) THEN "queued" ELSE "validating"
      empty == \A c \in Of(o) : pending[c] = "none"
  IN  /\ home' = [c \in Calls |-> IF c \in new THEN o ELSE home[c]]
      /\ by' = [c \in Calls |-> IF c \in new THEN e ELSE by[c]]
      /\ status' = [c \in Calls |-> IF c \in new THEN s ELSE status[c]]
      /\ work' = [c \in Calls |-> IF c \in new /\ ~Busy(o) THEN "checks"
                                   ELSE work[c]]
      /\ isCancelling' = [isCancelling EXCEPT ![o] = @ /\ Busy(o)]
      /\ pending' = [c \in Calls |-> IF c \notin new THEN pending[c]
                                     ELSE IF s = "validating" /\ listens[o]
                                          THEN s ELSE "scheduled"]
      /\ taskState' = [taskState EXCEPT ![o] = "working"]
      /\ promise' = [promise EXCEPT ![o] = IF empty THEN "open" ELSE @]
      /\ UNCHANGED <<listens, completed, processed, confirmed, details,
                     correlation, wait, told>>

(* cancelAll() changes the calls one after the other, and the task sees    *)
(* every update: while the first calls are cancelled the later ones are    *)
(* registered again.                                                       *)
Cancellable(o) ==
  {c \in Of(o) : status[c] \in Live /\ ~isCancelling[o]}

SeenAgain(o) ==
  {c \in Cancellable(o) :
     /\ listens[o] /\ c \notin processed /\ completed[c] = "none"
     /\ \E x \in Cancellable(o) : x < c}

(* The state in which cancelPendingTools leaves the task: an update in the *)
(* middle may ask for input that is no longer of use.                      *)
AfterCancel(o) ==
  IF \E k \in Cancellable(o) :
       LET rest == {c \in SeenAgain(o) : c > k}
       IN  /\ \E c \in rest \ confirmed : status[c] = "awaiting"
           /\ \A c \in rest : status[c] \notin {"executing", "scheduled"}
  THEN "input-required" ELSE taskState[o]

(* cancelPendingTools, without what the caller does to the state.  A       *)
(* second cancelAll() during a batch does nothing.                         *)
CancelPending(o, left) ==
  LET gone == Cancellable(o)
      seen == {c \in gone :
                 listens[o] /\ c \notin processed /\ completed[c] = "none"}
  IN  /\ status' = [c \in Calls |->
                      IF c \in gone THEN "cancelled"
                      ELSE IF /\ c \in Of(o) /\ status[c] = "queued"
                              /\ ~isCancelling[o]
                           THEN "rejected" ELSE status[c]]
      /\ isCancelling' = [isCancelling EXCEPT ![o] = TRUE]
      /\ pending' = Without(pending, o)
      /\ completed' = [c \in Calls |-> IF c \in seen THEN "cancelled"
                                        ELSE completed[c]]
      /\ confirmed' = confirmed \ seen
      /\ LET again == {c \in SeenAgain(o) : status[c] = "awaiting"}
         IN  /\ details' = details \cup again
             /\ correlation' = (correlation \ Of(o)) \cup again
      /\ promise' = [promise EXCEPT ![o] = "resolved"]
      /\ wait' = [e \in Requests |-> IF e = left THEN <<Nobody, "none">>
                                   ELSE Settled(o, "rejected")[e]]
      /\ UNCHANGED <<listens, processed, work, home, by, told>>

(* _resetToolCompletionPromise.                                            *)
ResetPromise(o) ==
  /\ promise' = [promise EXCEPT ![o] =
                   IF Pending(o) = {} THEN "resolved" ELSE "open"]
  /\ wait' = Settled(o, "orphaned")

(* _handleToolConfirmationPart for call c, followed by the reset of the    *)
(* promise when the confirmation was of use.  The answer reaches the       *)
(* scheduler if it still waits for one.                                    *)
Knows(o, c) == home[c] = o /\ c \in details \cup correlation

Confirm(o, c, answer) ==
  /\ Knows(o, c)
  /\ confirmed' = confirmed \cup {c}
  /\ details' = details \ {c} /\ correlation' = correlation \ {c}
  /\ work' = [work EXCEPT ![c] =
                IF @ = "asks" /\ c \in correlation THEN answer ELSE @]
  /\ ResetPromise(o)
  /\ taskState' = [taskState EXCEPT ![o] =
                     IF Pending(o) # {} /\ @ # "input-required" THEN "working"
                     ELSE @]
  /\ UNCHANGED <<listens, pending, completed, processed, status, home, by,
                 isCancelling, told>>

(* waitForPendingTools.                                                    *)
WaitFor(o, e) ==
  wait' = [wait EXCEPT ![e] =
             <<o, IF Pending(o) = {} THEN "resolved" ELSE promise[o]>>]

Completed(o) == {c \in Of(o) : completed[c] # "none"}

Told(cs) == [c \in Calls |-> IF c \in cs THEN told[c] + 1 ELSE told[c]]

(* Mutant: the ids of the results are not remembered.                      *)
TakeForgetting(o) ==
  /\ completed' = Without(completed, o)
  /\ told' = Told(Completed(o))
  /\ UNCHANGED processed

(* getAndClearCompletedTools; what it returns is given to the model, as a  *)
(* message or in the history.                                              *)
TakeCompleted(o) ==
  /\ processed' = processed \cup Completed(o)
  /\ completed' = Without(completed, o)
  /\ told' = Told(Completed(o))

=============================================================================
