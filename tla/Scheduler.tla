----------------------------- MODULE Scheduler -----------------------------
(***************************************************************************)
(* The tool scheduler of the core package: schedule() runs one batch of    *)
(* tool calls at a time and queues later requests; a batch is processed in *)
(* waves of parallel calls, each of which passes the BeforeTool hooks, the *)
(* policy and, when needed, the user, before the whole wave is executed.   *)
(*                                                                         *)
(* JavaScript runs one callback at a time: an action here is the code      *)
(* between two awaits.  The processing loop is `phase', the coroutine of   *)
(* each call is `step', and the two interleave with the client (schedule,  *)
(* abort, cancelAll), the user, the tools and late live output.            *)
(***************************************************************************)
EXTENDS StateManager, Subsequences

CONSTANTS
  Jobs,             \* calls of schedule(), each with one batch of tool calls
  NoJob,            \* no batch is being processed
  Signals,          \* abort signals
  Tools,            \* tool names
  CallsOf,          \* CallsOf[j]: the batch of job j, in request order
  SignalOf,         \* SignalOf[j]: the abort signal given with job j
  ToolOf,           \* ToolOf[c]: the tool a call first names
  Topics,           \* calls of the update_topic tool
  Waits,            \* calls requested with wait_for_previous: true
  Malformed,        \* calls of a missing tool, or whose arguments do not build
  ClientInitiated,  \* calls made by a slash command, not by the model
  Hooked,           \* calls some BeforeTool hook has a say in
  Heedless,         \* tools that may confirm nothing though a hook says "ask"
  Editable,         \* calls of a tool whose proposal the user can edit
  Tailing,          \* calls that may ask for a tail call
  Sandboxed,        \* calls that may ask for a sandbox expansion
  Detachable,       \* calls the user may move to the background
  Interactive,      \* whether there is a user to ask
  MaxTails          \* bound: tail calls in a row of one call

BatchSet(j) == Range(CallsOf[j])

ASSUME SchedulerAssumption ==
  /\ NoJob \notin Jobs
  /\ CallsOf \in [Jobs -> Seq(Calls)]
  /\ \A j \in Jobs : CallsOf[j] # <<>> /\ IsInjective(CallsOf[j])
  /\ \A j, k \in Jobs : j # k => BatchSet(j) \cap BatchSet(k) = {}
  /\ SignalOf \in [Jobs -> Signals]
  /\ ToolOf \in [Calls -> Tools]
  /\ Waits \in SUBSET Calls
  /\ MaxTails \in Nat

VARIABLES
  promise,          \* promise[j]: what the caller of schedule() sees
  answer,           \* answer[j]: the completed calls job j was resolved with
  requestQueue,     \* requestQueue: jobs waiting for the scheduler
  aborted,          \* the signals that have fired
  isCancelling,     \* isCancelling
  phase,            \* where the processing loop is suspended
  current,          \* the job whose batch is being processed
  wave,             \* the calls last made active, in the map's order
  step,             \* step[c]: where the coroutine of call c is suspended
  args,             \* args[c]: which arguments the invocation of call c has
  tool,             \* tool[c]: the tool call c names now
  waits,            \* calls that are not parallelizable
  rewritten,        \* calls whose request has arguments made by a hook
  forced,           \* calls a hook sends to the user
  verdict,          \* verdict[c]: the policy decision about call c
  outcome,          \* outcome[c]: how the confirmation of call c ended
  result,           \* result[c]: what the executor made of call c
  tails,            \* tails[c]: tail calls of c so far
  detached,         \* calls whose process goes on in the background
  policy,           \* policy[t]: the policy decision for tool t
  approved,         \* history: the arguments permission was given for
  consented         \* history: forced calls the user, last asked, agreed to

clientVars  == <<promise, answer, requestQueue, aborted>>
loopVars    == <<isCancelling, phase, current, wave>>
requestVars == <<args, rewritten, tool, waits, tails>>
checkVars   == <<forced, verdict, outcome, policy, approved, consented>>
runVars     == <<result, detached>>
vars == <<storeVars, clientVars, loopVars, requestVars, checkVars, runVars, step>>

Promises == {"unscheduled", "queued", "running", "resolved", "rejected"}
Phases   == {"idle", "loop", "validating", "executing", "returning"}
Steps    == {"idle", "hook", "policy", "details", "asking", "editing",
             "applying", "decided", "running", "settling"}
Args     == {"none", "requested", "hooked", "edited", "foreign", "expanded"}
Verdicts == {"none", "allow", "ask_user", "deny"}
Outcomes == {"none", "proceed", "always", "cancel"}
Results  == {"none", "success", "error", "cancelled", "expansion"}

SchedulerTypeOK ==
  /\ promise \in [Jobs -> Promises]
  /\ answer \in [Jobs -> SUBSET Calls]
  /\ requestQueue \in Seq(Jobs)
  /\ aborted \in SUBSET Signals
  /\ isCancelling \in BOOLEAN
  /\ phase \in Phases
  /\ current \in Jobs \cup {NoJob}
  /\ wave \in Seq(Calls)
  /\ step \in [Calls -> Steps]
  /\ args \in [Calls -> Args]
  /\ tool \in [Calls -> Tools]
  /\ waits \in SUBSET Calls
  /\ rewritten \in SUBSET Calls
  /\ forced \in SUBSET Calls
  /\ verdict \in [Calls -> Verdicts]
  /\ outcome \in [Calls -> Outcomes]
  /\ result \in [Calls -> Results]
  /\ tails \in [Calls -> Nat]
  /\ detached \in SUBSET Calls
  /\ policy \in [Tools -> Verdicts \ {"none"}]
  /\ approved \in [Calls -> Args]
  /\ consented \in SUBSET Calls

(* Every variable stays in its range: the statuses, phases and suspension  *)
(* points of scheduler.ts, state-manager.ts and confirmation.ts.           *)
TypeOK == StoreTypeOK /\ SchedulerTypeOK

Init ==
  /\ StoreInit
  /\ promise = [j \in Jobs |-> "unscheduled"]
  /\ answer = [j \in Jobs |-> {}]
  /\ requestQueue = <<>>
  /\ aborted = {}
  /\ isCancelling = FALSE
  /\ phase = "idle"
  /\ current = NoJob
  /\ wave = <<>>
  /\ step = [c \in Calls |-> "idle"]
  /\ args = [c \in Calls |-> "requested"]
  /\ tool = ToolOf
  /\ waits = Waits
  /\ rewritten = {}
  /\ forced = {}
  /\ verdict = [c \in Calls |-> "none"]
  /\ outcome = [c \in Calls |-> "none"]
  /\ result = [c \in Calls |-> "none"]
  /\ tails = [c \in Calls |-> 0]
  /\ detached = {}
  /\ policy \in [Tools -> Verdicts \ {"none"}]
  /\ approved = [c \in Calls |-> "none"]
  /\ consented = {}

-----------------------------------------------------------------------------
(* The client: schedule(), the abort signals and cancelAll().              *)

(* The batch in processing order: update_topic calls first (in an order    *)
(* the inconsistent comparator leaves to the engine), the others as sent.  *)
BatchOrders(j) ==
  LET req == CallsOf[j] IN
  {s \in [DOMAIN req -> BatchSet(j)] :
     /\ Range(s) = BatchSet(j)
     /\ IsInjective(s)
     /\ \A p, q \in DOMAIN req : s[p] \notin Topics /\ s[q] \in Topics => q < p
     /\ \A p, q, m, n \in DOMAIN req :
          /\ {s[p], s[q]} \cap Topics = {}
          /\ s[p] = req[m] /\ s[q] = req[n] /\ m < n
          => p < q}

(* _startBatch up to its first await, from promises p.                     *)
StartBatch(j, p) ==
  /\ phase' = "loop"
  /\ current' = j
  /\ isCancelling' = FALSE
  /\ ClearBatch
  /\ promise' = [p EXCEPT ![j] = "running"]
  /\ \E s \in BatchOrders(j) : queue' = queue \o s
  /\ status' = [c \in Calls |->
                  IF c \notin BatchSet(j) THEN status[c]
                  ELSE IF c \in Malformed THEN "error" ELSE "validating"]

(* schedule() on a scheduler that is free.                                 *)
ScheduleNow(j) ==
  /\ promise[j] = "unscheduled"
  /\ phase = "idle"
  /\ active = {}
  /\ StartBatch(j, promise)
  /\ UNCHANGED <<active, reports, answer, requestQueue, aborted, wave, step,
                 requestVars, checkVars, runVars>>

(* Mutant: a waiting request goes to the front of the queue.               *)
EnqueuedFirst(j) == <<j>> \o requestQueue

Enqueued(j) == Append(requestQueue, j)

(* schedule() on a busy scheduler: _enqueueRequest.                        *)
ScheduleLater(j) ==
  /\ promise[j] = "unscheduled"
  /\ phase # "idle" \/ active # {}
  /\ \/ /\ SignalOf[j] \in aborted
        /\ promise' = [promise EXCEPT ![j] = "rejected"]
        /\ UNCHANGED requestQueue
     \/ /\ SignalOf[j] \notin aborted
        /\ promise' = [promise EXCEPT ![j] = "queued"]
        /\ requestQueue' = Enqueued(j)
  /\ UNCHANGED <<storeVars, answer, aborted, loopVars, requestVars, checkVars,
                 runVars, step>>

(* An abort signal fires: the listeners of the queued requests run at once. *)
Abort(s) ==
  /\ s \notin aborted
  /\ aborted' = aborted \cup {s}
  /\ requestQueue' \in Surviving(requestQueue, {j \in Jobs : SignalOf[j] # s})
  /\ promise' = [j \in Jobs |->
                   IF j \in Range(requestQueue) /\ SignalOf[j] = s
                   THEN "rejected" ELSE promise[j]]
  /\ UNCHANGED <<storeVars, answer, loopVars, requestVars, checkVars, runVars,
                 step>>

(* cancelAll().                                                            *)
CancelAll ==
  /\ ~isCancelling
  /\ isCancelling' = TRUE
  /\ requestQueue' = <<>>
  /\ promise' = [j \in Jobs |-> IF j \in Range(requestQueue)
                                THEN "rejected" ELSE promise[j]]
  /\ CancelAllQueued(Updated(status, active \ Finished(status), "cancelled"))
  /\ UNCHANGED <<active, answer, aborted, phase, current, wave, requestVars,
                 checkVars, runVars, step>>

-----------------------------------------------------------------------------
(* The processing loop: _processQueue, _processNextItem, _startBatch.      *)

Stopped == current # NoJob /\ SignalOf[current] \in aborted

Stopping == Stopped \/ isCancelling

Coroutines == {c \in active : step[c] # "idle"}

(* The loop ends because nothing is left.                                  *)
FinishLoop ==
  /\ phase = "loop"
  /\ queue = <<>> /\ active = {}
  /\ phase' = "returning"
  /\ UNCHANGED <<storeVars, clientVars, isCancelling, current, wave,
                 requestVars, checkVars, runVars, step>>

(* The loop ends because the batch was aborted or cancelled.               *)
StopLoop ==
  /\ phase = "loop"
  /\ queue # <<>> \/ active # {}
  /\ Stopping
  /\ CancelAllQueued(status)
  /\ phase' = "returning"
  /\ UNCHANGED <<active, clientVars, isCancelling, current, wave, requestVars,
                 checkVars, runVars, step>>

(* The next call already has an error: it is answered without more ado.    *)
AnswerErrored ==
  /\ phase = "loop" /\ ~Stopping
  /\ active = {} /\ queue # <<>>
  /\ status[Head(queue)] = "error"
  /\ queue' = Tail(queue)
  /\ completed' = completed \cup {Head(queue)}
  /\ reports' = Reported({Head(queue)})
  /\ UNCHANGED <<status, active, clientVars, loopVars, requestVars, checkVars,
                 runVars, step>>

(* How many queued calls start together: the first one, and all            *)
(* parallelizable calls that follow it when it is parallelizable itself.   *)
IsWave(n) ==
  /\ n \in 1..Len(queue)
  /\ n > 1 => \A i \in 1..n : queue[i] \notin waits
  /\ n < Len(queue) /\ queue[1] \notin waits => queue[n + 1] \in waits

(* The next wave becomes active, and its calls start being checked.        *)
StartWave ==
  /\ phase = "loop" /\ ~Stopping
  /\ active = {} /\ queue # <<>>
  /\ status[Head(queue)] # "error"
  /\ \E n \in DOMAIN queue :
       /\ IsWave(n)
       /\ Dequeue(n)
       /\ wave' = SubSeq(queue, 1, n)
       /\ step' = [c \in Calls |->
                     IF status[c] = "validating" /\ \E i \in 1..n : queue[i] = c
                     THEN "hook" ELSE step[c]]
  /\ phase' = "validating"
  /\ UNCHANGED <<status, completed, reports, clientVars, isCancelling, current,
                 requestVars, checkVars, runVars>>

(* The loop comes back to calls that are still active.                     *)
RevisitActive ==
  /\ phase = "loop" /\ ~Stopping
  /\ active # {}
  /\ phase' = "validating"
  /\ UNCHANGED <<storeVars, clientVars, isCancelling, current, wave,
                 requestVars, checkVars, runVars, step>>

ScheduledCalls == {c \in active : status[c] = "scheduled"}

(* Every active call is scheduled or terminal, and one is to be executed.  *)
ReadyToExecute ==
  /\ ScheduledCalls # {}
  /\ \A c \in active : status[c] \in Terminal \cup {"scheduled"}

(* All checks of the wave are done: its scheduled calls are executed at    *)
(* once, or cancelled when the signal has fired (the first part of         *)
(* _execute).                                                              *)
BeginExecution ==
  /\ phase = "validating" /\ Coroutines = {}
  /\ ReadyToExecute
  /\ phase' = "executing"
  /\ status' = Updated(status, ScheduledCalls,
                       IF Stopped THEN "cancelled" ELSE "executing")
  /\ step' = [c \in Calls |-> IF c \in ScheduledCalls /\ ~Stopped
                              THEN "running" ELSE step[c]]
  /\ UNCHANGED <<queue, active, completed, reports, clientVars, isCancelling,
                 current, wave, requestVars, checkVars, runVars>>

(* The end of an iteration: terminal calls are finalized.  The loop goes   *)
(* on unless nothing moved and nothing is awaited from outside.            *)
FinalizeWave ==
  /\ \/ phase = "validating" /\ ~ReadyToExecute
     \/ phase = "executing"
  /\ Coroutines = {}
  /\ FinalizeCalls(status)
  /\ phase' = IF /\ active # {} /\ Finished(status) = {}
                 /\ \A c \in active :
                      status[c] \notin {"awaiting_approval", "executing"}
              THEN "returning" ELSE "loop"
  /\ UNCHANGED <<status, queue, clientVars, isCancelling, current, wave,
                 requestVars, checkVars, runVars, step>>

(* The scheduler is free; a request that finds calls still active goes to  *)
(* the back of the queue again.                                            *)
Rest(p) ==
  /\ phase' = "idle"
  /\ current' = NoJob
  /\ ClearBatch
  /\ promise' = p
  /\ requestQueue' = IF requestQueue = <<>> THEN <<>>
                     ELSE Append(Tail(requestQueue), Head(requestQueue))
  /\ UNCHANGED <<status, queue, isCancelling>>

(* Mutant: the waiting requests are not looked at.                         *)
ProcessNoRequest(p) == Rest(p)

(* _processNextInRequestQueue, with promises p: the oldest waiting request *)
(* is handed to schedule() again.                                          *)
ProcessNextInRequestQueue(p) ==
  \/ /\ requestQueue # <<>> /\ active = {}
     /\ StartBatch(Head(requestQueue), p)
     /\ requestQueue' = Tail(requestQueue)
  \/ /\ requestQueue = <<>> \/ active # {}
     /\ Rest(p)

(* The batch is over: the caller gets the completed calls.                 *)
ReturnBatch ==
  /\ phase = "returning"
  /\ answer' = [answer EXCEPT ![current] = completed]
  /\ ProcessNextInRequestQueue([promise EXCEPT ![current] = "resolved"])
  /\ UNCHANGED <<active, reports, aborted, wave, step, requestVars, checkVars,
                 runVars>>

-----------------------------------------------------------------------------
(* The coroutine of one call: _processToolCall and resolveConfirmation.    *)

(* Coroutine steps leave the loop where it is suspended.                   *)
CoroutineFrame == UNCHANGED <<clientVars, loopVars>>

(* An exception: while a call is checked it ends cancelled when the signal *)
(* has fired, in error (or cancelled, for an AbortError) otherwise; an     *)
(* exception in a sandbox expansion leaves the error of the run.           *)
Throw(c) ==
  /\ step' = [step EXCEPT ![c] = "idle"]
  /\ \E s \in IF phase = "executing" THEN {"error"}
              ELSE IF Stopped THEN {"cancelled"} ELSE {"error", "cancelled"} :
       status' = Updated(status, {c}, s)
  /\ UNCHANGED <<queue, active, completed, reports>>

(* A hook, the policy engine, a tool or an editor throws, or the mode of    *)
(* the session cannot be changed as a permission asks.                     *)
ExternalFailure(c) ==
  /\ \/ step[c] \in {"hook", "policy", "details", "editing", "applying"}
     \/ step[c] = "decided" /\ outcome[c] # "cancel"
  /\ Throw(c)
  /\ CoroutineFrame
  /\ UNCHANGED <<requestVars, checkVars, runVars>>

(* evaluateBeforeToolHook: the hooks let the call pass; they may ask for a *)
(* confirmation and change its arguments: those of the request, and those  *)
(* of the invocation unless the store has replaced the call meanwhile ...  *)
HookContinues(c) ==
  /\ step[c] = "hook"
  /\ step' = [step EXCEPT ![c] = "policy"]
  /\ \E changed, asked \in BOOLEAN :
       /\ changed \/ asked => c \in Hooked
       /\ args' = IF changed /\ status[c] = "validating"
                  THEN [args EXCEPT ![c] = "hooked"] ELSE args
       /\ rewritten' = IF changed THEN rewritten \cup {c} ELSE rewritten
       /\ forced' = IF asked THEN forced \cup {c} ELSE forced
  /\ CoroutineFrame
  /\ UNCHANGED <<storeVars, tool, waits, tails, verdict, outcome, policy,
                 approved, consented, runVars>>

(* ... or stop it, block it, or change its arguments to invalid ones.      *)
HookStops(c) ==
  /\ step[c] = "hook"
  /\ c \in Hooked
  /\ step' = [step EXCEPT ![c] = "idle"]
  /\ status' = Updated(status, {c}, "error")
  /\ CoroutineFrame
  /\ UNCHANGED <<queue, active, completed, reports, requestVars, checkVars,
                 runVars>>

(* checkPolicy: the decision of the policy engine, lifted for calls the    *)
(* client made itself.                                                     *)
Decision(c) ==
  IF policy[tool[c]] = "ask_user" /\ c \in ClientInitiated
  THEN "allow" ELSE policy[tool[c]]

(* Mutant: calls that the client made itself are not sent to the user.     *)
MustAskTheModelOnly(c) ==
  c \notin ClientInitiated /\ (Decision(c) = "ask_user" \/ c \in forced)

(* The user must be asked: by policy, or because a hook said so.           *)
MustAsk(c) == Decision(c) = "ask_user" \/ c \in forced

(* Mutant: the check sees the arguments the model sent.                    *)
ShownArgsStale(c) == "requested"

(* The arguments that the user is shown: those of the invocation, after    *)
(* hooks, edits and expansions.                                            *)
ShownArgs(c) == args[c]

(* The arguments that the policy engine judges: those of the request.      *)
JudgedArgs(c) == IF c \in rewritten THEN "hooked" ELSE ShownArgs(c)

PolicyAllows(c) ==
  /\ step[c] = "policy"
  /\ Decision(c) = "allow" /\ ~MustAsk(c)
  /\ verdict' = [verdict EXCEPT ![c] = policy[tool[c]]]
  /\ approved' = [approved EXCEPT ![c] = JudgedArgs(c)]
  /\ outcome' = [outcome EXCEPT ![c] = "proceed"]
  /\ status' = Updated(status, {c}, "scheduled")
  /\ step' = [step EXCEPT ![c] = "idle"]
  /\ CoroutineFrame
  /\ UNCHANGED <<queue, active, completed, reports, requestVars, forced, policy,
                 consented, runVars>>

PolicyDenies(c) ==
  /\ step[c] = "policy"
  /\ Decision(c) = "deny" /\ ~MustAsk(c)
  /\ verdict' = [verdict EXCEPT ![c] = policy[tool[c]]]
  /\ status' = Updated(status, {c}, "error")
  /\ step' = [step EXCEPT ![c] = "idle"]
  /\ CoroutineFrame
  /\ UNCHANGED <<queue, active, completed, reports, requestVars, forced, outcome,
                 policy, approved, consented, runVars>>

(* The call goes to the confirmation loop, which throws at once when there *)
(* is nobody to ask or the signal has fired.                               *)
PolicyAsks(c) ==
  /\ step[c] = "policy"
  /\ MustAsk(c)
  /\ verdict' = [verdict EXCEPT ![c] = policy[tool[c]]]
  /\ IF Stopped \/ (Decision(c) = "ask_user" /\ ~Interactive)
     THEN Throw(c)
     ELSE step' = [step EXCEPT ![c] = "details"] /\ UNCHANGED storeVars
  /\ CoroutineFrame
  /\ UNCHANGED <<requestVars, forced, outcome, policy, approved, consented,
                 runVars>>

(* shouldConfirmExecute may find nothing to confirm: its own policy check  *)
(* allows the call, unless a hook's decision stands for that check.  Some  *)
(* tools do not look at it: they override the method, or their details are *)
(* empty for a trusted server, a known skill, an edit that cannot be made. *)
MayConfirmNothing(c) ==
  phase = "executing" \/ c \notin forced \/ tool[c] \in Heedless

NothingToConfirm(c) ==
  /\ step[c] = "details"
  /\ MayConfirmNothing(c)
  /\ step' = [step EXCEPT ![c] = "decided"]
  /\ outcome' = [outcome EXCEPT ![c] = "proceed"]
  /\ approved' = [approved EXCEPT ![c] = ShownArgs(c)]
  /\ CoroutineFrame
  /\ UNCHANGED <<storeVars, requestVars, forced, verdict, policy, consented,
                 runVars>>

(* The call is shown to the user with the details of its arguments.        *)
AskUser(c) ==
  /\ step[c] = "details"
  /\ step' = [step EXCEPT ![c] = "asking"]
  /\ status' = Updated(status, {c}, "awaiting_approval")
  /\ CoroutineFrame
  /\ UNCHANGED <<queue, active, completed, reports, requestVars, checkVars,
                 runVars>>

(* The answer of the user arrives on the bus or from the IDE; a client may *)
(* still send it when the call is no longer shown as awaiting approval.    *)
UserProceeds(c, o) ==
  /\ step[c] = "asking" /\ ~Stopped
  /\ outcome' = [outcome EXCEPT ![c] = o]
  /\ approved' = [approved EXCEPT ![c] = ShownArgs(c)]
  /\ consented' = consented \cup ({c} \cap forced)
  /\ step' = [step EXCEPT ![c] = "decided"]
  /\ CoroutineFrame
  /\ UNCHANGED <<storeVars, requestVars, forced, verdict, policy, runVars>>

UserCancels(c) ==
  /\ step[c] = "asking" /\ ~Stopped
  /\ outcome' = [outcome EXCEPT ![c] = "cancel"]
  /\ consented' = consented \ {c}
  /\ step' = [step EXCEPT ![c] = "decided"]
  /\ CoroutineFrame
  /\ UNCHANGED <<storeVars, requestVars, forced, verdict, policy, approved,
                 runVars>>

(* ModifyWithEditor: the proposal is opened in an editor ...               *)
UserOpensEditor(c) ==
  /\ step[c] = "asking" /\ ~Stopped
  /\ c \in Editable /\ phase = "validating"
  /\ step' = [step EXCEPT ![c] = "editing"]
  /\ CoroutineFrame
  /\ UNCHANGED <<storeVars, requestVars, checkVars, runVars>>

(* ... or accepted with other contents, as an inline edit.                 *)
UserAcceptsEdited(c) ==
  /\ step[c] = "asking" /\ ~Stopped
  /\ c \in Editable /\ phase = "validating"
  /\ step' = [step EXCEPT ![c] = "applying"]
  /\ approved' = [approved EXCEPT ![c] = "edited"]
  /\ consented' = consented \cup ({c} \cap forced)
  /\ CoroutineFrame
  /\ UNCHANGED <<storeVars, requestVars, forced, verdict, outcome, policy,
                 runVars>>

(* firstActiveCall: the oldest entry of the map of active calls.           *)
IsFirstActive(f) ==
  \E i \in DOMAIN wave :
    /\ wave[i] = f /\ f \in active
    /\ \A k \in 1..(i - 1) : wave[k] \notin active

(* Mutant: the edit of the user is dropped.                                *)
ModifiedArgsDropped(c, f) == args[c]

(* The arguments a modification of call c stores: they are made from those *)
(* of the first active call, and only when that call can be edited.        *)
ModifiedArgs(c, f) ==
  IF f \notin Editable THEN args[c]
  ELSE IF f = c THEN "edited" ELSE "foreign"

(* The modification, at step s of call c, continues at step t with outcome *)
(* o.  It reads the confirmation details of the first active call, if that *)
(* is one of read, and throws when the call has none.                      *)
Modify(c, read, s, t, o) ==
  /\ step[c] = s
  /\ \E f \in active :
       /\ IsFirstActive(f)
       /\ IF f \in read /\ status[f] # "awaiting_approval"
          THEN Throw(c) /\ UNCHANGED <<args, outcome>>
          ELSE /\ args' = [args EXCEPT ![c] = ModifiedArgs(c, f)]
               /\ step' = [step EXCEPT ![c] = t]
               /\ outcome' = [outcome EXCEPT ![c] = o]
               /\ UNCHANGED storeVars
  /\ CoroutineFrame
  /\ UNCHANGED <<rewritten, tool, waits, tails, forced, verdict, policy, approved,
                 consented, runVars>>

(* handleExternalModification, then another turn of the confirmation loop. *)
EditorCloses(c) ==
  /\ ~Stopped
  /\ Modify(c, Editable, "editing", "details", outcome[c])

(* No editor is installed: another turn of the loop with the same call.    *)
EditorUnavailable(c) ==
  /\ step[c] = "editing"
  /\ ~Stopped
  /\ step' = [step EXCEPT ![c] = "details"]
  /\ CoroutineFrame
  /\ UNCHANGED <<storeVars, requestVars, checkVars, runVars>>

(* handleInlineModification, after which the call proceeds.                *)
EditApplied(c) == Modify(c, Calls, "applying", "decided", "proceed")

(* The signal fires while the call waits for an answer or is being edited. *)
WaitAborted(c) ==
  /\ step[c] \in {"asking", "editing"} /\ Stopped
  /\ Throw(c)
  /\ CoroutineFrame
  /\ UNCHANGED <<requestVars, checkVars, runVars>>

(* The rest of _processToolCall: the user's refusal cancels the call and   *)
(* all queued ones; otherwise the call is scheduled, and "always" adds an  *)
(* allowing rule, which may cover no other call than this one.             *)
DecisionApplied(c) ==
  /\ step[c] = "decided" /\ phase = "validating"
  /\ step' = [step EXCEPT ![c] = "idle"]
  /\ \/ /\ outcome[c] = "cancel"
        /\ CancelAllQueued(Updated(status, {c}, "cancelled"))
        /\ UNCHANGED policy
     \/ /\ outcome[c] # "cancel"
        /\ status' = Updated(status, {c}, "scheduled")
        /\ \/ UNCHANGED policy
           \/ outcome[c] = "always" /\ policy' = [policy EXCEPT ![tool[c]] = "allow"]
        /\ UNCHANGED <<queue, completed, reports>>
  /\ CoroutineFrame
  /\ UNCHANGED <<active, requestVars, forced, verdict, outcome, approved,
                 consented, runVars>>

-----------------------------------------------------------------------------
(* Execution of one call: _execute and ToolExecutor.execute.               *)

(* The executor has the tool's result; one that comes after the signal is  *)
(* a cancellation.  A call asks for an expansion at most once (a bound).   *)
ToolReturns(c) ==
  /\ step[c] = "running"
  /\ step' = [step EXCEPT ![c] = "settling"]
  /\ \E r \in IF Stopped THEN {"cancelled"}
              ELSE {"success", "error", "cancelled"} \cup
                   {x \in {"expansion"} : c \in Sandboxed /\ args[c] # "expanded"} :
       result' = [result EXCEPT ![c] = r]
  /\ CoroutineFrame
  /\ UNCHANGED <<storeVars, requestVars, checkVars, detached>>

(* The user moves the process to the background: the tool succeeds while   *)
(* the process goes on.                                                    *)
Detach(c) ==
  /\ step[c] = "running"
  /\ c \in Detachable /\ ~Stopped
  /\ step' = [step EXCEPT ![c] = "settling"]
  /\ result' = [result EXCEPT ![c] = "success"]
  /\ detached' = detached \cup {c}
  /\ CoroutineFrame
  /\ UNCHANGED <<storeVars, requestVars, checkVars>>

(* outputUpdateHandler: live output makes an active call executing.  The   *)
(* handler does not ask whether the call is finished; only a call in error *)
(* has lost its invocation, and the update throws.  Output is an event of  *)
(* its own, so it comes only while the loop waits for some coroutine.      *)
LiveOutput(c) ==
  /\ Coroutines # {}
  /\ step[c] = "running" \/ c \in detached
  /\ status[c] \notin {"error", "executing"}
  /\ status' = Updated(status, {c}, "executing")
  /\ CoroutineFrame
  /\ UNCHANGED <<queue, active, completed, reports, requestVars, checkVars,
                 runVars, step>>

DetachedExits(c) ==
  /\ c \in detached
  /\ detached' = detached \ {c}
  /\ CoroutineFrame
  /\ UNCHANGED <<storeVars, requestVars, checkVars, result, step>>

WantsTail(c) ==
  /\ c \in Tailing /\ tails[c] < MaxTails
  /\ result[c] \in {"success", "error"}

(* The run ends the call.                                                  *)
RunEnds(c) ==
  /\ step[c] = "settling"
  /\ result[c] # "expansion"
  /\ status' = Updated(status, {c}, result[c])
  /\ step' = [step EXCEPT ![c] = "idle"]
  /\ CoroutineFrame
  /\ UNCHANGED <<queue, active, completed, reports, requestVars, checkVars,
                 runVars>>

(* The run asks for a tail call: a new request with the same call id goes  *)
(* to the front of the queue, to be checked like any other.                *)
TailCall(c) ==
  /\ step[c] = "settling"
  /\ WantsTail(c)
  /\ ReplaceActiveCallWithTailCall(c)
  /\ tails' = [tails EXCEPT ![c] = tails[c] + 1]
  /\ \E t \in Tools : tool' = [tool EXCEPT ![c] = t]
  /\ \E w \in {{}, {c}} : waits' = (waits \ {c}) \cup w
  /\ \E s \in {"validating", "error"} : status' = [status EXCEPT ![c] = s]
  /\ args' = [args EXCEPT ![c] = "requested"]
  /\ approved' = [approved EXCEPT ![c] = "none"]
  /\ verdict' = [verdict EXCEPT ![c] = "none"]
  /\ outcome' = [outcome EXCEPT ![c] = "none"]
  /\ forced' = forced \ {c}
  /\ consented' = consented \ {c}
  /\ rewritten' = rewritten \ {c}
  /\ step' = [step EXCEPT ![c] = "idle"]
  /\ CoroutineFrame
  /\ UNCHANGED <<completed, reports, policy, runVars>>

(* The sandbox refused the run: the call gets the permissions it lacked    *)
(* and must be confirmed before it runs again.                             *)
AskExpansion(c) ==
  /\ step[c] = "settling"
  /\ result[c] = "expansion"
  /\ args' = [args EXCEPT ![c] = "expanded"]
  /\ IF Stopped
     THEN Throw(c)
     ELSE /\ status' = Updated(status, {c}, "awaiting_approval")
          /\ step' = [step EXCEPT ![c] = "details"]
          /\ UNCHANGED <<queue, active, completed, reports>>
  /\ CoroutineFrame
  /\ UNCHANGED <<rewritten, tool, waits, tails, checkVars, runVars>>

(* The confirmation of the expansion: refused, the call ends in error;     *)
(* granted, _execute runs it again.                                        *)
ExpansionDecided(c) ==
  /\ step[c] = "decided" /\ phase = "executing"
  /\ LET again == outcome[c] # "cancel" /\ ~Stopped
     IN  /\ status' = Updated(status, {c},
                              IF outcome[c] = "cancel" THEN "error"
                              ELSE IF Stopped THEN "cancelled" ELSE "executing")
         /\ step' = [step EXCEPT ![c] = IF again THEN "running" ELSE "idle"]
  /\ CoroutineFrame
  /\ UNCHANGED <<queue, active, completed, reports, requestVars, checkVars,
                 runVars>>

-----------------------------------------------------------------------------
(* Every request has been answered, and the scheduler rests.               *)
AllSettled ==
  /\ \A j \in Jobs : promise[j] \in {"resolved", "rejected"}
  /\ phase = "idle"
  /\ UNCHANGED vars

Client ==
  \/ \E j \in Jobs : ScheduleNow(j) \/ ScheduleLater(j)
  \/ \E s \in Signals : Abort(s)
  \/ CancelAll

Loop ==
  \/ FinishLoop \/ StopLoop \/ AnswerErrored \/ StartWave \/ RevisitActive
  \/ BeginExecution \/ FinalizeWave \/ ReturnBatch

(* The steps that the scheduler's own code, the hooks, the policy engine,  *)
(* the editors and the tools take for call c.                              *)
Check(c) ==
  \/ ExternalFailure(c) \/ HookContinues(c) \/ HookStops(c)
  \/ PolicyAllows(c) \/ PolicyDenies(c) \/ PolicyAsks(c)
  \/ NothingToConfirm(c) \/ AskUser(c)
  \/ EditorCloses(c) \/ EditorUnavailable(c) \/ EditApplied(c)
  \/ WaitAborted(c) \/ DecisionApplied(c)

Run(c) ==
  ToolReturns(c) \/ RunEnds(c) \/ TailCall(c) \/ AskExpansion(c) \/ ExpansionDecided(c)

User(c) ==
  \/ \E o \in {"proceed", "always"} : UserProceeds(c, o)
  \/ UserCancels(c) \/ UserOpensEditor(c) \/ UserAcceptsEdited(c)

Output(c) == Detach(c) \/ LiveOutput(c) \/ DetachedExits(c)

Next ==
  \/ Client
  \/ Loop
  \/ \E c \in Calls : Check(c) \/ Run(c) \/ User(c) \/ Output(c)
  \/ AllSettled

Spec == Init /\ [][Next]_vars

(* A user answers a call that is shown as awaiting approval.               *)
UserAnswers(c) ==
  /\ status[c] = "awaiting_approval"
  /\ UserProceeds(c, "proceed") \/ UserCancels(c)

(* Whoever cancels a batch also fires its signal, as the terminal client   *)
(* does: useDeepSeekStream aborts before it calls cancelAll.               *)
CancelledIsAborted == isCancelling /\ \E s \in Signals :
                        current # NoJob /\ s = SignalOf[current] /\ Abort(s)

(* The event loop runs every callback that is due, hooks, tools and        *)
(* editors come back, and a user who is asked answers.                     *)
Fairness ==
  /\ WF_vars(Loop)
  /\ \A c \in Calls : WF_vars(Check(c)) /\ WF_vars(Run(c)) /\ WF_vars(UserAnswers(c))

FairSpec == Spec /\ Fairness

CancellingSpec == FairSpec /\ WF_vars(CancelledIsAborted)
=============================================================================
