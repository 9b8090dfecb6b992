---------------------------- MODULE TaskExecutor ----------------------------
(* The executor of the A2A server (agent/executor.ts): requests for one    *)
(* task, of which at most one drives the conversation; cancellation; what  *)
(* is kept in the task store, across restarts of the server.               *)
EXTENDS Task

CONSTANTS
  MaxFaults      \* bound on what goes wrong: failures, cancellations, ends of
                 \* connections, restarts of the server

VARIABLES
  stored,      \* the task's state in the store, "none" before the first save
  cached,      \* tasks.get(taskId): a Task object or Nobody
  executing,   \* executingTasks.has(taskId)
  cancelling,  \* the Task whose cancellation is being saved, or Nobody
  pc,          \* where the execution of each request is suspended
  on,          \* the Task object it has
  aborted,     \* its signal: the client has closed the connection
  loaded,      \* Task objects that have been made
  faults       \* how much has gone wrong

executorVars == <<stored, cached, executing, cancelling, pc, on, aborted,
                  loaded, faults>>
vars == <<taskVars, executorVars>>

Final == {"canceled", "failed"}

Init ==
  /\ TaskInit
  /\ stored = "none" /\ cached = Nobody /\ executing = FALSE
  /\ cancelling = Nobody
  /\ pc = [e \in Requests |-> "idle"]
  /\ on = [e \in Requests |-> Nobody]
  /\ aborted = [e \in Requests |-> FALSE]
  /\ loaded = {} /\ faults = 0

(* A batch was rejected in the line of its scheduler.  Nobody handles that *)
(* (task.ts:764), and a process with an unhandled rejection exits.         *)
Exits == \E c \in Calls : status[c] = "rejected"

Fault == faults < MaxFaults /\ faults' = faults + 1

-----------------------------------------------------------------------------
(* Loading the task.                                                       *)

Known == stored # "none" \/ cached # Nobody

(* Calls whose signal is that of request e and that still heed it.         *)
Unfinished(e) ==
  {c \in Calls : /\ by[c] = e
                 /\ work[c] # "none" \/ status[c] \in Live \cup {"queued"}}

(* A request comes in.  Only one request creates the task: the id is known *)
(* to clients when it exists.                                              *)
Arrive(e) ==
  /\ pc[e] = "idle"
  /\ Known \/ \A x \in Requests : pc[x] # "loading"
  /\ pc' = [pc EXCEPT ![e] = IF cached # Nobody THEN "loaded" ELSE "loading"]
  /\ on' = [on EXCEPT ![e] = cached]
  /\ UNCHANGED <<taskVars, stored, cached, executing, cancelling, aborted,
                 loaded, faults>>

(* createTask, and reconstruct, which takes the state from the store.      *)
Load(e) ==
  /\ pc[e] = "loading"
  /\ \E o \in Tasks \ loaded :
       /\ loaded' = loaded \cup {o}
       /\ on' = [on EXCEPT ![e] = o]
       /\ cached' = o
       /\ taskState' = [taskState EXCEPT ![o] =
                          IF stored = "none" THEN "submitted" ELSE stored]
       /\ listens' = [listens EXCEPT ![o] = TRUE]
  /\ pc' = [pc EXCEPT ![e] = IF stored = "none" THEN "creating" ELSE "loaded"]
  /\ UNCHANGED <<promise, mapVars, wait, schedulerVars, told, stored,
                 executing, cancelling, aborted, faults>>

LoadFails(e) ==
  /\ pc[e] = "loading" /\ Fault
  /\ pc' = [pc EXCEPT ![e] = "done"]
  /\ UNCHANGED <<taskVars, stored, cached, executing, cancelling, on, aborted,
                 loaded>>

(* The new task is saved; other requests may come meanwhile.               *)
Created(e) ==
  /\ pc[e] = "creating"
  /\ stored' = "submitted"
  /\ pc' = [pc EXCEPT ![e] = "loaded"]
  /\ UNCHANGED <<taskVars, cached, executing, cancelling, on, aborted, loaded,
                 faults>>

(* A request for a task that has ended is ignored.                         *)
Ignore(e) ==
  /\ pc[e] = "loaded" /\ taskState[on[e]] \in Final
  /\ pc' = [pc EXCEPT ![e] = "done"]
  /\ on' = [on EXCEPT ![e] = Nobody]
  /\ UNCHANGED <<taskVars, stored, cached, executing, cancelling, aborted,
                 loaded, faults>>

-----------------------------------------------------------------------------
(* Accepting the message of the user: one execution drives the task, the   *)
(* others only hand in their message and leave.                            *)

Admitted(e) == pc[e] = "loaded" /\ taskState[on[e]] \notin Final

AcceptFrame ==
  UNCHANGED <<stored, cached, cancelling, aborted, loaded, faults>>

(* A text: the model is asked.                                             *)
AcceptText(e) ==
  /\ Admitted(e)
  /\ taskState' = [taskState EXCEPT ![on[e]] = "working"]
  /\ pc' = [pc EXCEPT ![e] = IF executing THEN "aside" ELSE "streaming"]
  /\ executing' = TRUE
  /\ UNCHANGED <<promise, listens, mapVars, wait, schedulerVars, told, on>>
  /\ AcceptFrame

(* A confirmation: the scheduler goes on, the model is not asked.          *)
AcceptConfirmation(e) ==
  /\ Admitted(e)
  /\ \E c \in Calls :
       \/ \E a \in {"agreed", "refused"} : Confirm(on[e], c, a)
       \/ /\ home[c] # Nobody /\ ~Knows(on[e], c)
          /\ c \in confirmed \/ status[c] \in Terminal
          /\ UNCHANGED taskVars
  /\ pc' = [pc EXCEPT ![e] = IF executing THEN "done" ELSE "streamed"]
  /\ on' = [on EXCEPT ![e] = IF executing THEN Nobody ELSE @]
  /\ executing' = TRUE
  /\ AcceptFrame

(* The answer to a text that another execution could not wait for ends,    *)
(* with the calls of the model unheeded.                                   *)
AsideEnds(e) ==
  /\ pc[e] = "aside"
  /\ pc' = [pc EXCEPT ![e] = "done"]
  /\ on' = [on EXCEPT ![e] = Nobody]
  /\ UNCHANGED <<taskVars, stored, cached, executing, cancelling, aborted,
                 loaded, faults>>

-----------------------------------------------------------------------------
(* The primary execution.                                                  *)

Asked == {c \in Calls : status[c] # "none"}

(* The model has answered, perhaps with tool calls, which are scheduled.   *)
StreamEnds(e) ==
  /\ pc[e] \in {"streaming", "errored"} /\ ~aborted[e]
  /\ \E n \in 0 .. MaxCalls - Cardinality(Asked) :
       LET new == {c \in Calls \ Asked : c <= Cardinality(Asked) + n}
       IN  IF n = 0 THEN UNCHANGED taskVars ELSE Schedule(on[e], e, new)
  /\ pc' = [pc EXCEPT ![e] = "streamed"]
  /\ UNCHANGED <<stored, cached, executing, cancelling, on, aborted, loaded,
                 faults>>

(* An error event of the stream.                                           *)
StreamErrs(e) ==
  /\ pc[e] = "streaming" /\ ~aborted[e] /\ Fault
  /\ CancelPending(on[e], e)
  /\ taskState' = [taskState EXCEPT ![on[e]] = AfterCancel(on[e])]
  /\ pc' = [pc EXCEPT ![e] = "errored"]
  /\ UNCHANGED <<stored, cached, executing, cancelling, on, aborted, loaded>>

BeginWait(e) ==
  /\ pc[e] = "streamed"
  /\ WaitFor(on[e], e)
  /\ pc' = [pc EXCEPT ![e] = "waiting"]
  /\ UNCHANGED <<taskState, promise, listens, mapVars, schedulerVars, told>>
  /\ UNCHANGED <<stored, cached, executing, cancelling, on, aborted, loaded,
                 faults>>

Resumed(e) == pc[e] = "waiting" /\ wait[e][2] = "resolved" /\ ~aborted[e]

(* The results go to the model.                                            *)
SendResults(e) ==
  /\ Resumed(e)
  /\ \E c \in Completed(on[e]) : completed[c] # "cancelled"
  /\ TakeCompleted(on[e])
  /\ taskState' = [taskState EXCEPT ![on[e]] = "working"]
  /\ wait' = [wait EXCEPT ![e] = <<Nobody, "none">>]
  /\ pc' = [pc EXCEPT ![e] = "streaming"]
  /\ UNCHANGED <<promise, listens, pending, confirmed, details, correlation,
                 schedulerVars>>
  /\ UNCHANGED <<stored, cached, executing, cancelling, on, aborted, loaded,
                 faults>>

(* What is saved when an execution ends: the state at that moment, unless  *)
(* the server exits before the save is done.                               *)
Leave(e) ==
  /\ executing' = FALSE
  /\ stored' \in {taskState'[on[e]]} \cup (IF Exits' THEN {stored} ELSE {})
  /\ pc' = [pc EXCEPT ![e] = "saving"]
  /\ UNCHANGED <<cached, cancelling, on, aborted, loaded>>

(* Nothing is left to be done, or all calls were cancelled.                *)
Finish(e) ==
  /\ Resumed(e)
  /\ \A c \in Completed(on[e]) : completed[c] = "cancelled"
  /\ TakeCompleted(on[e])
  /\ taskState' = [taskState EXCEPT ![on[e]] = "input-required"]
  /\ wait' = [wait EXCEPT ![e] = <<Nobody, "none">>]
  /\ UNCHANGED <<promise, listens, pending, confirmed, details, correlation,
                 schedulerVars, faults>>
  /\ Leave(e)

(* The execution is aborted, or fails: the stream throws, or the promise   *)
(* it waits for was rejected.                                              *)
Fail(e) ==
  /\ \/ pc[e] = "streaming" /\ ~aborted[e] /\ Fault
     \/ /\ \/ pc[e] \in {"streaming", "errored"} /\ aborted[e]
           \/ pc[e] = "waiting" /\ wait[e][2] = "resolved" /\ aborted[e]
           \/ pc[e] = "waiting" /\ wait[e][2] = "rejected"
        /\ UNCHANGED faults
  /\ CancelPending(on[e], e)
  /\ taskState' = [taskState EXCEPT ![on[e]] =
       IF ~aborted[e] THEN "failed"
       ELSE IF AfterCancel(on[e]) \in Final THEN AfterCancel(on[e])
       ELSE "input-required"]
  /\ Leave(e)

(* The save has ended; a task in a final state is evicted.                 *)
Saved(e) ==
  /\ pc[e] = "saving"
  /\ pc' = [pc EXCEPT ![e] = "done"]
  /\ IF taskState[on[e]] \in Final
     THEN /\ cached' = Nobody
          /\ listens' = [listens EXCEPT ![on[e]] = FALSE]
     ELSE UNCHANGED <<cached, listens>>
  /\ on' = [on EXCEPT ![e] = Nobody]
  /\ UNCHANGED <<taskState, promise, mapVars, wait, schedulerVars, told>>
  /\ UNCHANGED <<stored, executing, cancelling, aborted, loaded, faults>>

-----------------------------------------------------------------------------
(* Cancellation, the end of a connection, the end of the server.           *)

(* cancelTask until the save.  If the save fails the task stays.           *)
CancelTask ==
  /\ cached # Nobody /\ cancelling = Nobody
  /\ taskState[cached] \notin Final /\ Fault
  /\ CancelPending(cached, Nobody)
  /\ taskState' = [taskState EXCEPT ![cached] = "canceled"]
  /\ \/ stored' = "canceled" /\ cancelling' = cached
     \/ UNCHANGED <<stored, cancelling>>
  /\ UNCHANGED <<cached, executing, pc, on, aborted, loaded>>

(* Mutant: with the task, the mark of its execution is removed.            *)
CancelSavedAndReleased ==
  /\ cancelling # Nobody
  /\ listens' = [listens EXCEPT ![cancelling] = FALSE]
  /\ cached' = Nobody
  /\ cancelling' = Nobody /\ executing' = FALSE
  /\ UNCHANGED <<taskState, promise, mapVars, wait, schedulerVars, told>>
  /\ UNCHANGED <<stored, pc, on, aborted, loaded, faults>>

CancelSaved ==
  /\ cancelling # Nobody
  /\ listens' = [listens EXCEPT ![cancelling] = FALSE]
  /\ cached' = Nobody
  /\ cancelling' = Nobody
  /\ UNCHANGED <<taskState, promise, mapVars, wait, schedulerVars, told>>
  /\ UNCHANGED <<stored, executing, pc, on, aborted, loaded, faults>>

(* The socket of a request ends, while it matters: the execution or one of *)
(* its calls goes on.  Batches of it that wait are given up.               *)
SocketEnds(e) ==
  /\ ~aborted[e] /\ Fault
  /\ \/ pc[e] \in {"streaming", "errored", "streamed", "waiting"}
     \/ Unfinished(e) # {}
  /\ aborted' = [aborted EXCEPT ![e] = TRUE]
  /\ status' = [c \in Calls |-> IF by[c] = e /\ status[c] = "queued"
                                THEN "rejected" ELSE status[c]]
  /\ UNCHANGED <<taskState, promise, listens, mapVars, wait, work, home, by,
                 isCancelling, told>>
  /\ UNCHANGED <<stored, cached, executing, cancelling, pc, on, loaded>>

(* The server stops or exits, and starts again: only the store is left.    *)
Restart ==
  /\ stored # "none" /\ IF Exits THEN UNCHANGED faults ELSE Fault
  /\ cached' = Nobody /\ executing' = FALSE /\ cancelling' = Nobody
  /\ pc' = [e \in Requests |-> IF pc[e] = "idle" THEN "idle" ELSE "done"]
  /\ on' = [e \in Requests |-> Nobody]
  /\ aborted' = [e \in Requests |-> FALSE]
  /\ wait' = [e \in Requests |-> <<Nobody, "none">>]
  /\ taskState' = [o \in Tasks |-> "submitted"]
  /\ promise' = [o \in Tasks |-> "resolved"]
  /\ listens' = [o \in Tasks |-> FALSE]
  /\ isCancelling' = [o \in Tasks |-> FALSE]
  /\ status' = [c \in Calls |-> IF c \in Asked THEN "lost" ELSE "none"]
  /\ work' = [c \in Calls |-> "none"]
  /\ home' = [c \in Calls |-> Nobody]
  /\ by' = [c \in Calls |-> Nobody]
  /\ pending' = [c \in Calls |-> "none"]
  /\ completed' = [c \in Calls |-> "none"]
  /\ processed' = {} /\ confirmed' = {} /\ details' = {} /\ correlation' = {}
  /\ told' = [c \in Calls |-> 0]
  /\ loaded' = {}
  /\ UNCHANGED stored

-----------------------------------------------------------------------------
Execute(e) ==
  \/ Load(e) \/ LoadFails(e) \/ Created(e) \/ Ignore(e) \/ AcceptText(e)
  \/ AcceptConfirmation(e) \/ AsideEnds(e) \/ StreamEnds(e) \/ StreamErrs(e)
  \/ BeginWait(e) \/ SendResults(e) \/ Finish(e) \/ Fail(e) \/ Saved(e)

CallStep(c) ==
  \/ Checked(c) \/ Decided(c)
  \/ CheckAborted(c, aborted) \/ ToolReturns(c, aborted)

Scheduling ==
  /\ \/ \E o \in Tasks : StartQueued(o) \/ RunWave(o, aborted)
     \/ \E c \in Calls : CallStep(c)
  /\ UNCHANGED executorVars

Runs ==
  \/ \E e \in Requests : Arrive(e) \/ Execute(e) \/ SocketEnds(e)
  \/ CancelTask \/ CancelSaved
  \/ Scheduling

Next == (~Exits /\ Runs) \/ Restart

Spec == Init /\ [][Next]_vars
=============================================================================
