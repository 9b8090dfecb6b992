--------------------------- MODULE TaskProperties ---------------------------
(* What is promised of tasks of the A2A server.                            *)
EXTENDS TaskExecutor

TypeOK ==
  /\ taskState \in [Tasks -> TaskStates]
  /\ promise \in [Tasks -> {"open", "resolved"}]
  /\ listens \in [Tasks -> BOOLEAN]
  /\ pending \in [Calls -> {"none"} \cup Live]
  /\ completed \in [Calls -> {"none"} \cup Terminal]
  /\ \A s \in {processed, confirmed, details, correlation} : s \subseteq Calls
  /\ status \in [Calls -> Statuses]
  /\ work \in [Calls ->
               {"none", "checks", "asks", "agreed", "refused", "runs"}]
  /\ home \in [Calls -> Tasks \cup {Nobody}]
  /\ by \in [Calls -> Requests \cup {Nobody}]
  /\ cached \in Tasks \cup {Nobody} /\ cancelling \in Tasks \cup {Nobody}
  /\ stored \in TaskStates \cup {"none"}
  /\ on \in [Requests -> Tasks \cup {Nobody}]
  /\ aborted \in [Requests -> BOOLEAN]

Primary(e) == pc[e] \in {"streaming", "errored", "streamed", "waiting"}

(* However requests, cancellation, eviction and restarts interleave, the   *)
(* task is marked as executing if and only if one execution drives it, and *)
(* never do two (executingTasks).                                          *)
OnePrimary ==
  Cardinality({e \in Requests : Primary(e)}) = IF executing THEN 1 ELSE 0

(* Though updates repeat calls that have ended, and calls end again after  *)
(* they were cancelled, the model is told each result at most once.        *)
ResultsOnce == \A c \in Calls : told[c] <= 1

(* No result is lost: the end of a call the task listens to has been told  *)
(* to the model or is kept for the next turn.                              *)
NoResultLost ==
  \A c \in Calls :
    (status[c] \in Terminal /\ listens[home[c]]) =>
      completed[c] # "none" \/ c \in processed

(* The scheduler has still something to do for a call, and will report it. *)
MayEnd(c) == status[c] \in {"queued", "scheduled"} \/ work[c] # "none"

(* No wakeup is lost: an execution that waits for the promise the task has *)
(* waits for calls of which each can still end and will be heard of        *)
(* (waitForPendingTools), unless the server exits or the Task object was   *)
(* disposed of under it: cancelTask() does not stop an execution that      *)
(* streams, and what it calls then is never reported.                      *)
WaitsForSomething ==
  \A e \in Requests :
    pc[e] = "waiting" /\ wait[e][2] = "open" /\ ~Exits /\ listens[on[e]] =>
      /\ promise[on[e]] = "open" /\ Pending(on[e]) # {}
      /\ \A c \in Pending(on[e]) : MayEnd(c) /\ c \notin processed

(* executor.ts:463: after a confirmation the original execution is         *)
(* resumed; it waits for nothing when all tools have ended.                *)
PrimaryIsResumed ==
  \A e \in Requests :
    pc[e] = "waiting" /\ Pending(on[e]) = {} => wait[e][2] # "orphaned"
=============================================================================
