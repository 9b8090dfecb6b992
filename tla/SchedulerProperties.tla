------------------------ MODULE SchedulerProperties ------------------------
(***************************************************************************)
(* What must hold of the scheduler, whatever the interleaving of its loop, *)
(* the coroutines of its calls, its clients, users and tools.              *)
(***************************************************************************)
EXTENDS Scheduler

InProgress == {c \in Calls : step[c] \in {"running", "settling"}}

Answered == completed \cup UNION {answer[j] : j \in Jobs}

(* A call is in one place at a time: the moves between the queue, the map  *)
(* of active calls and the completed list (wave, tail call, cancellation,  *)
(* finalization) neither copy a call nor bring one back.                   *)
OnePlace ==
  /\ IsInjective(queue)
  /\ Queued \cap active = {}
  /\ Queued \cap completed = {}
  /\ active \cap completed = {}

(* No call gets lost or strays into another batch: the three places        *)
(* together always hold exactly the batch that is being processed, and     *)
(* nothing when the scheduler is free.                                     *)
Accounted ==
  Queued \cup active \cup completed =
    IF current = NoJob THEN {} ELSE BatchSet(current)

(* schedule() resolves with an answer for each of its own calls and for no *)
(* other, although the completed list is shared by all batches.            *)
AnsweredInFull ==
  \A j \in Jobs : promise[j] = "resolved" =>
    /\ answer[j] = BatchSet(j)
    /\ \A c \in BatchSet(j) : status[c] \in Terminal

(* onTerminalCall (the telemetry of a tool call) fires exactly once for    *)
(* each call that has been answered, and never for another, even when      *)
(* cancellations and completions meet.                                     *)
ReportedOnce == \A c \in Calls : reports[c] = IF c \in Answered THEN 1 ELSE 0

(* A tool runs with the arguments that were permitted, by the policy or by *)
(* the user: nothing changes them between the permission and the run, when *)
(* no hook may rewrite them.                                               *)
RunsAsApproved == \A c \in InProgress \ Hooked : args[c] = approved[c]

(* The same for all calls: cancelAll() replaces the call that a hook works *)
(* on, so it is promised until then.                                       *)
RunsAsRewritten == ~isCancelling => \A c \in InProgress : args[c] = approved[c]

(* Policy, hooks and origin of a call are combined: a call that a hook     *)
(* sends to the user, or that the policy denies, runs only when the user,  *)
(* last asked about this request, has agreed, whatever a client-initiated  *)
(* call, an edit, a sandbox expansion or a tail call makes of it.  (Tools  *)
(* that do not heed a hook's decision may find nothing to confirm.)        *)
AskedBeforeRun ==
  \A c \in InProgress : c \in forced \/ verdict[c] = "deny" =>
                        c \in consented \/ tool[c] \in Heedless

(* wait_for_previous: a call that sets it starts after all calls requested *)
(* before it are completed, tail calls included, and calls requested after *)
(* it start after it is completed or has made a tail call, which waits for *)
(* others only when it says so itself (update_topic calls jump the queue). *)
WaitsForPrevious ==
  \A j \in Jobs : \A m, n \in DOMAIN CallsOf[j] :
    LET d == CallsOf[j][m]
        c == CallsOf[j][n]
    IN  m < n /\ c \in InProgress /\ c \notin Topics =>
          /\ c \in Waits => d \in completed
          /\ d \in Waits => d \in completed \/ tails[d] > 0

(* A call that the user refused ends the batch: once it is finalized, only *)
(* tail calls of its siblings are still checked or run.  (A refused sandbox *)
(* expansion is not a refused call: the call ends in error.)               *)
RefusalEndsBatch ==
  (\E c \in completed : outcome[c] = "cancel" /\ status[c] = "cancelled") =>
    \A d \in Coroutines : tails[d] > 0

(* What has been completed stays as it is until the batch is handed over:  *)
(* late live output, a late answer or cancelAll do not change it.          *)
CompletedIsFinal ==
  [][\A c \in completed \cap completed' : status'[c] = status[c]]_vars

(* The scheduler serves its callers as BatchService says: one at a time,   *)
(* oldest first, and every one it took on is answered.                     *)
Service == INSTANCE BatchService WITH state <- promise, line <- requestQueue

ImplementsBatchService == Service!Spec

(* The safety part of BatchService.                                        *)
ServesInOrder == Service!Init /\ [][Service!Next]_(Service!vars)

(* Every call of schedule() is settled in the end.                         *)
EveryJobSettles ==
  \A j \in Jobs : promise[j] \in {"queued", "running"} ~>
                  promise[j] \in {"resolved", "rejected"}
=============================================================================
