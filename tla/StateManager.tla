---------------------------- MODULE StateManager ----------------------------
(***************************************************************************)
(* The store of one scheduler: SchedulerStateManager keeps the tool calls  *)
(* of the current batch in a queue, a map of active calls and a list of    *)
(* completed calls.  A call is a model value; its response, its timings    *)
(* and the published snapshots are left out.                               *)
(*                                                                         *)
(* The operators take the status function they start from, because the     *)
(* scheduler applies several of them in one step.                          *)
(***************************************************************************)
EXTENDS Naturals, Sequences, FiniteSets, Functions

CONSTANT Calls      \* the tool calls, by call id

VARIABLES
  status,           \* status[c]: the lifecycle status of call c
  queue,            \* queue: calls not yet looked at, in the order they start
  active,           \* activeCalls: the calls being processed
  completed,        \* _completedBatch: the calls with a final answer
  reports           \* reports[c]: how often onTerminalCall fired for c

storeVars == <<status, queue, active, completed, reports>>

Terminal == {"success", "error", "cancelled"}

Statuses ==
  Terminal \cup {"unseen", "validating", "awaiting_approval", "scheduled",
                 "executing"}

StoreTypeOK ==
  /\ status \in [Calls -> Statuses]
  /\ queue \in Seq(Calls)
  /\ active \in SUBSET Calls
  /\ completed \in SUBSET Calls
  /\ reports \in [Calls -> Nat]

StoreInit ==
  /\ status = [c \in Calls |-> "unseen"]
  /\ queue = <<>>
  /\ active = {}
  /\ completed = {}
  /\ reports = [c \in Calls |-> 0]

Queued == Range(queue)

(* Mutant: calls that are no longer active change too.                     *)
UpdatedAnywhere(st, S, new) == [c \in Calls |-> IF c \in S THEN new ELSE st[c]]

(* updateStatus for the calls of S: only calls in the active map change.   *)
Updated(st, S, new) ==
  [c \in Calls |-> IF c \in S \cap active THEN new ELSE st[c]]

(* Mutant: calls in error are left out of the report.                      *)
ReportedUnlessError(S) ==
  [c \in Calls |-> IF c \in S /\ status[c] # "error" THEN reports[c] + 1 ELSE reports[c]]

(* onTerminalCall fires once more for each call of S.                      *)
Reported(S) == [c \in Calls |-> IF c \in S THEN reports[c] + 1 ELSE reports[c]]

(* finalizeCall for every active call that has a terminal status in st.    *)
Finished(st) == {c \in active : st[c] \in Terminal}

FinalizeCalls(st) ==
  /\ completed' = completed \cup Finished(st)
  /\ active' = active \ Finished(st)
  /\ reports' = Reported(Finished(st))

(* Mutant: a status the rest of the code does not know.                    *)
CancelledStatusMisspelt(st, c) == "canceled"

(* The final status of a queued call: one that has an error keeps it.      *)
CancelledStatus(st, c) == IF st[c] = "error" THEN "error" ELSE "cancelled"

(* Mutant: the queue is emptied and its calls are never answered.          *)
CancelAllQueuedDropping(st) ==
  status' = st /\ queue' = <<>> /\ UNCHANGED <<completed, reports>>

(* Mutant: nothing is cancelled.                                           *)
CancelNothing(st) == status' = st /\ UNCHANGED <<queue, completed, reports>>

(* cancelAllQueued: every queued call is completed, as cancelled unless it *)
(* was already answered with an error.                                     *)
CancelAllQueued(st) ==
  /\ status' = [c \in Calls |->
                  IF c \in Queued THEN CancelledStatus(st, c) ELSE st[c]]
  /\ completed' = completed \cup Queued
  /\ reports' = Reported(Queued)
  /\ queue' = <<>>

(* dequeue, n times: the first n queued calls become active.               *)
Dequeue(n) ==
  /\ active' = active \cup {queue[i] : i \in 1..n}
  /\ queue' = SubSeq(queue, n + 1, Len(queue))

(* Mutant: the tail call goes to the back of the queue.                    *)
ReplaceActiveCallLast(c) ==
  /\ active' = active \ {c}
  /\ queue' = Append(queue, c)

(* Mutant: the calls of the batch stay in the completed list.              *)
ClearNothing == UNCHANGED completed

(* clearBatch.                                                             *)
ClearBatch == completed' = {}

(* replaceActiveCallWithTailCall: the same call id returns to the front.   *)
ReplaceActiveCallWithTailCall(c) ==
  /\ active' = active \ {c}
  /\ queue' = <<c>> \o queue

=============================================================================
