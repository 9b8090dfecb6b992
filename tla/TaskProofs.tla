----------------------------- MODULE TaskProofs -----------------------------
(* What TLAPS proves of tasks of the A2A server, for any number of         *)
(* requests, Task objects, calls and faults.                               *)
EXTENDS TaskProperties, FiniteSetTheorems, TLAPS

Places == {"idle", "loading", "creating", "loaded", "aside", "streaming",
           "errored", "streamed", "waiting", "saving", "done"}

-----------------------------------------------------------------------------
(* The mark of execution: set while a request drives the task, by one      *)
(* request only.                                                           *)
Marked ==
  /\ pc \in [Requests -> Places]
  /\ executing \in BOOLEAN
  /\ executing <=> \E e \in Requests : Primary(e)
  /\ \A e, f \in Requests : Primary(e) /\ Primary(f) => e = f

(* What the invariants need of the variables' types, and who is made when. *)
Kept ==
  /\ pending \in [Calls -> {"none"} \cup Live]
  /\ completed \in [Calls -> {"none"} \cup Terminal]
  /\ processed \subseteq Calls
  /\ status \in [Calls -> Statuses]
  /\ work \in [Calls -> {"none", "checks", "asks", "agreed", "refused",
                         "runs"}]
  /\ told \in [Calls -> Nat]
  /\ listens \in [Tasks -> BOOLEAN]
  /\ promise \in [Tasks -> {"open", "resolved"}]
  /\ wait \in [Requests -> (Tasks \cup {Nobody}) \X
               {"none", "open", "resolved", "rejected", "orphaned"}]

(* A call belongs to a Task object that was made, from the moment it is    *)
(* known; a request at work has one.                                       *)
Owned ==
  /\ loaded \subseteq Tasks
  /\ home \in [Calls -> loaded \cup {Nobody}]
  /\ on \in [Requests -> loaded \cup {Nobody}]
  /\ cached \in loaded \cup {Nobody}
  /\ cancelling \in loaded \cup {Nobody}
  /\ \A e \in Requests :
       on[e] = Nobody => pc[e] \in {"idle", "loading", "done"}
  /\ \A c \in Calls :
       /\ home[c] = Nobody => /\ status[c] \in {"none", "lost"}
                              /\ pending[c] = "none" /\ work[c] = "none"
       /\ status[c] = "none" => home[c] = Nobody

(* What was told is processed, and what is kept was not told.              *)
Counted ==
  \A c \in Calls :
    /\ told[c] = IF c \in processed THEN 1 ELSE 0
    /\ completed[c] # "none" => c \notin processed

(* The promise an execution waits for is one of its own task.              *)
Awaited ==
  \A e \in Requests : wait[e][2] = "open" =>
    /\ pc[e] = "waiting" /\ wait[e][1] = on[e]
    /\ Pending(on[e]) # {} /\ promise[on[e]] = "open"

(* A call that is pending for a task that listens has yet to end for it.   *)
AtWork == {"validating", "awaiting", "executing"}

Heard ==
  \A c \in Calls :
    /\ home[c] = Nobody => completed[c] = "none" /\ c \notin processed
    /\ status[c] \in AtWork => work[c] # "none"
    /\ pending[c] # "none" /\ listens[home[c]] =>
         /\ status[c] \in Live \cup {"queued", "rejected"}
         /\ completed[c] = "none" /\ c \notin processed

-----------------------------------------------------------------------------
LEMMA MarkedStays ==
  ASSUME Marked, [Next]_vars
  PROVE  Marked'
<1> USE DEF Marked, Primary, Places
<1>1. ASSUME NEW e \in Requests, Arrive(e) \/ Load(e) \/ LoadFails(e)
                                 \/ Created(e) \/ Ignore(e)
      PROVE  Marked'
  BY <1>1 DEF Arrive, Load, LoadFails, Created, Ignore
<1>2. ASSUME NEW e \in Requests, AcceptText(e)
      PROVE  Marked'
  BY <1>2 DEF AcceptText, Admitted
<1>3. ASSUME NEW e \in Requests, AcceptConfirmation(e)
      PROVE  Marked'
  BY <1>3 DEF AcceptConfirmation, Admitted
<1>4. ASSUME NEW e \in Requests, AsideEnds(e) \/ StreamEnds(e) \/ StreamErrs(e)
                                 \/ BeginWait(e) \/ SendResults(e)
      PROVE  Marked'
  BY <1>4 DEF AsideEnds, StreamEnds, StreamErrs, BeginWait, SendResults, Resumed
<1>5. ASSUME NEW e \in Requests, Finish(e) \/ Fail(e)
      PROVE  Marked'
  BY <1>5 DEF Finish, Fail, Leave, Resumed
<1>6. ASSUME NEW e \in Requests, Saved(e) \/ SocketEnds(e)
      PROVE  Marked'
  BY <1>6 DEF Saved, SocketEnds
<1>7. CASE CancelTask \/ CancelSaved
  BY <1>7 DEF CancelTask, CancelSaved
<1>9. CASE Restart
  <2>1. executing' = FALSE /\ pc' \in [Requests -> {"idle", "done"}]
    BY <1>9 DEF Restart
  <2> QED
    BY <2>1
<1>8. CASE Scheduling \/ UNCHANGED vars
  BY <1>8 DEF Scheduling, executorVars, vars
<1> QED
  BY <1>1, <1>2, <1>3, <1>4, <1>5, <1>6, <1>7, <1>8,
     <1>9 DEF Next, Runs, Execute

(* The task is marked as executing exactly while one execution drives it   *)
(* (executingTasks).                                                       *)
THEOREM OneDrives == Spec => []OnePrimary
<1>1. Init => Marked
  BY DEF Init, Marked, Places, Primary
<1>2. Marked /\ [Next]_vars => Marked'
  BY MarkedStays
<1>3. Marked => OnePrimary
  <2> SUFFICES ASSUME Marked
               PROVE  OnePrimary
    OBVIOUS
  <2>1. CASE ~executing
    <3>1. {e \in Requests : Primary(e)} = {}
      BY <2>1 DEF Marked
    <3> QED
      BY <2>1, <3>1, FS_EmptySet DEF OnePrimary
  <2>2. CASE executing
    <3>1. PICK e \in Requests : Primary(e)
      BY <2>2 DEF Marked
    <3>2. {x \in Requests : Primary(x)} = {e}
      BY <3>1 DEF Marked
    <3> QED
      BY <2>2, <3>2, FS_Singleton DEF OnePrimary
  <2> QED
    BY <2>1, <2>2
<1> QED
  BY <1>1, <1>2, <1>3, PTL DEF Spec

-----------------------------------------------------------------------------
(* A step of the scheduler, as the task sees it.                           *)
Works == {"none", "checks", "asks", "agreed", "refused", "runs"}

Reported(o, st) ==
  /\ \A c \in Calls : home[c] # o => st[c] = status[c]
  /\ \A c \in Calls :
       /\ st[c] \in {"none", "queued", "rejected", "lost"} => st[c] = status[c]
       /\ st[c] \in AtWork =>
            work'[c] # "none" \/ (st[c] = status[c] /\ work'[c] = work[c])
  /\ Report(o, st)
  /\ work' \in [Calls -> Works]
  /\ \A c \in Calls : home[c] = Nobody => work'[c] = "none"
  /\ UNCHANGED <<home, executorVars>>

LEMMA SchedulingReports ==
  ASSUME Kept, Owned, Scheduling
  PROVE  \E o \in Tasks : \E st \in [Calls -> Statuses] : Reported(o, st)
<1> USE DEF Works, Statuses, Terminal, AtWork
<1> UNCHANGED executorVars
  BY DEF Scheduling
<1>1. ASSUME NEW o \in Tasks, StartQueued(o)
      PROVE  \E st \in [Calls -> Statuses] : Reported(o, st)
  <2> DEFINE first == CHOOSE c \in Of(o) :
                    /\ status[c] = "queued"
                    /\ \A x \in Of(o) : status[x] = "queued" => c <= x
             batch == {c \in Of(o) : status[c] = "queued" /\ by[c] = by[first]}
             st == [c \in Calls |-> IF c \in batch THEN "validating"
                                    ELSE status[c]]
  <2>1. /\ work' = [c \in Calls |-> IF c \in batch THEN "checks" ELSE work[c]]
        /\ Report(o, st) /\ UNCHANGED home
    BY <1>1 DEF StartQueued
  <2>2. \A c \in batch : home[c] = o /\ status[c] = "queued"
    BY DEF Of
  <2> HIDE DEF first, batch
  <2>3. st \in [Calls -> Statuses]
    BY DEF Kept
  <2>4. Reported(o, st)
    BY <2>1, <2>2, TaskAssumption DEF Reported, Kept, Owned
  <2> QED
    BY <2>3, <2>4
<1>2. ASSUME NEW o \in Tasks, RunWave(o, aborted)
      PROVE  \E st \in [Calls -> Statuses] : Reported(o, st)
  <2> DEFINE wave == {c \in Of(o) : status[c] = "scheduled"}
             runs == {c \in wave : ~aborted[by[c]]}
             st == [c \in Calls |-> IF c \in runs THEN "executing"
                                    ELSE IF c \in wave THEN "cancelled"
                                    ELSE status[c]]
  <2>1. /\ work' = [c \in Calls |-> IF c \in runs THEN "runs" ELSE work[c]]
        /\ Report(o, st) /\ UNCHANGED home
    BY <1>2 DEF RunWave
  <2>2. \A c \in wave : home[c] = o
    BY DEF Of
  <2>3. runs \subseteq wave
    OBVIOUS
  <2> HIDE DEF wave, runs
  <2>4. st \in [Calls -> Statuses]
    BY DEF Kept
  <2>5. Reported(o, st)
    BY <2>1, <2>2, <2>3, TaskAssumption DEF Reported, Kept, Owned
  <2> QED
    BY <2>4, <2>5
<1>3. ASSUME NEW c \in Calls, CallStep(c)
      PROVE  \E o \in Tasks : \E st \in [Calls -> Statuses] : Reported(o, st)
  <2>1. work[c] # "none" /\ UNCHANGED home
    BY <1>3 DEF CallStep, Checked, Decided, CheckAborted, ToolReturns
  <2>2. home[c] \in Tasks
    BY <2>1 DEF Owned
  <2>3. PICK s \in {"awaiting", "scheduled", "result", "cancelled"},
             w \in {"asks", "none"} :
          /\ s = "awaiting" => w = "asks"
          /\ Report(home[c], [status EXCEPT ![c] = s])
          /\ work' = [work EXCEPT ![c] = w]
    BY <1>3 DEF CallStep, Checked, Decided, CheckAborted, ToolReturns
  <2>4. [status EXCEPT ![c] = s] \in [Calls -> Statuses]
    BY DEF Kept
  <2>5. Reported(home[c], [status EXCEPT ![c] = s])
    BY <2>1, <2>2, <2>3, TaskAssumption DEF Reported, Kept, Owned
  <2> QED
    BY <2>2, <2>4, <2>5
<1> QED
  BY <1>1, <1>2, <1>3 DEF Scheduling

-----------------------------------------------------------------------------
(* Types.                                                                  *)
LEMMA ReportKeeps ==
  ASSUME Kept, NEW o \in Tasks, NEW st \in [Calls -> Statuses],
         Reported(o, st)
  PROVE  Kept'
<1> USE DEF Kept, Reported, Report
<1>1. CASE ~listens[o]
  BY <1>1 DEF mapVars, Works
<1>2. CASE listens[o]
  <2>1. Update(o, st) /\ status' = st
    BY <1>2
  <2>2. pending' \in [Calls -> {"none"} \cup Live]
    BY <2>1 DEF Update, Registered, Ended, Fresh, Changed, Live, Statuses,
                Terminal
  <2>3. completed' \in [Calls -> {"none"} \cup Terminal]
    BY <2>1 DEF Update, Ended
  <2>4. promise' \in [Tasks -> {"open", "resolved"}]
    BY <2>1 DEF Update
  <2>5. wait' \in [Requests -> (Tasks \cup {Nobody}) \X
               {"none", "open", "resolved", "rejected", "orphaned"}]
    BY <2>1 DEF Update, Settled
  <2> QED
    BY <2>1, <2>2, <2>3, <2>4, <2>5 DEF Update, Works
<1> QED
  BY <1>1, <1>2

LEMMA CancelKeeps ==
  ASSUME Kept, NEW o \in Tasks, NEW left, CancelPending(o, left)
  PROVE  Kept'
<1> USE DEF Kept, CancelPending
<1>1. status' \in [Calls -> Statuses]
  BY DEF Statuses, Terminal
<1>2. pending' \in [Calls -> {"none"} \cup Live]
  BY DEF Without
<1>3. completed' \in [Calls -> {"none"} \cup Terminal]
  BY DEF Terminal
<1>4. wait' \in [Requests -> (Tasks \cup {Nobody}) \X
               {"none", "open", "resolved", "rejected", "orphaned"}]
  BY DEF Settled
<1> QED
  BY <1>1, <1>2, <1>3, <1>4

LEMMA TakeKeeps ==
  ASSUME Kept, NEW o, TakeCompleted(o)
  PROVE  /\ completed' \in [Calls -> {"none"} \cup Terminal]
         /\ processed' \subseteq Calls
         /\ told' \in [Calls -> Nat]
  BY DEF Kept, TakeCompleted, Without, Told, Completed, Of

(* What the model's answer does.                                           *)
LEMMA StreamSchedules ==
  ASSUME NEW e \in Requests, StreamEnds(e)
  PROVE  \/ UNCHANGED taskVars
         \/ \E new \in SUBSET (Calls \ Asked) : Schedule(on[e], e, new)
  BY DEF StreamEnds

LEMMA KeptStays ==
  ASSUME Kept, Owned, [Next]_vars
  PROVE  Kept'
<1> USE DEF mapVars, schedulerVars
<1>1. ASSUME NEW e \in Requests,
             Arrive(e) \/ LoadFails(e) \/ Created(e) \/ Ignore(e)
             \/ AsideEnds(e)
      PROVE  Kept'
  BY <1>1 DEF Arrive, LoadFails, Created, Ignore, AsideEnds, taskVars, Kept
<1>2. ASSUME NEW e \in Requests, Load(e) \/ Saved(e) \/ AcceptText(e)
      PROVE  Kept'
  BY <1>2 DEF Load, Saved, AcceptText, Kept
<1>3. ASSUME NEW e \in Requests, AcceptConfirmation(e)
      PROVE  Kept'
  <2>1. CASE UNCHANGED taskVars
    BY <2>1 DEF taskVars, Kept
  <2>2. ASSUME NEW c \in Calls, NEW a \in {"agreed", "refused"},
               Confirm(on[e], c, a)
        PROVE  Kept'
    <3>1. wait' \in [Requests -> (Tasks \cup {Nobody}) \X
               {"none", "open", "resolved", "rejected", "orphaned"}]
      BY <2>2 DEF Confirm, ResetPromise, Settled, Kept
    <3>2. promise' \in [Tasks -> {"open", "resolved"}]
      BY <2>2 DEF Confirm, ResetPromise, Kept
    <3> QED
      BY <2>2, <3>1, <3>2 DEF Confirm, Kept
  <2> QED
    BY <1>3, <2>1, <2>2 DEF AcceptConfirmation
<1>4. ASSUME NEW e \in Requests, StreamEnds(e)
      PROVE  Kept'
  <2>1. CASE UNCHANGED taskVars
    BY <2>1 DEF taskVars, Kept
  <2>2. ASSUME NEW new \in SUBSET (Calls \ Asked), Schedule(on[e], e, new)
        PROVE  Kept'
    BY <2>2 DEF Schedule, Kept, Live, Statuses
  <2> QED
    BY <1>4, <2>1, <2>2, StreamSchedules
<1>5. ASSUME NEW e \in Requests, StreamErrs(e) \/ Fail(e)
      PROVE  Kept'
  <2>1. on[e] \in Tasks
    BY <1>5 DEF StreamErrs, Fail, Owned
  <2> QED
    BY <1>5, <2>1, CancelKeeps DEF StreamErrs, Fail
<1>6. ASSUME NEW e \in Requests, BeginWait(e)
      PROVE  Kept'
  <2>1. on[e] \in Tasks
    BY <1>6 DEF BeginWait, Owned
  <2> QED
    BY <1>6, <2>1 DEF BeginWait, WaitFor, Kept
<1>7. ASSUME NEW e \in Requests, SendResults(e) \/ Finish(e)
      PROVE  Kept'
  <2>1. TakeCompleted(on[e])
    BY <1>7 DEF SendResults, Finish
  <2>2. wait' = [wait EXCEPT ![e] = <<Nobody, "none">>]
    BY <1>7 DEF SendResults, Finish
  <2>3. UNCHANGED <<promise, listens, pending, schedulerVars>>
    BY <1>7 DEF SendResults, Finish
  <2> QED
    BY <2>1, <2>2, <2>3, TakeKeeps DEF Kept
<1>8. ASSUME NEW e \in Requests, SocketEnds(e)
      PROVE  Kept'
  BY <1>8 DEF SocketEnds, Kept, Statuses
<1>9. CASE CancelTask
  <2>1. cached \in Tasks
    BY <1>9 DEF CancelTask, Owned
  <2> QED
    BY <1>9, <2>1, CancelKeeps DEF CancelTask
<1>10. CASE CancelSaved
  BY <1>10 DEF CancelSaved, Kept
<1>11. CASE Restart
  BY <1>11 DEF Restart, Kept, Statuses
<1>12. CASE Scheduling
  BY <1>12, SchedulingReports, ReportKeeps
<1>13. CASE UNCHANGED vars
  BY <1>13 DEF vars, taskVars, Kept
<1> QED
  BY <1>1, <1>2, <1>3, <1>4, <1>5, <1>6, <1>7, <1>8, <1>9, <1>10, <1>11,
     <1>12, <1>13 DEF Next, Runs, Execute

-----------------------------------------------------------------------------
(* Who owns what.                                                          *)
LEMMA ReportOwns ==
  ASSUME Kept, Owned, NEW o \in Tasks, NEW st \in [Calls -> Statuses],
         Reported(o, st)
  PROVE  Owned'
<1>1. UNCHANGED <<loaded, home, on, cached, cancelling, pc>> /\ status' = st
  BY DEF Reported, executorVars, Report
<1>2. \A c \in Calls : home[c] = Nobody => pending'[c] = pending[c]
  BY TaskAssumption DEF Reported, Report, mapVars, Update, Registered, Ended,
     Fresh, Of, Kept
<1>3. \A c \in Calls : home[c] = Nobody => st[c] = status[c]
  BY TaskAssumption DEF Reported
<1> QED
  BY <1>1, <1>2, <1>3 DEF Owned, Reported

LEMMA CancelOwns ==
  ASSUME Kept, Owned, NEW o \in Tasks, NEW left, CancelPending(o, left),
         UNCHANGED <<loaded, on, cached, cancelling>>,
         \A e \in Requests : on[e] = Nobody => pc'[e] = pc[e]
  PROVE  Owned'
<1>1. \A c \in Calls : home[c] = Nobody =>
        status'[c] = status[c] /\ pending'[c] = pending[c]
  BY TaskAssumption DEF CancelPending, Cancellable, Without, Of, Kept
<1>2. \A c \in Calls : status'[c] = "none" => status[c] = "none"
  BY DEF CancelPending, Kept
<1>3. UNCHANGED <<home, work>>
  BY DEF CancelPending
<1> QED
  BY <1>1, <1>2, <1>3 DEF Owned

LEMMA OwnedStays ==
  ASSUME Marked, Kept, Owned, [Next]_vars
  PROVE  Owned'
<1> USE DEF mapVars, schedulerVars, Owned
<1> pc \in [Requests -> Places]
  BY DEF Marked
<1>1. ASSUME NEW e \in Requests, Arrive(e)
      PROVE  Owned'
  BY <1>1 DEF Arrive, taskVars
<1>2. ASSUME NEW e \in Requests, Load(e)
      PROVE  Owned'
  <2>1. PICK o \in Tasks \ loaded :
          /\ loaded' = loaded \cup {o}
          /\ on' = [on EXCEPT ![e] = o] /\ cached' = o
    BY <1>2 DEF Load
  <2>2. UNCHANGED <<home, status, pending, work, cancelling>>
    BY <1>2 DEF Load
  <2>3. pc' = [pc EXCEPT ![e] = IF stored = "none" THEN "creating"
                                ELSE "loaded"]
    BY <1>2 DEF Load
  <2>4. \A x \in Requests : on'[x] = Nobody => pc'[x] \in {"idle", "loading",
                                                          "done"}
    BY <2>1, <2>3, TaskAssumption
  <2> QED
    BY <2>1, <2>2, <2>4
<1>3. ASSUME NEW e \in Requests, LoadFails(e) \/ Created(e) \/ Ignore(e)
                                 \/ AsideEnds(e)
      PROVE  Owned'
  BY <1>3 DEF LoadFails, Created, Ignore, AsideEnds, taskVars
<1>4. ASSUME NEW e \in Requests, AcceptText(e)
      PROVE  Owned'
  BY <1>4 DEF AcceptText, AcceptFrame, Admitted
<1>5. ASSUME NEW e \in Requests, AcceptConfirmation(e)
      PROVE  Owned'
  <2>1. UNCHANGED <<home, status, pending>>
    BY <1>5 DEF AcceptConfirmation, Confirm, taskVars
  <2>2. \A c \in Calls : work[c] = "none" => work'[c] = "none"
    BY <1>5 DEF AcceptConfirmation, Confirm, taskVars, Kept
  <2>3. UNCHANGED <<loaded, cached, cancelling>>
    BY <1>5 DEF AcceptConfirmation, AcceptFrame
  <2>4. /\ on' \in [Requests -> loaded \cup {Nobody}]
        /\ \A x \in Requests :
             on'[x] = Nobody => pc'[x] \in {"idle", "loading", "done"}
    BY <1>5 DEF AcceptConfirmation, Admitted
  <2> QED
    BY <2>1, <2>2, <2>3, <2>4
<1>6. ASSUME NEW e \in Requests, StreamEnds(e)
      PROVE  Owned'
  <2>1. UNCHANGED <<loaded, on, cached, cancelling>>
        /\ pc' = [pc EXCEPT ![e] = "streamed"] /\ on[e] # Nobody
    BY <1>6 DEF StreamEnds
  <2>2. CASE UNCHANGED taskVars
    BY <2>1, <2>2 DEF taskVars
  <2>3. ASSUME NEW new \in SUBSET (Calls \ Asked), Schedule(on[e], e, new)
        PROVE  Owned'
    <3>1. /\ home' = [c \in Calls |-> IF c \in new THEN on[e] ELSE home[c]]
          /\ \A c \in Calls \ new : /\ status'[c] = status[c]
                                    /\ pending'[c] = pending[c]
                                    /\ work'[c] = work[c]
          /\ \A c \in new : status'[c] # "none"
      BY <2>3 DEF Schedule
    <3> QED
      BY <2>1, <3>1
  <2> QED
    BY <1>6, <2>2, <2>3, StreamSchedules
<1>7. ASSUME NEW e \in Requests, StreamErrs(e) \/ Fail(e)
      PROVE  Owned'
  <2>1. on[e] \in Tasks /\ on[e] # Nobody
    BY <1>7 DEF StreamErrs, Fail
  <2>2. UNCHANGED <<loaded, on, cached, cancelling>>
    BY <1>7 DEF StreamErrs, Fail, Leave
  <2>3. \A x \in Requests : on[x] = Nobody => pc'[x] = pc[x]
    BY <1>7, <2>1 DEF StreamErrs, Fail, Leave
  <2> QED
    BY <1>7, <2>1, <2>2, <2>3, CancelOwns DEF StreamErrs, Fail
<1>8. ASSUME NEW e \in Requests,
             BeginWait(e) \/ SendResults(e) \/ Finish(e) \/ Saved(e)
      PROVE  Owned'
  <2>1. UNCHANGED <<loaded, home, status, pending, work, cancelling>>
    BY <1>8 DEF BeginWait, SendResults, Finish, Saved, Leave
  <2>2. /\ on[e] # Nobody
        /\ \A x \in Requests \ {e} : pc'[x] = pc[x] /\ on'[x] = on[x]
        /\ on'[e] # on[e] => on'[e] = Nobody /\ pc'[e] = "done"
    <3>1. CASE BeginWait(e)
      BY <3>1 DEF BeginWait
    <3>2. CASE SendResults(e)
      BY <3>2 DEF SendResults, Resumed
    <3>3. CASE Finish(e)
      BY <3>3 DEF Finish, Resumed, Leave
    <3>4. CASE Saved(e)
      BY <3>4 DEF Saved
    <3> QED
      BY <1>8, <3>1, <3>2, <3>3, <3>4
  <2>3. cached' \in loaded \cup {Nobody} /\ on' \in [Requests -> loaded \cup {Nobody}]
    BY <1>8 DEF BeginWait, SendResults, Finish, Saved, Leave
  <2> QED
    BY <2>1, <2>2, <2>3
<1>9. ASSUME NEW e \in Requests, SocketEnds(e)
      PROVE  Owned'
  BY <1>9 DEF SocketEnds, Kept
<1>10. CASE CancelTask
  <2>1. cached \in Tasks
    BY <1>10 DEF CancelTask
  <2>2. CancelPending(cached, Nobody) /\ UNCHANGED <<loaded, on, cached, pc>>
    BY <1>10 DEF CancelTask
  <2>3. cancelling' \in loaded \cup {Nobody}
    BY <1>10 DEF CancelTask
  <2>4. \A c \in Calls : home[c] = Nobody =>
          status'[c] = status[c] /\ pending'[c] = pending[c]
    BY <2>1, <2>2, TaskAssumption
       DEF CancelPending, Cancellable, Without, Of, Kept
  <2>5. \A c \in Calls : status'[c] = "none" => status[c] = "none"
    BY <2>2 DEF CancelPending, Kept
  <2>6. UNCHANGED <<home, work>>
    BY <2>2 DEF CancelPending
  <2> QED
    BY <2>2, <2>3, <2>4, <2>5, <2>6
<1>11. CASE CancelSaved
  BY <1>11 DEF CancelSaved
<1>12. CASE Restart
  BY <1>12 DEF Restart, Asked
<1>13. CASE Scheduling
  BY <1>13, SchedulingReports, ReportOwns
<1>14. CASE UNCHANGED vars
  BY <1>14 DEF vars, taskVars, executorVars
<1> QED
  BY <1>1, <1>2, <1>3, <1>4, <1>5, <1>6, <1>7, <1>8, <1>9, <1>10, <1>11,
     <1>12, <1>13, <1>14 DEF Next, Runs, Execute

-----------------------------------------------------------------------------
(* Results: told once, and never lost.                                     *)
LEMMA CountedStays ==
  ASSUME Marked, Kept, Owned, Counted, [Next]_vars
  PROVE  Counted'
<1> USE DEF mapVars, schedulerVars, Counted
<1>1. CASE UNCHANGED <<completed, processed, told>>
  BY <1>1
<1>2. ASSUME NEW o \in Tasks, NEW left, CancelPending(o, left)
      PROVE  Counted'
  BY <1>2 DEF CancelPending, Kept
<1>3. ASSUME NEW o, TakeCompleted(o)
      PROVE  Counted'
  BY <1>3 DEF TakeCompleted, Told, Completed, Without, Of, Kept
<1>4. ASSUME NEW o \in Tasks, NEW st \in [Calls -> Statuses], Reported(o, st)
      PROVE  Counted'
  <2>1. CASE ~listens[o]
    BY <1>4, <2>1 DEF Reported, Report
  <2>2. CASE listens[o]
    BY <1>4, <2>2 DEF Reported, Report, Update, Ended, Fresh, Kept
  <2> QED
    BY <2>1, <2>2
<1>5. ASSUME NEW e \in Requests, StreamErrs(e) \/ Fail(e)
      PROVE  Counted'
  <2>1. on[e] \in Tasks
    BY <1>5 DEF StreamErrs, Fail, Owned
  <2> QED
    BY <1>5, <2>1, <1>2 DEF StreamErrs, Fail
<1>6. ASSUME NEW e \in Requests, SendResults(e) \/ Finish(e)
      PROVE  Counted'
  BY <1>6, <1>3 DEF SendResults, Finish
<1>7. CASE CancelTask
  <2>1. cached \in Tasks
    BY <1>7 DEF CancelTask, Owned
  <2> QED
    BY <1>7, <2>1, <1>2 DEF CancelTask
<1>8. CASE Restart
  BY <1>8 DEF Restart
<1>9. CASE Scheduling
  BY <1>9, <1>4, SchedulingReports
<1>10. ASSUME NEW e \in Requests, StreamEnds(e)
       PROVE  Counted'
  BY <1>10, <1>1, StreamSchedules DEF Schedule, taskVars
<1>11. ASSUME NEW e \in Requests,
              Arrive(e) \/ Load(e) \/ LoadFails(e) \/ Created(e) \/ Ignore(e)
              \/ AcceptText(e) \/ AcceptConfirmation(e) \/ AsideEnds(e)
              \/ BeginWait(e) \/ Saved(e) \/ SocketEnds(e)
       PROVE  Counted'
  BY <1>11, <1>1 DEF Arrive, Load, LoadFails, Created, Ignore, AcceptText,
     AcceptConfirmation, Confirm, AsideEnds, BeginWait, Saved, SocketEnds,
     taskVars
<1>12. CASE CancelSaved \/ UNCHANGED vars
  BY <1>12, <1>1 DEF CancelSaved, vars, taskVars
<1> QED
  BY <1>5, <1>6, <1>7, <1>8, <1>9, <1>10, <1>11, <1>12 DEF Next, Runs, Execute

LEMMA RecordedStays ==
  ASSUME Marked, Kept, Owned, NoResultLost, [Next]_vars
  PROVE  NoResultLost'
<1> USE DEF mapVars, schedulerVars, NoResultLost
<1>1. CASE UNCHANGED <<completed, processed, status, home, listens>>
  BY <1>1
<1>2. ASSUME NEW o \in Tasks, NEW left, CancelPending(o, left)
      PROVE  NoResultLost'
  BY <1>2 DEF CancelPending, Cancellable, Of, Kept, Terminal
<1>3. ASSUME NEW o, TakeCompleted(o), UNCHANGED <<listens, schedulerVars>>
      PROVE  NoResultLost'
  BY <1>3 DEF TakeCompleted, Completed, Without, Of, Kept
<1>4. ASSUME NEW o \in Tasks, NEW st \in [Calls -> Statuses], Reported(o, st)
      PROVE  NoResultLost'
  <2>1. CASE ~listens[o]
    BY <1>4, <2>1 DEF Reported, Report
  <2>2. CASE listens[o]
    <3> SUFFICES ASSUME NEW c \in Calls, st[c] \in Terminal, listens[home[c]]
                 PROVE  completed'[c] # "none" \/ c \in processed
      BY <1>4, <2>2 DEF Reported, Report, Update
    <3>1. completed' = [x \in Calls |-> IF x \in Ended(o, st) THEN st[x]
                                        ELSE completed[x]]
      BY <1>4, <2>2 DEF Reported, Report, Update
    <3>2. CASE home[c] # o
      BY <1>4, <3>1, <3>2 DEF Reported, Terminal
    <3>3. CASE home[c] = o
      <4>1. pending[c] # st[c]
        BY DEF Kept, Live, Terminal
      <4>2. c \in processed \/ completed[c] # "none" \/ c \in Ended(o, st)
        BY <3>3, <4>1 DEF Ended, Fresh, Changed, Of, Terminal
      <4> QED
        BY <3>1, <4>2 DEF Terminal
    <3> QED
      BY <3>2, <3>3
  <2> QED
    BY <2>1, <2>2
<1>5. ASSUME NEW e \in Requests, StreamErrs(e) \/ Fail(e)
      PROVE  NoResultLost'
  <2>1. on[e] \in Tasks
    BY <1>5 DEF StreamErrs, Fail, Owned
  <2> QED
    BY <1>5, <2>1, <1>2 DEF StreamErrs, Fail
<1>6. ASSUME NEW e \in Requests, SendResults(e) \/ Finish(e)
      PROVE  NoResultLost'
  BY <1>6, <1>3 DEF SendResults, Finish
<1>7. CASE CancelTask
  <2>1. cached \in Tasks
    BY <1>7 DEF CancelTask, Owned
  <2> QED
    BY <1>7, <2>1, <1>2 DEF CancelTask
<1>8. CASE Restart
  BY <1>8 DEF Restart, Terminal
<1>9. CASE Scheduling
  BY <1>9, <1>4, SchedulingReports
<1>10. ASSUME NEW e \in Requests, StreamEnds(e)
       PROVE  NoResultLost'
  <2>1. CASE UNCHANGED taskVars
    BY <2>1, <1>1 DEF taskVars
  <2>2. ASSUME NEW new \in SUBSET (Calls \ Asked), Schedule(on[e], e, new)
        PROVE  NoResultLost'
    BY <2>2 DEF Schedule, Terminal, Kept, Owned
  <2> QED
    BY <1>10, <2>1, <2>2, StreamSchedules
<1>11. ASSUME NEW e \in Requests, Load(e)
       PROVE  NoResultLost'
  <2>1. PICK o \in Tasks \ loaded : listens' = [listens EXCEPT ![o] = TRUE]
    BY <1>11 DEF Load
  <2>2. UNCHANGED <<completed, processed, status, home>>
    BY <1>11 DEF Load
  <2>3. \A c \in Calls : status[c] \in Terminal =>
          home[c] # o /\ home[c] \in Tasks
    BY DEF Owned, Terminal
  <2> QED
    BY <2>1, <2>2, <2>3 DEF Kept
<1>12. ASSUME NEW o, listens' = [listens EXCEPT ![o] = FALSE],
              UNCHANGED <<completed, processed, status, home>>
       PROVE  NoResultLost'
  <2>1. \A c \in Calls : status[c] \in Terminal => home[c] \in Tasks
    BY DEF Owned, Terminal
  <2> QED
    BY <1>12, <2>1 DEF Kept
<1>13. ASSUME NEW e \in Requests, SocketEnds(e)
       PROVE  NoResultLost'
  BY <1>13 DEF SocketEnds, Terminal, Kept
<1>14. ASSUME NEW e \in Requests,
              Arrive(e) \/ LoadFails(e) \/ Created(e) \/ Ignore(e)
              \/ AcceptText(e) \/ AcceptConfirmation(e) \/ AsideEnds(e)
              \/ BeginWait(e)
       PROVE  NoResultLost'
  BY <1>14, <1>1 DEF Arrive, LoadFails, Created, Ignore, AcceptText,
     AcceptConfirmation, Confirm, AsideEnds, BeginWait, taskVars
<1>15. ASSUME NEW e \in Requests, Saved(e)
       PROVE  NoResultLost'
  BY <1>15, <1>1, <1>12 DEF Saved
<1>16. CASE CancelSaved
  BY <1>16, <1>12 DEF CancelSaved
<1>17. CASE UNCHANGED vars
  BY <1>17, <1>1 DEF vars, taskVars
<1> QED
  BY <1>5, <1>6, <1>7, <1>8, <1>9, <1>10, <1>11, <1>13, <1>14, <1>15, <1>16,
     <1>17 DEF Next, Runs, Execute

-----------------------------------------------------------------------------
(* The promise: whoever waits for it waits for calls of its task.          *)
LEMMA ReportAwaits ==
  ASSUME Marked, Kept, Owned, Awaited, NEW o \in Tasks,
         NEW st \in [Calls -> Statuses], Reported(o, st)
  PROVE  Awaited'
<1>1. UNCHANGED <<home, on, pc>>
  BY DEF Reported, executorVars
<1>2. CASE ~listens[o]
  BY <1>1, <1>2 DEF Reported, Report, Awaited, Pending, Of, mapVars
<1>3. CASE listens[o]
  <2> SUFFICES ASSUME NEW e \in Requests, wait'[e][2] = "open"
               PROVE  /\ pc[e] = "waiting" /\ wait'[e][1] = on[e]
                      /\ Pending(on[e])' # {} /\ promise'[on[e]] = "open"
    BY <1>1 DEF Awaited
  <2>1. /\ pending' = Registered(o, st)
        /\ promise' = [promise EXCEPT ![o] =
                         IF Settles(o, st) THEN "resolved"
                         ELSE IF Opens(o, st) THEN "open" ELSE @]
        /\ wait' = IF Settles(o, st) THEN Settled(o, "resolved") ELSE wait
    BY <1>3 DEF Reported, Report, Update
  <2>2. wait[e][2] = "open" /\ wait'[e] = wait[e]
    BY <2>1 DEF Settled, Kept
  <2>3. /\ pc[e] = "waiting" /\ wait[e][1] = on[e]
        /\ Pending(on[e]) # {} /\ promise[on[e]] = "open"
    BY <2>2 DEF Awaited
  <2>4. on[e] \in Tasks
    BY <2>3 DEF Owned
  <2>5. CASE on[e] # o
    <3>1. \A c \in Of(on[e]) : pending'[c] = pending[c]
      BY <2>1, <2>5 DEF Registered, Ended, Fresh, Of, Kept
    <3>2. Pending(on[e])' # {}
      BY <1>1, <2>3, <3>1 DEF Pending, Of
    <3> QED
      BY <2>1, <2>2, <2>3, <2>5, <3>2 DEF Kept
  <2>6. CASE on[e] = o
    <3>1. ~Settles(o, st)
      <4>1. wait[e] = <<o, "open">>
        BY <2>2, <2>3, <2>6 DEF Kept
      <4>2. Settles(o, st) => wait'[e] = <<o, "resolved">>
        BY <2>1, <4>1 DEF Settled
      <4> QED
        BY <2>2, <4>1, <4>2
    <3>2. \E c \in Of(o) : Registered(o, st)[c] # "none"
      BY <2>3, <2>6, <3>1 DEF Settles
    <3>3. Pending(on[e])' # {}
      BY <1>1, <2>1, <2>6, <3>2 DEF Pending, Of
    <3>4. promise'[on[e]] = "open"
      BY <2>1, <2>3, <2>6, <3>1 DEF Kept
    <3> QED
      BY <2>2, <2>3, <3>3, <3>4
  <2> QED
    BY <2>5, <2>6
<1> QED
  BY <1>2, <1>3

LEMMA CancelAwaits ==
  ASSUME Marked, Kept, Owned, Awaited, NEW o \in Tasks, NEW left,
         CancelPending(o, left), UNCHANGED on,
         \A e \in Requests : e # left => pc'[e] = pc[e]
  PROVE  Awaited'
<1> SUFFICES ASSUME NEW e \in Requests, wait'[e][2] = "open"
             PROVE  /\ pc'[e] = "waiting" /\ wait'[e][1] = on[e]
                    /\ Pending(on[e])' # {} /\ promise'[on[e]] = "open"
  BY DEF Awaited
<1>1. wait' = [x \in Requests |-> IF x = left THEN <<Nobody, "none">>
                                  ELSE Settled(o, "rejected")[x]]
  BY DEF CancelPending
<1>2. e # left /\ wait'[e] = wait[e] /\ wait[e] # <<o, "open">>
  BY <1>1 DEF Settled
<1>3. /\ pc[e] = "waiting" /\ wait[e][1] = on[e]
      /\ Pending(on[e]) # {} /\ promise[on[e]] = "open"
  BY <1>2 DEF Awaited
<1>4. on[e] # o
  BY <1>2, <1>3 DEF Kept
<1>5. Pending(on[e])' # {}
  <2>1. \A c \in Of(on[e]) : pending'[c] = pending[c]
    BY <1>4 DEF CancelPending, Without, Of
  <2>2. UNCHANGED home
    BY DEF CancelPending
  <2> QED
    BY <1>3, <2>1, <2>2 DEF Pending, Of
<1>6. promise'[on[e]] = "open"
  BY <1>3, <1>4 DEF CancelPending, Kept
<1> QED
  BY <1>2, <1>3, <1>5, <1>6

LEMMA AwaitedStays ==
  ASSUME Marked, Kept, Owned, Awaited, [Next]_vars
  PROVE  Awaited'
<1> USE DEF mapVars, schedulerVars
<1> pc \in [Requests -> Places] /\ on \in [Requests -> loaded \cup {Nobody}]
  BY DEF Marked, Owned
(* Nothing happens to those who wait.                                      *)
<1>1. ASSUME UNCHANGED <<wait, promise, pending, home>>,
             \A e \in Requests :
               pc[e] = "waiting" => pc'[e] = pc[e] /\ on'[e] = on[e]
      PROVE  Awaited'
  BY <1>1 DEF Awaited, Pending, Of
<1>2. ASSUME NEW e \in Requests,
             Arrive(e) \/ Load(e) \/ LoadFails(e) \/ Created(e) \/ Ignore(e)
             \/ AsideEnds(e)
      PROVE  Awaited'
  <2>1. UNCHANGED <<wait, promise, pending, home>>
    BY <1>2 DEF Arrive, Load, LoadFails, Created, Ignore, AsideEnds, taskVars
  <2>2. \A x \in Requests :
          pc[x] = "waiting" => pc'[x] = pc[x] /\ on'[x] = on[x]
    BY <1>2 DEF Arrive, Load, LoadFails, Created, Ignore, AsideEnds
  <2> QED
    BY <2>1, <2>2, <1>1
<1>3. ASSUME NEW e \in Requests, AcceptText(e) \/ Saved(e) \/ SocketEnds(e)
      PROVE  Awaited'
  <2>1. UNCHANGED <<wait, promise, pending, home>>
    BY <1>3 DEF AcceptText, Saved, SocketEnds
  <2>2. \A x \in Requests :
          pc[x] = "waiting" => pc'[x] = pc[x] /\ on'[x] = on[x]
    BY <1>3 DEF AcceptText, Admitted, Saved, SocketEnds
  <2> QED
    BY <2>1, <2>2, <1>1
<1>4. ASSUME NEW e \in Requests, AcceptConfirmation(e)
      PROVE  Awaited'
  <2>1. \A x \in Requests :
          pc[x] = "waiting" => pc'[x] = pc[x] /\ on'[x] = on[x]
    BY <1>4 DEF AcceptConfirmation, Admitted
  <2>2. CASE UNCHANGED taskVars
    BY <2>1, <2>2, <1>1 DEF taskVars
  <2>3. ASSUME NEW c \in Calls, NEW a \in {"agreed", "refused"},
               Confirm(on[e], c, a)
        PROVE  Awaited'
    <3> DEFINE o == on[e]
    <3>1. /\ wait' = Settled(o, "orphaned") /\ UNCHANGED <<pending, home>>
          /\ promise' = [promise EXCEPT ![o] =
                           IF Pending(o) = {} THEN "resolved" ELSE "open"]
      BY <2>3 DEF Confirm, ResetPromise
    <3> SUFFICES ASSUME NEW x \in Requests, wait'[x][2] = "open"
                 PROVE  /\ pc'[x] = "waiting" /\ wait'[x][1] = on'[x]
                        /\ Pending(on[x])' # {} /\ promise'[on'[x]] = "open"
      BY DEF Awaited
    <3>2. wait'[x] = wait[x] /\ wait[x] # <<o, "open">>
      BY <3>1 DEF Settled
    <3>3. /\ pc[x] = "waiting" /\ wait[x][1] = on[x]
          /\ Pending(on[x]) # {} /\ promise[on[x]] = "open"
      BY <3>2 DEF Awaited
    <3>4. on[x] # o
      BY <3>2, <3>3 DEF Kept
    <3>5. on'[x] = on[x] /\ pc'[x] = "waiting"
      BY <2>1, <3>3
    <3>6. Pending(on[x])' # {}
      BY <3>1, <3>3, <3>5 DEF Pending, Of
    <3> QED
      BY <3>1, <3>2, <3>3, <3>4, <3>5, <3>6 DEF Kept
  <2> QED
    BY <1>4, <2>2, <2>3 DEF AcceptConfirmation
<1>5. ASSUME NEW e \in Requests, StreamEnds(e)
      PROVE  Awaited'
  <2>1. UNCHANGED on /\ \A x \in Requests :
                          pc[x] = "waiting" => pc'[x] = pc[x]
    BY <1>5 DEF StreamEnds
  <2>2. CASE UNCHANGED taskVars
    BY <2>1, <2>2, <1>1 DEF taskVars
  <2>3. ASSUME NEW new \in SUBSET (Calls \ Asked), Schedule(on[e], e, new)
        PROVE  Awaited'
    <3>1. \A c \in Calls \ new : home'[c] = home[c] /\ pending'[c] = pending[c]
      BY <2>3 DEF Schedule, Owned, Kept
    <3>2. \A c \in new : home[c] = Nobody
      BY DEF Asked, Owned
    <3>3. UNCHANGED wait /\ \A o \in Tasks :
                              promise[o] = "open" => promise'[o] = "open"
      BY <2>3 DEF Schedule, Kept
    <3> SUFFICES ASSUME NEW x \in Requests, wait[x][2] = "open"
                 PROVE  /\ pc'[x] = "waiting" /\ wait[x][1] = on[x]
                        /\ Pending(on[x])' # {} /\ promise'[on[x]] = "open"
      BY <2>1, <3>3 DEF Awaited
    <3>4. /\ pc[x] = "waiting" /\ wait[x][1] = on[x]
          /\ Pending(on[x]) # {} /\ promise[on[x]] = "open"
      BY DEF Awaited
    <3>5. on[x] \in Tasks
      BY <3>4 DEF Owned
    <3>6. \A c \in Pending(on[x]) : c \notin new
      BY <3>2, <3>5, TaskAssumption DEF Pending, Of
    <3>7. Pending(on[x])' # {}
      BY <2>1, <3>1, <3>4, <3>6 DEF Pending, Of
    <3> QED
      BY <2>1, <3>3, <3>4, <3>5, <3>7
  <2> QED
    BY <1>5, <2>2, <2>3, StreamSchedules
<1>6. ASSUME NEW e \in Requests, StreamErrs(e) \/ Fail(e)
      PROVE  Awaited'
  <2>1. on[e] \in Tasks
    BY <1>6 DEF StreamErrs, Fail, Owned
  <2>2. CancelPending(on[e], e) /\ UNCHANGED on
    BY <1>6 DEF StreamErrs, Fail, Leave
  <2>3. \A x \in Requests : x # e => pc'[x] = pc[x]
    BY <1>6 DEF StreamErrs, Fail, Leave
  <2> QED
    BY <2>1, <2>2, <2>3, CancelAwaits
<1>7. ASSUME NEW e \in Requests, BeginWait(e)
      PROVE  Awaited'
  <2>1. /\ wait' = [wait EXCEPT ![e] =
                      <<on[e], IF Pending(on[e]) = {} THEN "resolved"
                               ELSE promise[on[e]]>>]
        /\ pc' = [pc EXCEPT ![e] = "waiting"]
        /\ UNCHANGED <<promise, pending, home, on>>
    BY <1>7 DEF BeginWait, WaitFor
  <2>2. Pending(on[e])' = Pending(on[e])
    BY <2>1 DEF Pending, Of
  <2> QED
    BY <2>1, <2>2 DEF Awaited, Kept, Pending, Of
<1>8. ASSUME NEW e \in Requests, SendResults(e) \/ Finish(e)
      PROVE  Awaited'
  <2>1. /\ wait' = [wait EXCEPT ![e] = <<Nobody, "none">>]
        /\ UNCHANGED <<promise, pending, home, on>>
    BY <1>8 DEF SendResults, Finish, Leave
  <2>2. \A x \in Requests : x # e => pc'[x] = pc[x]
    BY <1>8 DEF SendResults, Finish, Leave
  <2> QED
    BY <2>1, <2>2 DEF Awaited, Kept, Pending, Of
<1>9. CASE CancelTask
  <2>1. cached \in Tasks /\ Nobody \notin Tasks
    BY <1>9, TaskAssumption DEF CancelTask, Owned
  <2> QED
    BY <1>9, <2>1, CancelAwaits DEF CancelTask
<1>10. CASE CancelSaved
  BY <1>10, <1>1 DEF CancelSaved
<1>11. CASE Restart
  BY <1>11 DEF Restart, Awaited
<1>12. CASE Scheduling
  BY <1>12, SchedulingReports, ReportAwaits
<1>13. CASE UNCHANGED vars
  BY <1>13, <1>1 DEF vars, taskVars, executorVars
<1> QED
  BY <1>2, <1>3, <1>4, <1>5, <1>6, <1>7, <1>8, <1>9, <1>10, <1>11, <1>12,
     <1>13 DEF Next, Runs, Execute

-----------------------------------------------------------------------------
(* Calls that are pending will be heard of.                                *)
LEMMA ReportHears ==
  ASSUME Kept, Owned, Heard, NEW o \in Tasks, NEW st \in [Calls -> Statuses],
         Reported(o, st)
  PROVE  Heard'
<1> USE DEF mapVars
<1>1. /\ UNCHANGED <<home, listens, processed>> /\ status' = st
  BY DEF Reported, Report, Update
<1>2. ASSUME NEW c \in Calls, st[c] \in AtWork
      PROVE  work'[c] # "none"
  BY <1>2 DEF Reported, Heard
<1>3. ASSUME NEW c \in Calls,
             IF c \in Of(o) /\ listens[o]
             THEN /\ pending'[c] = Registered(o, st)[c]
                  /\ completed'[c] = IF c \in Ended(o, st) THEN st[c] ELSE completed[c]
             ELSE pending'[c] = pending[c] /\ completed'[c] = completed[c]
      PROVE  /\ home[c] = Nobody => completed'[c] = "none" /\ c \notin processed
             /\ pending'[c] # "none" /\ listens[home[c]] =>
                  /\ st[c] \in Live \cup {"queued", "rejected"}
                  /\ completed'[c] = "none" /\ c \notin processed
  <2>1. CASE c \notin Of(o)
    BY <1>3, <2>1 DEF Heard, Reported, Of
  <2>2. CASE c \in Of(o) /\ ~listens[o]
    BY <1>3, <2>2, TaskAssumption DEF Heard, Of
  <2>3. CASE c \in Of(o) /\ listens[o]
    <3>1. home[c] = o /\ o # Nobody
      BY <2>3, TaskAssumption DEF Of
    <3>2. CASE c \in Fresh(o, st)
      <4>1. st[c] \in Live \cup Terminal
        BY <3>2 DEF Fresh, Statuses, Live, Terminal
      <4>2. CASE st[c] \in Terminal
        <5>1. c \in Ended(o, st)
          BY <3>2, <4>2 DEF Ended, Changed, Kept, Live, Terminal
        <5> QED
          BY <1>3, <2>3, <3>1, <5>1 DEF Registered
      <4>3. CASE st[c] \in Live
        <5>1. c \notin Ended(o, st)
          BY <4>3 DEF Ended, Live, Terminal
        <5> QED
          BY <1>3, <2>3, <3>1, <3>2, <4>3, <5>1 DEF Fresh
      <4> QED
        BY <4>1, <4>2, <4>3
    <3>3. CASE c \notin Fresh(o, st)
      <4>1. c \notin Ended(o, st)
        BY <3>3 DEF Ended
      <4>2. pending'[c] = pending[c] /\ completed'[c] = completed[c]
        BY <1>3, <2>3, <3>3, <4>1 DEF Registered
      <4>3. pending[c] # "none" => st[c] \in {"none", "queued", "rejected", "lost"}
        BY <2>3, <3>1, <3>3 DEF Fresh, Heard
      <4>4. pending[c] # "none" => status[c] = st[c]
        BY <4>3 DEF Reported
      <4> QED
        BY <3>1, <2>3, <4>2, <4>4 DEF Heard
    <3> QED
      BY <3>2, <3>3
  <2> QED
    BY <2>1, <2>2, <2>3
<1>4. CASE ~listens[o]
  BY <1>1, <1>2, <1>3, <1>4 DEF Reported, Report, Heard
<1>5. CASE listens[o]
  <2>1. /\ pending' = Registered(o, st)
        /\ completed' = [c \in Calls |-> IF c \in Ended(o, st) THEN st[c]
                                         ELSE completed[c]]
    BY <1>5 DEF Reported, Report, Update
  <2>2. \A c \in Calls : c \notin Of(o) => c \notin Fresh(o, st) /\ c \notin Ended(o, st)
    BY DEF Fresh, Ended
  <2>3. \A c \in Calls : c \notin Of(o) => Registered(o, st)[c] = pending[c]
    BY <2>2 DEF Registered
  <2> QED
    BY <1>1, <1>2, <1>3, <1>5, <2>1, <2>2, <2>3 DEF Heard
<1> QED
  BY <1>4, <1>5

LEMMA HeardStays ==
  ASSUME Kept, Owned, Heard, [Next]_vars
  PROVE  Heard'
<1> USE DEF mapVars, schedulerVars
<1>1. CASE UNCHANGED <<completed, processed, pending, status, work, home, listens>>
  BY <1>1 DEF Heard
<1>2. ASSUME NEW o \in Tasks, NEW left, CancelPending(o, left)
      PROVE  Heard'
  BY <1>2, TaskAssumption
  DEF CancelPending, Cancellable, Without, Of, Kept, Heard, AtWork, Live
<1>3. ASSUME NEW o \in Tasks, TakeCompleted(o), UNCHANGED <<pending, listens, schedulerVars>>
      PROVE  Heard'
  BY <1>3, TaskAssumption DEF TakeCompleted, Completed, Without, Of, Kept, Heard
<1>5. ASSUME NEW e \in Requests, StreamErrs(e) \/ Fail(e)
      PROVE  Heard'
  <2>1. on[e] \in Tasks
    BY <1>5 DEF StreamErrs, Fail, Owned
  <2> QED
    BY <1>5, <2>1, <1>2 DEF StreamErrs, Fail
<1>6. ASSUME NEW e \in Requests, SendResults(e) \/ Finish(e)
      PROVE  Heard'
  <2>1. on[e] \in Tasks
    BY <1>6 DEF SendResults, Finish, Resumed, Owned
  <2> QED
    BY <1>6, <1>3, <2>1 DEF SendResults, Finish
<1>7. CASE CancelTask
  <2>1. cached \in Tasks
    BY <1>7 DEF CancelTask, Owned
  <2> QED
    BY <1>7, <2>1, <1>2 DEF CancelTask
<1>8. CASE Restart
  BY <1>8 DEF Restart, Heard, AtWork
<1>9. CASE Scheduling
  BY <1>9, SchedulingReports, ReportHears
<1>10. ASSUME NEW e \in Requests, StreamEnds(e)
       PROVE  Heard'
  <2>1. CASE UNCHANGED taskVars
    BY <2>1, <1>1 DEF taskVars
  <2>2. ASSUME NEW new \in SUBSET (Calls \ Asked), Schedule(on[e], e, new)
        PROVE  Heard'
    <3>1. \A c \in new : home[c] = Nobody /\ work[c] = "none"
      BY DEF Asked, Owned
    <3> DEFINE o == on[e]
               s == IF Busy(o) THEN "queued" ELSE "validating"
    <3>2. /\ home' = [c \in Calls |-> IF c \in new THEN o ELSE home[c]]
          /\ status' = [c \in Calls |-> IF c \in new THEN s ELSE status[c]]
          /\ work' = [c \in Calls |-> IF c \in new /\ ~Busy(o) THEN "checks"
                                       ELSE work[c]]
          /\ \A c \in Calls \ new : pending'[c] = pending[c]
          /\ UNCHANGED <<listens, completed, processed>>
      BY <2>2 DEF Schedule
    <3>3. ASSUME NEW c \in new
          PROVE  /\ completed[c] = "none" /\ c \notin processed
                 /\ status'[c] \in AtWork => work'[c] # "none"
                 /\ status'[c] \in {"queued", "validating"}
                 /\ home'[c] = o
      BY <3>1, <3>2 DEF Heard, AtWork
    <3> HIDE DEF o, s
    <3> QED
      BY <3>2, <3>3 DEF Heard, Live
  <2> QED
    BY <1>10, <2>1, <2>2, StreamSchedules
<1>11. ASSUME NEW e \in Requests, Load(e)
       PROVE  Heard'
  <2>1. PICK o \in Tasks \ loaded : listens' = [listens EXCEPT ![o] = TRUE]
    BY <1>11 DEF Load
  <2>2. UNCHANGED <<completed, processed, pending, status, work, home>>
    BY <1>11 DEF Load
  <2>3. \A c \in Calls : pending[c] # "none" => home[c] # o /\ home[c] \in Tasks
    BY DEF Owned
  <2> QED
    BY <2>1, <2>2, <2>3 DEF Kept, Heard
<1>12. ASSUME NEW o, listens' = [listens EXCEPT ![o] = FALSE],
              UNCHANGED <<completed, processed, pending, status, work, home>>
       PROVE  Heard'
  <2>1. \A c \in Calls : pending[c] # "none" => home[c] \in Tasks
    BY DEF Owned
  <2> QED
    BY <1>12, <2>1 DEF Kept, Heard
<1>13. ASSUME NEW e \in Requests, SocketEnds(e)
       PROVE  Heard'
  BY <1>13 DEF SocketEnds, Kept, Heard, AtWork
<1>14. ASSUME NEW e \in Requests,
              Arrive(e) \/ LoadFails(e) \/ Created(e) \/ Ignore(e)
              \/ AcceptText(e) \/ AsideEnds(e) \/ BeginWait(e)
       PROVE  Heard'
  BY <1>14, <1>1 DEF Arrive, LoadFails, Created, Ignore, AcceptText,
     AsideEnds, BeginWait, taskVars
<1>15. ASSUME NEW e \in Requests, AcceptConfirmation(e)
       PROVE  Heard'
  <2>1. CASE UNCHANGED taskVars
    BY <2>1, <1>1 DEF taskVars
  <2>2. ASSUME NEW c \in Calls, NEW a \in {"agreed", "refused"}, Confirm(on[e], c, a)
        PROVE  Heard'
    BY <2>2 DEF Confirm, Kept, Heard
  <2> QED
    BY <1>15, <2>1, <2>2 DEF AcceptConfirmation
<1>16. ASSUME NEW e \in Requests, Saved(e)
       PROVE  Heard'
  BY <1>16, <1>1, <1>12 DEF Saved
<1>17. CASE CancelSaved
  BY <1>17, <1>12 DEF CancelSaved
<1>18. CASE UNCHANGED vars
  BY <1>18, <1>1 DEF vars, taskVars
<1> QED
  BY <1>5, <1>6, <1>7, <1>8, <1>9, <1>10, <1>11, <1>13, <1>14, <1>15, <1>16,
     <1>17, <1>18 DEF Next, Runs, Execute

-----------------------------------------------------------------------------
LEMMA TaskInvariant ==
  Spec => [](Marked /\ Kept /\ Owned /\ Counted /\ NoResultLost /\ Awaited /\ Heard)
<1>1. Init => Marked /\ Kept /\ Owned /\ Counted /\ NoResultLost /\ Awaited /\ Heard
  <2> USE DEF Init, TaskInit
  <2>1. Init => Marked
    BY DEF Marked, Places, Primary
  <2>2. Init => Kept
    BY DEF Kept, Statuses
  <2>3. Init => Owned /\ Counted /\ NoResultLost /\ Awaited /\ Heard
    BY DEF Owned, Counted, NoResultLost, Awaited, Heard, AtWork, Terminal
  <2> QED
    BY <2>1, <2>2, <2>3
<1>2. Marked /\ Kept /\ Owned /\ Counted /\ NoResultLost /\ Awaited /\ Heard
      /\ [Next]_vars
      => Marked' /\ Kept' /\ Owned' /\ Counted' /\ NoResultLost' /\ Awaited' /\ Heard'
  BY MarkedStays, KeptStays, OwnedStays, CountedStays, RecordedStays,
     AwaitedStays, HeardStays
<1> QED
  BY <1>1, <1>2, PTL DEF Spec

(* No result of a tool is told to the model twice, though the scheduler    *)
(* repeats the end of a call in later updates, and ends cancelled calls    *)
(* again (processedToolCallIds, completedToolCalls).                       *)
THEOREM EachToldOnce == Spec => []ResultsOnce
<1>1. Counted => ResultsOnce
  BY DEF Counted, ResultsOnce
<1> QED
  BY <1>1, TaskInvariant, PTL

(* No result of a call whose task listens is lost, whatever is cancelled,  *)
(* confirmed or scheduled meanwhile (handleEventDrivenToolCall).           *)
THEOREM ResultsKept == Spec => []NoResultLost
  BY TaskInvariant, PTL

(* Whoever waits for the present promise of a task that was not disposed   *)
(* of waits for calls of which each can still end and will be heard of: no *)
(* wakeup is lost while the server does not exit (waitForPendingTools).    *)
THEOREM NoWakeupLost == Spec => []WaitsForSomething
<1>1. Kept /\ Owned /\ Awaited /\ Heard => WaitsForSomething
  <2> SUFFICES ASSUME Kept, Owned, Awaited, Heard, NEW e \in Requests, pc[e] = "waiting",
                      wait[e][2] = "open", ~Exits, listens[on[e]]
               PROVE  /\ promise[on[e]] = "open" /\ Pending(on[e]) # {}
                      /\ \A c \in Pending(on[e]) : MayEnd(c) /\ c \notin processed
    BY DEF WaitsForSomething
  <2>1. promise[on[e]] = "open" /\ Pending(on[e]) # {}
    BY DEF Awaited
  <2>2. ASSUME NEW c \in Pending(on[e])
        PROVE  MayEnd(c) /\ c \notin processed
    <3>1. c \in Calls /\ home[c] = on[e] /\ pending[c] # "none"
      BY <2>2 DEF Pending, Of
    <3>2. status[c] \in Live \cup {"queued", "rejected"} /\ c \notin processed
      BY <3>1 DEF Heard
    <3>3. status[c] # "rejected"
      BY <3>1 DEF Exits
    <3> QED
      BY <3>1, <3>2, <3>3 DEF Heard, MayEnd, Live, AtWork
  <2> QED
    BY <2>1, <2>2
<1> QED
  BY <1>1, TaskInvariant, PTL

-----------------------------------------------------------------------------
(* What the task notes of calls and states, and what is stored.            *)
Noted ==
  /\ taskState \in [Tasks -> TaskStates]
  /\ confirmed \subseteq Calls /\ details \subseteq Calls
  /\ correlation \subseteq Calls
  /\ by \in [Calls -> Requests \cup {Nobody}]
  /\ stored \in TaskStates \cup {"none"}
  /\ aborted \in [Requests -> BOOLEAN]

LEMMA NotedInSchedule ==
  ASSUME Noted, Scheduling
  PROVE  Noted'
<1> USE DEF Noted
<1>1. /\ UNCHANGED <<by, stored, aborted>>
      /\ \E o, st : Report(o, st)
  BY DEF Scheduling, executorVars, StartQueued, RunWave, CallStep, Checked,
         Decided, CheckAborted, ToolReturns
<1>2. PICK o, st : Report(o, st)
  BY <1>1
<1>3. CASE ~listens[o]
  BY <1>1, <1>2, <1>3 DEF Report, mapVars
<1>4. CASE listens[o]
  <2>1. Update(o, st)
    BY <1>2, <1>4 DEF Report
  <2>2. Fresh(o, st) \subseteq Calls
    BY DEF Fresh, Of
  <2>3. taskState' \in [Tasks -> TaskStates]
    BY <2>1 DEF Update, TaskStates
  <2>4. /\ confirmed' \subseteq Calls /\ details' \subseteq Calls
        /\ correlation' \subseteq Calls
    BY <2>1, <2>2 DEF Update
  <2> QED
    BY <1>1, <2>3, <2>4
<1> QED
  BY <1>3, <1>4

LEMMA CancelNotes ==
  ASSUME Noted, NEW o, NEW left, CancelPending(o, left)
  PROVE  /\ confirmed' \subseteq Calls /\ details' \subseteq Calls
         /\ correlation' \subseteq Calls /\ UNCHANGED by
         /\ AfterCancel(o) \in {"input-required", taskState[o]}
<1>1. SeenAgain(o) \subseteq Calls
  BY DEF SeenAgain, Cancellable, Of
<1> QED
  BY <1>1 DEF Noted, CancelPending, AfterCancel

LEMMA NotedStays ==
  ASSUME Kept, Owned, Noted, [Next]_vars
  PROVE  Noted'
<1> USE DEF Noted, mapVars, schedulerVars
<1>1. ASSUME NEW e \in Requests,
             Arrive(e) \/ LoadFails(e) \/ Ignore(e) \/ AsideEnds(e)
             \/ BeginWait(e) \/ Saved(e) \/ SocketEnds(e)
      PROVE  Noted'
  BY <1>1 DEF Arrive, LoadFails, Ignore, AsideEnds, BeginWait, Saved,
              SocketEnds, taskVars
<1>2. ASSUME NEW e \in Requests, Load(e) \/ Created(e) \/ AcceptText(e)
      PROVE  Noted'
  BY <1>2 DEF Load, Created, AcceptText, AcceptFrame, TaskStates, taskVars
<1>3. ASSUME NEW e \in Requests, AcceptConfirmation(e)
      PROVE  Noted'
  <2>1. UNCHANGED <<stored, aborted>>
    BY <1>3 DEF AcceptConfirmation, AcceptFrame
  <2>2. CASE UNCHANGED taskVars
    BY <2>1, <2>2 DEF taskVars
  <2>3. ASSUME NEW c \in Calls, NEW a, Confirm(on[e], c, a)
        PROVE  Noted'
    BY <2>1, <2>3 DEF Confirm, TaskStates
  <2> QED
    BY <1>3, <2>2, <2>3 DEF AcceptConfirmation
<1>4. ASSUME NEW e \in Requests, StreamEnds(e)
      PROVE  Noted'
  <2>1. UNCHANGED <<stored, aborted>>
    BY <1>4 DEF StreamEnds
  <2>2. CASE UNCHANGED taskVars
    BY <2>1, <2>2 DEF taskVars
  <2>3. ASSUME NEW new \in SUBSET (Calls \ Asked), Schedule(on[e], e, new)
        PROVE  Noted'
    BY <2>1, <2>3 DEF Schedule, TaskStates
  <2> QED
    BY <1>4, <2>2, <2>3, StreamSchedules
<1>5. ASSUME NEW e \in Requests, StreamErrs(e) \/ Fail(e)
      PROVE  Noted'
  <2>1. on[e] \in Tasks /\ CancelPending(on[e], e)
    BY <1>5 DEF StreamErrs, Fail, Owned
  <2>2. /\ confirmed' \subseteq Calls /\ details' \subseteq Calls
        /\ correlation' \subseteq Calls /\ UNCHANGED by
        /\ AfterCancel(on[e]) \in {"input-required", taskState[on[e]]}
    BY <2>1, CancelNotes
  <2>3. AfterCancel(on[e]) \in TaskStates
    BY <2>1, <2>2 DEF TaskStates
  <2>4. taskState' \in [Tasks -> TaskStates] /\ UNCHANGED aborted
    BY <1>5, <2>3 DEF StreamErrs, Fail, Leave, TaskStates
  <2>5. stored' \in TaskStates \cup {"none"}
    BY <1>5, <2>1, <2>4 DEF StreamErrs, Fail, Leave
  <2> QED
    BY <2>2, <2>4, <2>5
<1>6. ASSUME NEW e \in Requests, SendResults(e) \/ Finish(e)
      PROVE  Noted'
  <2>1. on[e] \in Tasks
    BY <1>6 DEF SendResults, Finish, Resumed, Owned
  <2>2. /\ UNCHANGED <<confirmed, details, correlation, by, aborted>>
        /\ taskState' \in [Tasks -> TaskStates]
    BY <1>6 DEF SendResults, Finish, Leave, TaskStates
  <2>3. stored' \in TaskStates \cup {"none"}
    BY <1>6, <2>1, <2>2 DEF SendResults, Finish, Leave
  <2> QED
    BY <2>2, <2>3
<1>7. CASE CancelTask
  <2>1. CancelPending(cached, Nobody)
    BY <1>7 DEF CancelTask
  <2>2. /\ confirmed' \subseteq Calls /\ details' \subseteq Calls
        /\ correlation' \subseteq Calls /\ UNCHANGED by
    BY <2>1, CancelNotes
  <2> QED
    BY <1>7, <2>2 DEF CancelTask, TaskStates
<1>8. CASE CancelSaved
  BY <1>8 DEF CancelSaved
<1>9. CASE Restart
  BY <1>9 DEF Restart, TaskStates
<1>10. CASE UNCHANGED vars
  BY <1>10 DEF vars, taskVars, executorVars
<1> QED
  BY <1>1, <1>2, <1>3, <1>4, <1>5, <1>6, <1>7, <1>8, <1>9, <1>10,
     NotedInSchedule DEF Next, Runs, Execute

(* Every variable keeps its type, across cancellation, eviction and        *)
(* restarts of the server: a task pends only on calls that may still end,  *)
(* and keeps only ends that are ends (agent/task.ts, agent/executor.ts).   *)
THEOREM TaskTypes == Spec => []TypeOK
<1>1. Init => Noted
  BY DEF Init, TaskInit, Noted, TaskStates
<1>2. Noted /\ Kept /\ Owned /\ [Next]_vars => Noted'
  BY NotedStays
<1>3. Kept /\ Owned /\ Noted => TypeOK
  BY DEF Kept, Owned, Noted, TypeOK
<1> QED
  BY <1>1, <1>2, <1>3, TaskInvariant, PTL DEF Spec
=============================================================================
