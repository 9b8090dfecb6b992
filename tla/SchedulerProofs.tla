-------------------------- MODULE SchedulerProofs --------------------------
(***************************************************************************)
(* What TLAPS proves of the scheduler, for any number of jobs, calls,      *)
(* signals and tools, in four parts: types, and that a call is in one      *)
(* place at a time; how often a call is reported; what callers of          *)
(* schedule() get; and what a call may do, and when.                       *)
(***************************************************************************)
EXTENDS SchedulerProperties, TLAPS

-----------------------------------------------------------------------------
(* What the operators of the store return.                                 *)

LEMMA RangeOfSeq ==
  ASSUME NEW S, NEW s \in Seq(S)
  PROVE  Range(s) \in SUBSET S /\ \A i \in 1..Len(s) : s[i] \in S
BY DEF Range

LEMMA UpdatedType ==
  ASSUME NEW st \in [Calls -> Statuses], NEW S, NEW new \in Statuses
  PROVE  Updated(st, S, new) \in [Calls -> Statuses]
BY DEF Updated

LEMMA ReportedType ==
  ASSUME reports \in [Calls -> Nat], NEW S
  PROVE  Reported(S) \in [Calls -> Nat]
BY DEF Reported

LEMMA CancelAllQueuedType ==
  ASSUME StoreTypeOK, NEW st \in [Calls -> Statuses], CancelAllQueued(st),
         active' = active
  PROVE  StoreTypeOK'
<1>1. status' \in [Calls -> Statuses]
  BY DEF CancelAllQueued, CancelledStatus, Statuses, Terminal
<1>2. completed' \in SUBSET Calls
  BY RangeOfSeq DEF CancelAllQueued, StoreTypeOK, Queued
<1>3. reports' \in [Calls -> Nat]
  BY ReportedType DEF CancelAllQueued, StoreTypeOK
<1>4. queue' \in Seq(Calls)
  BY DEF CancelAllQueued
<1> QED
  BY <1>1, <1>2, <1>3, <1>4 DEF StoreTypeOK

LEMMA BatchOrderType ==
  ASSUME NEW j \in Jobs, NEW s \in BatchOrders(j)
  PROVE  s \in Seq(Calls) /\ Range(s) = BatchSet(j) /\ IsInjective(s)
<1>1. CallsOf[j] \in Seq(Calls)
  BY SchedulerAssumption
<1>2. s \in [1..Len(CallsOf[j]) -> BatchSet(j)]
  BY <1>1 DEF BatchOrders
<1>3. BatchSet(j) \subseteq Calls
  BY <1>1, RangeOfSeq DEF BatchSet
<1> QED
  BY <1>1, <1>2, <1>3 DEF BatchOrders

LEMMA SurvivingType ==
  ASSUME NEW S, NEW q \in Seq(S), NEW keep \in SUBSET S, NEW r \in Surviving(q, keep)
  PROVE  r \in Seq(S)
<1>1. PICK n \in 0..Len(q) : r \in [1..n -> keep]
  BY DEF Surviving
<1> QED
  BY <1>1

-----------------------------------------------------------------------------
(* A run that has come to its end has a result.                            *)
SettlingHasResult == \A c \in Calls : step[c] = "settling" => result[c] # "none"

(* Every step keeps the types.                                             *)

LEMMA StartBatchType ==
  ASSUME TypeOK, NEW j \in Jobs, NEW p \in [Jobs -> Promises], StartBatch(j, p)
  PROVE  /\ status' \in [Calls -> Statuses]
         /\ queue' \in Seq(Calls)
         /\ completed' \in SUBSET Calls
         /\ promise' \in [Jobs -> Promises]
         /\ isCancelling' \in BOOLEAN /\ phase' \in Phases /\ current' \in Jobs
<1>1. queue' \in Seq(Calls)
  BY BatchOrderType DEF StartBatch, TypeOK, StoreTypeOK
<1>2. status' \in [Calls -> Statuses]
  BY DEF StartBatch, TypeOK, StoreTypeOK, Statuses, Terminal
<1> QED
  BY <1>1, <1>2 DEF StartBatch, ClearBatch, Promises, Phases

LEMMA ClientType ==
  ASSUME TypeOK, Client
  PROVE  TypeOK'
<1> USE DEF TypeOK, StoreTypeOK, SchedulerTypeOK, storeVars, clientVars, loopVars,
            requestVars, checkVars, runVars
<1>1. ASSUME NEW j \in Jobs, ScheduleNow(j) PROVE TypeOK'
  BY <1>1, StartBatchType DEF ScheduleNow
<1>2. ASSUME NEW j \in Jobs, ScheduleLater(j) PROVE TypeOK'
  <2>1. Enqueued(j) \in Seq(Jobs)
    BY DEF Enqueued
  <2> QED
    BY <1>2, <2>1 DEF ScheduleLater, Promises
<1>3. ASSUME NEW s \in Signals, Abort(s) PROVE TypeOK'
  <2>1. requestQueue' \in Seq(Jobs)
    BY <1>3, SurvivingType DEF Abort
  <2> QED
    BY <1>3, <2>1 DEF Abort, Promises
<1>4. ASSUME CancelAll PROVE TypeOK'
  <2>1. Updated(status, active \ Finished(status), "cancelled") \in [Calls -> Statuses]
    BY UpdatedType DEF Statuses, Terminal
  <2>2. StoreTypeOK'
    BY <1>4, <2>1, CancelAllQueuedType DEF CancelAll
  <2> QED
    BY <1>4, <2>2 DEF CancelAll, Promises
<1> QED
  BY <1>1, <1>2, <1>3, <1>4 DEF Client

LEMMA DequeueType ==
  ASSUME StoreTypeOK, NEW n \in 1..Len(queue)
  PROVE  /\ active \cup {queue[i] : i \in 1..n} \in SUBSET Calls
         /\ SubSeq(queue, n + 1, Len(queue)) \in Seq(Calls)
         /\ SubSeq(queue, 1, n) \in Seq(Calls)
BY DEF StoreTypeOK

LEMMA FinalizeCallsType ==
  ASSUME StoreTypeOK, FinalizeCalls(status)
  PROVE  /\ completed' \in SUBSET Calls
         /\ active' \in SUBSET Calls
         /\ reports' \in [Calls -> Nat]
BY ReportedType DEF StoreTypeOK, FinalizeCalls, Finished

LEMMA LoopType ==
  ASSUME TypeOK, Loop
  PROVE  TypeOK'
<1> USE DEF TypeOK, StoreTypeOK, SchedulerTypeOK, storeVars, clientVars, loopVars,
            requestVars, checkVars, runVars
<1>1. ASSUME FinishLoop PROVE TypeOK'
  BY <1>1 DEF FinishLoop, Phases
<1>2. ASSUME StopLoop PROVE TypeOK'
  <2>1. StoreTypeOK'
    BY <1>2, CancelAllQueuedType DEF StopLoop
  <2> QED
    BY <1>2, <2>1 DEF StopLoop, Phases
<1>3. ASSUME AnswerErrored PROVE TypeOK'
  <2>1. Head(queue) \in Calls /\ Tail(queue) \in Seq(Calls)
    BY <1>3 DEF AnswerErrored
  <2>2. reports' \in [Calls -> Nat]
    BY <1>3, ReportedType DEF AnswerErrored
  <2> QED
    BY <1>3, <2>1, <2>2 DEF AnswerErrored
<1>4. ASSUME StartWave PROVE TypeOK'
  <2>1. /\ active' \in SUBSET Calls
        /\ queue' \in Seq(Calls)
        /\ wave' \in Seq(Calls)
    BY <1>4, DequeueType DEF StartWave, IsWave, Dequeue
  <2>2. step' \in [Calls -> Steps]
    BY <1>4 DEF StartWave, Steps
  <2> QED
    BY <1>4, <2>1, <2>2 DEF StartWave, Phases
<1>5. ASSUME RevisitActive PROVE TypeOK'
  BY <1>5 DEF RevisitActive, Phases
<1>6. ASSUME BeginExecution PROVE TypeOK'
  <2>1. status' \in [Calls -> Statuses]
    BY <1>6, UpdatedType DEF BeginExecution, Statuses, Terminal
  <2>2. step' \in [Calls -> Steps]
    BY <1>6 DEF BeginExecution, Steps
  <2> QED
    BY <1>6, <2>1, <2>2 DEF BeginExecution, Phases
<1>7. ASSUME FinalizeWave PROVE TypeOK'
  <2>1. /\ completed' \in SUBSET Calls
        /\ active' \in SUBSET Calls
        /\ reports' \in [Calls -> Nat]
    BY <1>7, FinalizeCallsType DEF FinalizeWave
  <2> QED
    BY <1>7, <2>1 DEF FinalizeWave, Phases
<1>8. ASSUME ReturnBatch PROVE TypeOK'
  <2> DEFINE p == [promise EXCEPT ![current] = "resolved"]
  <2>1. p \in [Jobs -> Promises]
    BY DEF Promises
  <2>2. CASE requestQueue # <<>> /\ active = {} /\ StartBatch(Head(requestQueue), p)
             /\ requestQueue' = Tail(requestQueue)
    <3>1. Head(requestQueue) \in Jobs /\ Tail(requestQueue) \in Seq(Jobs)
      BY <2>2
    <3>2. /\ status' \in [Calls -> Statuses]
          /\ queue' \in Seq(Calls)
          /\ completed' \in SUBSET Calls
          /\ promise' \in [Jobs -> Promises]
          /\ isCancelling' \in BOOLEAN /\ phase' \in Phases /\ current' \in Jobs
      BY <2>1, <2>2, <3>1, StartBatchType
    <3> QED
      BY <1>8, <2>2, <3>1, <3>2 DEF ReturnBatch
  <2>3. CASE Rest(p)
    <3>1. requestQueue' \in Seq(Jobs)
      BY <2>3 DEF Rest
    <3> QED
      BY <1>8, <2>1, <2>3, <3>1 DEF ReturnBatch, Rest, ClearBatch, Phases
  <2> QED
    BY <1>8, <2>2, <2>3 DEF ReturnBatch, ProcessNextInRequestQueue
<1> QED
  BY <1>1, <1>2, <1>3, <1>4, <1>5, <1>6, <1>7, <1>8 DEF Loop

LEMMA ThrowType ==
  ASSUME TypeOK, NEW c \in Calls, Throw(c), active' = active
  PROVE  StoreTypeOK' /\ step' \in [Calls -> Steps]
<1>1. step' \in [Calls -> Steps]
  BY DEF Throw, TypeOK, SchedulerTypeOK, Steps
<1>2. status' \in [Calls -> Statuses]
  BY UpdatedType DEF Throw, TypeOK, StoreTypeOK, Statuses, Terminal
<1> QED
  BY <1>1, <1>2 DEF Throw, TypeOK, StoreTypeOK

LEMMA CheckType ==
  ASSUME TypeOK, NEW c \in Calls, Check(c)
  PROVE  TypeOK'
<1> USE DEF TypeOK, StoreTypeOK, SchedulerTypeOK, CoroutineFrame, storeVars,
            clientVars, loopVars, requestVars, checkVars, runVars
<1>1. ASSUME ExternalFailure(c) PROVE TypeOK'
  BY <1>1, ThrowType DEF ExternalFailure, Throw
<1>2. ASSUME HookContinues(c) PROVE TypeOK'
  BY <1>2 DEF HookContinues, Steps, Args
<1>3. ASSUME HookStops(c) PROVE TypeOK'
  BY <1>3, UpdatedType DEF HookStops, Steps, Statuses, Terminal
<1>4. ASSUME PolicyAllows(c) PROVE TypeOK'
  <2>1. status' \in [Calls -> Statuses]
    BY <1>4, UpdatedType DEF PolicyAllows, Statuses
  <2>2. approved' \in [Calls -> Args]
    BY <1>4 DEF PolicyAllows, JudgedArgs, ShownArgs, Args
  <2>3. step' \in [Calls -> Steps] /\ verdict' \in [Calls -> Verdicts]
    BY <1>4 DEF PolicyAllows, Steps
  <2>4. outcome' \in [Calls -> Outcomes]
    BY <1>4 DEF PolicyAllows, Outcomes
  <2> QED
    BY <1>4, <2>1, <2>2, <2>3, <2>4 DEF PolicyAllows
<1>5. ASSUME PolicyDenies(c) PROVE TypeOK'
  <2>1. status' \in [Calls -> Statuses]
    BY <1>5, UpdatedType DEF PolicyDenies, Statuses, Terminal
  <2> QED
    BY <1>5, <2>1 DEF PolicyDenies, Steps
<1>6. ASSUME PolicyAsks(c) PROVE TypeOK'
  <2>1. verdict' \in [Calls -> Verdicts]
    BY <1>6 DEF PolicyAsks
  <2>2. CASE Throw(c)
    BY <1>6, <2>1, <2>2, ThrowType DEF PolicyAsks, Throw
  <2>3. CASE step' = [step EXCEPT ![c] = "details"] /\ UNCHANGED storeVars
    BY <1>6, <2>1, <2>3 DEF PolicyAsks, Steps
  <2> QED
    BY <1>6, <2>2, <2>3 DEF PolicyAsks
<1>7. ASSUME NothingToConfirm(c) PROVE TypeOK'
  BY <1>7 DEF NothingToConfirm, ShownArgs, Steps, Outcomes
<1>8. ASSUME AskUser(c) PROVE TypeOK'
  <2>1. status' \in [Calls -> Statuses]
    BY <1>8, UpdatedType DEF AskUser, Statuses
  <2> QED
    BY <1>8, <2>1 DEF AskUser, Steps
<1>9. ASSUME NEW s \in Steps, NEW t \in Steps, NEW o \in Outcomes, NEW read,
             Modify(c, read, s, t, o)
      PROVE  TypeOK'
  <2>1. PICK f \in active :
           IF f \in read /\ status[f] # "awaiting_approval"
           THEN Throw(c) /\ UNCHANGED <<args, outcome>>
           ELSE /\ args' = [args EXCEPT ![c] = ModifiedArgs(c, f)]
                /\ step' = [step EXCEPT ![c] = t]
                /\ outcome' = [outcome EXCEPT ![c] = o]
                /\ UNCHANGED storeVars
    BY <1>9 DEF Modify
  <2>2. ModifiedArgs(c, f) \in Args
    BY DEF ModifiedArgs, Args
  <2>3. CASE Throw(c) /\ UNCHANGED <<args, outcome>>
    BY <1>9, <2>3, ThrowType DEF Modify, Throw
  <2>4. CASE ~(f \in read /\ status[f] # "awaiting_approval")
    <3>1. args' = [args EXCEPT ![c] = ModifiedArgs(c, f)]
      BY <2>1, <2>4
    <3>2. args' \in [Calls -> Args]
      BY <2>2, <3>1
    <3>3. step' = [step EXCEPT ![c] = t] /\ outcome' = [outcome EXCEPT ![c] = o]
      BY <2>1, <2>4
    <3>4. step' \in [Calls -> Steps] /\ outcome' \in [Calls -> Outcomes]
      BY <3>3
    <3>5. UNCHANGED storeVars
      BY <2>1, <2>4
    <3> QED
      BY <1>9, <3>2, <3>4, <3>5 DEF Modify
  <2> QED
    BY <2>1, <2>3, <2>4
<1>10. ASSUME EditorCloses(c) PROVE TypeOK'
  BY <1>9, <1>10 DEF EditorCloses, Steps
<1>11. ASSUME EditorUnavailable(c) PROVE TypeOK'
  BY <1>11 DEF EditorUnavailable, Steps
<1>12. ASSUME EditApplied(c) PROVE TypeOK'
  BY <1>9, <1>12 DEF EditApplied, Steps, Outcomes
<1>13. ASSUME WaitAborted(c) PROVE TypeOK'
  BY <1>13, ThrowType DEF WaitAborted, Throw
<1>14. ASSUME DecisionApplied(c) PROVE TypeOK'
  <2>1. step' \in [Calls -> Steps]
    BY <1>14 DEF DecisionApplied, Steps
  <2>2. CASE CancelAllQueued(Updated(status, {c}, "cancelled")) /\ UNCHANGED policy
    <3>1. Updated(status, {c}, "cancelled") \in [Calls -> Statuses]
      BY UpdatedType DEF Statuses, Terminal
    <3>2. StoreTypeOK'
      BY <1>14, <2>2, <3>1, CancelAllQueuedType DEF DecisionApplied
    <3> QED
      BY <1>14, <2>1, <2>2, <3>2 DEF DecisionApplied
  <2>3. CASE /\ status' = Updated(status, {c}, "scheduled")
             /\ \/ UNCHANGED policy
                \/ policy' = [policy EXCEPT ![tool[c]] = "allow"]
             /\ UNCHANGED <<queue, completed, reports>>
    <3>1. status' \in [Calls -> Statuses]
      BY <2>3, UpdatedType DEF Statuses
    <3>2. policy' \in [Tools -> Verdicts \ {"none"}]
      BY <2>3 DEF Verdicts
    <3> QED
      BY <1>14, <2>1, <2>3, <3>1, <3>2 DEF DecisionApplied
  <2> QED
    BY <1>14, <2>2, <2>3 DEF DecisionApplied
<1> QED
  BY <1>1, <1>2, <1>3, <1>4, <1>5, <1>6, <1>7, <1>8, <1>10, <1>11, <1>12, <1>13,
     <1>14 DEF Check

LEMMA RunType ==
  ASSUME TypeOK, SettlingHasResult, NEW c \in Calls, Run(c)
  PROVE  TypeOK'
<1> USE DEF TypeOK, StoreTypeOK, SchedulerTypeOK, CoroutineFrame, storeVars,
            clientVars, loopVars, requestVars, checkVars, runVars
<1>1. ASSUME ToolReturns(c) PROVE TypeOK'
  <2>1. result' \in [Calls -> Results]
    BY <1>1 DEF ToolReturns, Results
  <2> QED
    BY <1>1, <2>1 DEF ToolReturns, Steps
<1>2. ASSUME RunEnds(c) PROVE TypeOK'
  <2>1. result[c] \in Statuses
    BY <1>2 DEF RunEnds, SettlingHasResult, Results, Statuses, Terminal
  <2>2. status' \in [Calls -> Statuses]
    BY <1>2, <2>1, UpdatedType DEF RunEnds
  <2> QED
    BY <1>2, <2>2 DEF RunEnds, Steps
<1>3. ASSUME TailCall(c) PROVE TypeOK'
  <2>1. active' \in SUBSET Calls /\ queue' \in Seq(Calls)
    BY <1>3 DEF TailCall, ReplaceActiveCallWithTailCall
  <2>2. status' \in [Calls -> Statuses]
    BY <1>3 DEF TailCall, Statuses, Terminal
  <2>3. /\ tails' \in [Calls -> Nat]
        /\ tool' \in [Calls -> Tools]
        /\ waits' \in SUBSET Calls
    BY <1>3 DEF TailCall
  <2>4. /\ args' \in [Calls -> Args] /\ approved' \in [Calls -> Args]
        /\ verdict' \in [Calls -> Verdicts] /\ outcome' \in [Calls -> Outcomes]
        /\ step' \in [Calls -> Steps]
    BY <1>3 DEF TailCall, Args, Verdicts, Outcomes, Steps
  <2> QED
    BY <1>3, <2>1, <2>2, <2>3, <2>4 DEF TailCall
<1>4. ASSUME AskExpansion(c) PROVE TypeOK'
  <2>1. args' \in [Calls -> Args]
    BY <1>4 DEF AskExpansion, Args
  <2>2. CASE Throw(c)
    BY <1>4, <2>1, <2>2, ThrowType DEF AskExpansion, Throw
  <2>3. CASE /\ status' = Updated(status, {c}, "awaiting_approval")
             /\ step' = [step EXCEPT ![c] = "details"]
             /\ UNCHANGED <<queue, active, completed, reports>>
    <3>1. status' \in [Calls -> Statuses]
      BY <2>3, UpdatedType DEF Statuses
    <3> QED
      BY <1>4, <2>1, <2>3, <3>1 DEF AskExpansion, Steps
  <2> QED
    BY <1>4, <2>2, <2>3 DEF AskExpansion
<1>5. ASSUME ExpansionDecided(c) PROVE TypeOK'
  <2>1. status' \in [Calls -> Statuses]
    BY <1>5, UpdatedType DEF ExpansionDecided, Statuses, Terminal
  <2> QED
    BY <1>5, <2>1 DEF ExpansionDecided, Steps
<1> QED
  BY <1>1, <1>2, <1>3, <1>4, <1>5 DEF Run

LEMMA UserType ==
  ASSUME TypeOK, NEW c \in Calls, User(c)
  PROVE  TypeOK'
<1> USE DEF TypeOK, StoreTypeOK, SchedulerTypeOK, CoroutineFrame, storeVars,
            clientVars, loopVars, requestVars, checkVars, runVars
<1>1. ASSUME NEW o \in {"proceed", "always"}, UserProceeds(c, o) PROVE TypeOK'
  BY <1>1 DEF UserProceeds, ShownArgs, Steps, Outcomes
<1>2. ASSUME UserCancels(c) PROVE TypeOK'
  BY <1>2 DEF UserCancels, Steps, Outcomes
<1>3. ASSUME UserOpensEditor(c) PROVE TypeOK'
  BY <1>3 DEF UserOpensEditor, Steps
<1>4. ASSUME UserAcceptsEdited(c) PROVE TypeOK'
  BY <1>4 DEF UserAcceptsEdited, Steps, Args
<1> QED
  BY <1>1, <1>2, <1>3, <1>4 DEF User

LEMMA OutputType ==
  ASSUME TypeOK, NEW c \in Calls, Output(c)
  PROVE  TypeOK'
<1> USE DEF TypeOK, StoreTypeOK, SchedulerTypeOK, CoroutineFrame, storeVars,
            clientVars, loopVars, requestVars, checkVars, runVars
<1>1. ASSUME Detach(c) PROVE TypeOK'
  BY <1>1 DEF Detach, Steps, Results
<1>2. ASSUME LiveOutput(c) PROVE TypeOK'
  <2>1. status' \in [Calls -> Statuses]
    BY <1>2, UpdatedType DEF LiveOutput, Statuses
  <2> QED
    BY <1>2, <2>1 DEF LiveOutput
<1>3. ASSUME DetachedExits(c) PROVE TypeOK'
  BY <1>3 DEF DetachedExits
<1> QED
  BY <1>1, <1>2, <1>3 DEF Output

(* The type invariant is not inductive by itself: that the status of a     *)
(* call becomes its result needs that there is one.                        *)
LEMMA SettlingHasResultStep ==
  ASSUME TypeOK, SettlingHasResult, [Next]_vars
  PROVE  SettlingHasResult'
<1> USE DEF SettlingHasResult, TypeOK, SchedulerTypeOK, CoroutineFrame, storeVars,
            clientVars, loopVars, requestVars, checkVars, runVars
<1>1. CASE UNCHANGED vars
  BY <1>1 DEF vars
<1>2. CASE Client
  BY <1>2 DEF Client, ScheduleNow, ScheduleLater, Abort, CancelAll
<1>3. CASE Loop
  BY <1>3 DEF Loop, FinishLoop, StopLoop, AnswerErrored, StartWave, RevisitActive,
     BeginExecution, FinalizeWave, ReturnBatch
<1>4. ASSUME NEW c \in Calls, Check(c) PROVE SettlingHasResult'
  BY <1>4 DEF Check, ExternalFailure, HookContinues, HookStops, PolicyAllows,
     PolicyDenies, PolicyAsks, NothingToConfirm, AskUser, EditorCloses,
     EditorUnavailable, EditApplied, WaitAborted, DecisionApplied, Modify, Throw
<1>5. ASSUME NEW c \in Calls, Run(c) PROVE SettlingHasResult'
  BY <1>5 DEF Run, ToolReturns, RunEnds, TailCall, AskExpansion, ExpansionDecided, Throw
<1>6. ASSUME NEW c \in Calls, User(c) PROVE SettlingHasResult'
  BY <1>6 DEF User, UserProceeds, UserCancels, UserOpensEditor, UserAcceptsEdited
<1>7. ASSUME NEW c \in Calls, Output(c) PROVE SettlingHasResult'
  BY <1>7 DEF Output, Detach, LiveOutput, DetachedExits
<1> QED
  BY <1>1, <1>2, <1>3, <1>4, <1>5, <1>6, <1>7 DEF Next, AllSettled

LEMMA InitType ==
  ASSUME Init
  PROVE  TypeOK
<1>1. StoreTypeOK
  BY DEF Init, StoreInit, StoreTypeOK, Statuses
<1>2. /\ promise \in [Jobs -> Promises] /\ answer \in [Jobs -> SUBSET Calls]
      /\ requestQueue \in Seq(Jobs) /\ aborted \in SUBSET Signals
      /\ isCancelling \in BOOLEAN /\ phase \in Phases
      /\ current \in Jobs \cup {NoJob} /\ wave \in Seq(Calls)
  <2>1. requestQueue = <<>> /\ wave = <<>>
    BY DEF Init
  <2>2. requestQueue \in Seq(Jobs) /\ wave \in Seq(Calls)
    BY <2>1
  <2>3. promise \in [Jobs -> Promises]
    BY DEF Init, Promises
  <2>4. answer \in [Jobs -> SUBSET Calls]
    BY DEF Init
  <2> QED
    BY <2>2, <2>3, <2>4 DEF Init, Phases
<1>3. /\ step \in [Calls -> Steps] /\ args \in [Calls -> Args]
      /\ tool \in [Calls -> Tools] /\ waits \in SUBSET Calls
      /\ rewritten \in SUBSET Calls /\ forced \in SUBSET Calls
  BY SchedulerAssumption DEF Init, Steps, Args
<1>4. /\ verdict \in [Calls -> Verdicts] /\ outcome \in [Calls -> Outcomes]
      /\ result \in [Calls -> Results] /\ tails \in [Calls -> Nat]
      /\ detached \in SUBSET Calls /\ approved \in [Calls -> Args]
      /\ policy \in [Tools -> Verdicts \ {"none"}] /\ consented \in SUBSET Calls
  BY DEF Init, Verdicts, Outcomes, Results, Args
<1> QED
  BY <1>1, <1>2, <1>3, <1>4 DEF TypeOK, SchedulerTypeOK

LEMMA TypeInvariant == Spec => [](TypeOK /\ SettlingHasResult)
<1> DEFINE Inv == TypeOK /\ SettlingHasResult
<1>1. Init => Inv
  BY InitType DEF Init, SettlingHasResult
<1>2. Inv /\ [Next]_vars => Inv'
  <2> SUFFICES ASSUME TypeOK, SettlingHasResult, [Next]_vars PROVE Inv'
    OBVIOUS
  <2>1. CASE UNCHANGED vars
    BY <2>1 DEF vars, TypeOK, StoreTypeOK, SchedulerTypeOK, SettlingHasResult,
       storeVars, clientVars, loopVars, requestVars, checkVars, runVars
  <2>2. CASE Next
    <3>1. TypeOK'
      BY <2>1, <2>2, ClientType, LoopType, CheckType, RunType, UserType, OutputType
         DEF Next, AllSettled
    <3> QED
      BY <3>1, SettlingHasResultStep
  <2> QED
    BY <2>1, <2>2
<1> QED
  BY <1>1, <1>2, PTL DEF Spec

(* Every variable of the scheduler stays in its range, whatever the        *)
(* clients, hooks, tools and users do.                                     *)
THEOREM TypeCorrect == Spec => []TypeOK
  BY TypeInvariant, PTL

-----------------------------------------------------------------------------
(* Sequences without repetition.                                           *)

LEMMA RangeMember ==
  ASSUME NEW S, NEW q \in Seq(S)
  PROVE  /\ DOMAIN q = 1..Len(q)
         /\ \A x : x \in Range(q) <=> \E i \in 1..Len(q) : q[i] = x
BY DEF Range

LEMMA SplitInjective ==
  ASSUME NEW S, NEW q \in Seq(S), IsInjective(q), NEW n \in 1..Len(q)
  PROVE  LET front == {q[i] : i \in 1..n}
             rest  == SubSeq(q, n + 1, Len(q))
         IN  /\ IsInjective(rest)
             /\ Range(rest) \cap front = {}
             /\ Range(rest) \cup front = Range(q)
<1> DEFINE front == {q[i] : i \in 1..n}
           rest  == SubSeq(q, n + 1, Len(q))
<1>1. /\ rest \in Seq(S)
      /\ Len(rest) = Len(q) - n
      /\ \A i \in 1..Len(rest) : rest[i] = q[i + n]
  OBVIOUS
<1>2. \A i, k \in 1..Len(q) : q[i] = q[k] => i = k
  BY DEF IsInjective
<1>3. IsInjective(rest)
  BY <1>1, <1>2 DEF IsInjective
<1>4. Range(rest) \cap front = {}
  <2> SUFFICES ASSUME NEW x \in Range(rest), x \in front PROVE FALSE
    OBVIOUS
  <2>1. PICK i \in 1..Len(rest) : rest[i] = x
    BY <1>1, RangeMember
  <2>2. PICK k \in 1..n : q[k] = x
    OBVIOUS
  <2> QED
    BY <1>1, <1>2, <2>1, <2>2
<1>5. ASSUME NEW x \in Range(q) PROVE x \in Range(rest) \cup front
  <2>1. PICK i \in 1..Len(q) : x = q[i]
    BY RangeMember
  <2>2. CASE i \in 1..n
    BY <2>1, <2>2
  <2>3. CASE i \notin 1..n
    <3>1. i - n \in 1..Len(rest) /\ rest[i - n] = q[i]
      BY <1>1, <2>3
    <3> QED
      BY <1>1, <2>1, <3>1, RangeMember
  <2> QED
    BY <2>2, <2>3
<1>6. Range(rest) \cup front \subseteq Range(q)
  <2>1. ASSUME NEW x \in Range(rest) PROVE x \in Range(q)
    <3>1. PICK i \in 1..Len(rest) : rest[i] = x
      BY <1>1, RangeMember
    <3>2. i + n \in 1..Len(q) /\ q[i + n] = x
      BY <1>1, <3>1
    <3> QED
      BY <3>2, RangeMember
  <2>2. ASSUME NEW x \in front PROVE x \in Range(q)
    BY RangeMember
  <2> QED
    BY <2>1, <2>2
<1> QED
  BY <1>3, <1>4, <1>5, <1>6

LEMMA HeadTailInjective ==
  ASSUME NEW S, NEW q \in Seq(S), IsInjective(q), q # <<>>
  PROVE  /\ Head(q) \in Range(q)
         /\ IsInjective(Tail(q))
         /\ Head(q) \notin Range(Tail(q))
         /\ Range(Tail(q)) \cup {Head(q)} = Range(q)
<1>1. 1 \in 1..Len(q) /\ Head(q) = q[1]
  OBVIOUS
<1>2. {q[i] : i \in 1..1} = {Head(q)}
  BY <1>1
<1>3. Tail(q) = SubSeq(q, 1 + 1, Len(q))
  BY <1>1
<1>4. Head(q) \in Range(q)
  BY <1>1, RangeMember
<1>5. /\ IsInjective(Tail(q))
      /\ Range(Tail(q)) \cap {Head(q)} = {}
      /\ Range(Tail(q)) \cup {Head(q)} = Range(q)
  BY <1>1, <1>2, <1>3, SplitInjective
<1> QED
  BY <1>4, <1>5

LEMMA ConsInjective ==
  ASSUME NEW S, NEW q \in Seq(S), IsInjective(q), NEW x \in S, x \notin Range(q)
  PROVE  IsInjective(<<x>> \o q) /\ Range(<<x>> \o q) = Range(q) \cup {x}
<1> DEFINE r == <<x>> \o q
<1>1. /\ r \in Seq(S)
      /\ Len(r) = Len(q) + 1
      /\ r[1] = x
      /\ \A i \in 1..Len(q) : r[i + 1] = q[i]
      /\ \A i \in 1..Len(r) : i # 1 => i - 1 \in 1..Len(q) /\ r[i] = q[i - 1]
  OBVIOUS
<1>2. \A i, k \in 1..Len(q) : q[i] = q[k] => i = k
  BY DEF IsInjective
<1>3. \A i \in 1..Len(q) : q[i] # x
  BY RangeMember
<1>4. IsInjective(r)
  BY <1>1, <1>2, <1>3 DEF IsInjective
<1>5. ASSUME NEW y PROVE y \in Range(r) <=> y \in Range(q) \cup {x}
  <2>1. y \in Range(r) <=> \E i \in 1..Len(r) : r[i] = y
    BY <1>1, RangeMember
  <2>2. y \in Range(q) <=> \E i \in 1..Len(q) : q[i] = y
    BY RangeMember
  <2>3. CASE y \in Range(r)
    BY <1>1, <2>1, <2>2, <2>3
  <2>4. CASE y = x
    BY <1>1, <2>1, <2>4
  <2>5. CASE y \in Range(q)
    <3>1. PICK i \in 1..Len(q) : q[i] = y
      BY <2>2, <2>5
    <3>2. i + 1 \in 1..Len(r) /\ r[i + 1] = y
      BY <1>1, <3>1
    <3> QED
      BY <2>1, <2>5, <3>2
  <2> QED
    BY <2>3, <2>4, <2>5
<1> QED
  BY <1>4, <1>5

LEMMA AppendInjective ==
  ASSUME NEW S, NEW q \in Seq(S), IsInjective(q), NEW x \in S, x \notin Range(q)
  PROVE  IsInjective(Append(q, x)) /\ Range(Append(q, x)) = Range(q) \cup {x}
<1> DEFINE r == Append(q, x)
<1>1. /\ r \in Seq(S)
      /\ Len(r) = Len(q) + 1
      /\ r[Len(q) + 1] = x
      /\ \A i \in 1..Len(q) : r[i] = q[i]
  OBVIOUS
<1>2. \A i, k \in 1..Len(q) : q[i] = q[k] => i = k
  BY DEF IsInjective
<1>3. \A i \in 1..Len(q) : q[i] # x
  BY RangeMember
<1>4. IsInjective(r)
  BY <1>1, <1>2, <1>3 DEF IsInjective
<1>5. ASSUME NEW y PROVE y \in Range(r) <=> y \in Range(q) \cup {x}
  <2>1. y \in Range(r) <=> \E i \in 1..Len(r) : r[i] = y
    BY <1>1, RangeMember
  <2>2. y \in Range(q) <=> \E i \in 1..Len(q) : q[i] = y
    BY RangeMember
  <2>3. CASE y \in Range(r)
    BY <1>1, <2>1, <2>2, <2>3
  <2>4. CASE y \in Range(q) \cup {x}
    BY <1>1, <2>1, <2>2, <2>4
  <2> QED
    BY <2>3, <2>4
<1> QED
  BY <1>4, <1>5

LEMMA EmptyInjective == IsInjective(<<>>) /\ Range(<<>>) = {}
BY DEF IsInjective, Range

LEMMA SurvivingInjective ==
  ASSUME NEW S, NEW q \in Seq(S), IsInjective(q), NEW keep \in SUBSET S,
         NEW r \in Surviving(q, keep)
  PROVE  IsInjective(r) /\ Range(r) = Range(q) \cap keep
<1>1. r \in Seq(S)
  BY SurvivingType
<1>2. DOMAIN r = 1..Len(r) /\ DOMAIN q = 1..Len(q)
  BY <1>1, RangeMember
<1>3. \A m, n \in DOMAIN r : m < n =>
        \E k, l \in DOMAIN q : k < l /\ q[k] = r[m] /\ q[l] = r[n]
  BY DEF Surviving
<1>4. \A i, k \in 1..Len(q) : q[i] = q[k] => i = k
  BY DEF IsInjective
<1>5. ASSUME NEW m \in 1..Len(r), NEW n \in 1..Len(r), m < n PROVE r[m] # r[n]
  <2>1. PICK k \in 1..Len(q), l \in 1..Len(q) : k < l /\ q[k] = r[m] /\ q[l] = r[n]
    BY <1>2, <1>3, <1>5
  <2> QED
    BY <1>4, <2>1
<1>6. IsInjective(r)
  BY <1>1, <1>5 DEF IsInjective
<1> QED
  BY <1>6 DEF Surviving

-----------------------------------------------------------------------------
(* Only active calls have a coroutine, and only while the loop awaits it.  *)
SuspendedInWave ==
  \A c \in Calls : step[c] # "idle" => c \in active /\ phase \in {"validating", "executing"}

(* A loop that has ended leaves no queued call behind, unless it leaves an *)
(* active one too.                                                         *)
DrainedAtRest ==
  phase \in {"idle", "returning"} /\ active = {} => queue = <<>>

PlaceInv == TypeOK /\ OnePlace /\ SuspendedInWave /\ DrainedAtRest

LEMMA CancelAllQueuedPlaces ==
  ASSUME TypeOK, OnePlace, NEW st, CancelAllQueued(st), active' = active
  PROVE  OnePlace' /\ queue' = <<>>
BY EmptyInjective DEF OnePlace, CancelAllQueued, Queued

LEMMA StartBatchPlaces ==
  ASSUME PlaceInv, NEW j \in Jobs, NEW p, StartBatch(j, p),
         phase \in {"idle", "returning"}, active = {}, active' = {}, step' = step
  PROVE  OnePlace' /\ SuspendedInWave' /\ DrainedAtRest' /\ Queued' = BatchSet(j)
<1>1. queue = <<>>
  BY DEF PlaceInv, DrainedAtRest
<1>2. PICK s \in BatchOrders(j) : queue' = queue \o s
  BY DEF StartBatch
<1>3. s \in Seq(Calls) /\ Range(s) = BatchSet(j) /\ IsInjective(s)
  BY BatchOrderType
<1>4. queue' = s
  BY <1>1, <1>2, <1>3
<1>5. OnePlace' /\ Queued' = BatchSet(j)
  BY <1>3, <1>4 DEF OnePlace, StartBatch, ClearBatch, Queued
<1>6. SuspendedInWave'
  BY DEF PlaceInv, SuspendedInWave, StartBatch
<1>7. DrainedAtRest'
  BY DEF DrainedAtRest, StartBatch
<1> QED
  BY <1>5, <1>6, <1>7

LEMMA StepKeepsPlaces ==
  ASSUME PlaceInv, NEW c \in Calls, step[c] # "idle",
         \A d \in Calls : d # c => step'[d] = step[d],
         UNCHANGED <<queue, active, completed, phase>>
  PROVE  OnePlace' /\ SuspendedInWave' /\ DrainedAtRest'
BY DEF PlaceInv, OnePlace, Queued, SuspendedInWave, DrainedAtRest

LEMMA ClientPlaces ==
  ASSUME PlaceInv, Client
  PROVE  OnePlace' /\ SuspendedInWave' /\ DrainedAtRest'
<1>1. ASSUME NEW j \in Jobs, ScheduleNow(j)
      PROVE  OnePlace' /\ SuspendedInWave' /\ DrainedAtRest'
  BY <1>1, StartBatchPlaces DEF ScheduleNow
<1>2. ASSUME NEW j \in Jobs, ScheduleLater(j)
      PROVE  OnePlace' /\ SuspendedInWave' /\ DrainedAtRest'
  BY <1>2 DEF ScheduleLater, PlaceInv, OnePlace, Queued, SuspendedInWave, DrainedAtRest,
     storeVars, loopVars
<1>3. ASSUME NEW s \in Signals, Abort(s)
      PROVE  OnePlace' /\ SuspendedInWave' /\ DrainedAtRest'
  BY <1>3 DEF Abort, PlaceInv, OnePlace, Queued, SuspendedInWave, DrainedAtRest,
     storeVars, loopVars
<1>4. ASSUME CancelAll
      PROVE  OnePlace' /\ SuspendedInWave' /\ DrainedAtRest'
  <2>1. OnePlace' /\ queue' = <<>>
    BY <1>4, CancelAllQueuedPlaces DEF CancelAll, PlaceInv
  <2> QED
    BY <1>4, <2>1 DEF CancelAll, PlaceInv, SuspendedInWave, DrainedAtRest
<1> QED
  BY <1>1, <1>2, <1>3, <1>4 DEF Client

LEMMA LoopPlaces ==
  ASSUME PlaceInv, Loop
  PROVE  OnePlace' /\ SuspendedInWave' /\ DrainedAtRest'
<1> USE DEF PlaceInv, TypeOK, StoreTypeOK, SchedulerTypeOK, Queued
<1>1. ASSUME FinishLoop PROVE OnePlace' /\ SuspendedInWave' /\ DrainedAtRest'
  BY <1>1 DEF FinishLoop, OnePlace, SuspendedInWave, DrainedAtRest, storeVars
<1>2. ASSUME StopLoop PROVE OnePlace' /\ SuspendedInWave' /\ DrainedAtRest'
  <2>1. OnePlace' /\ queue' = <<>>
    BY <1>2, CancelAllQueuedPlaces DEF StopLoop
  <2> QED
    BY <1>2, <2>1 DEF StopLoop, SuspendedInWave, DrainedAtRest
<1>3. ASSUME AnswerErrored PROVE OnePlace' /\ SuspendedInWave' /\ DrainedAtRest'
  <2>1. OnePlace'
    BY <1>3, HeadTailInjective DEF AnswerErrored, OnePlace
  <2> QED
    BY <1>3, <2>1 DEF AnswerErrored, SuspendedInWave, DrainedAtRest, loopVars
<1>4. ASSUME StartWave PROVE OnePlace' /\ SuspendedInWave' /\ DrainedAtRest'
  <2>1. PICK n \in 1..Len(queue) :
          /\ Dequeue(n)
          /\ step' = [c \in Calls |->
                       IF status[c] = "validating" /\ \E i \in 1..n : queue[i] = c
                       THEN "hook" ELSE step[c]]
    BY <1>4 DEF StartWave, IsWave
  <2> DEFINE front == {queue[i] : i \in 1..n}
  <2>2. active' = front /\ queue' = SubSeq(queue, n + 1, Len(queue))
    BY <1>4, <2>1 DEF StartWave, Dequeue
  <2>3. /\ IsInjective(queue')
        /\ Range(queue') \cap front = {}
        /\ Range(queue') \cup front = Range(queue)
    <3> DEFINE rest == SubSeq(queue, n + 1, Len(queue))
    <3>1. queue \in Seq(Calls) /\ IsInjective(queue)
      BY DEF OnePlace
    <3>2. /\ IsInjective(rest)
          /\ Range(rest) \cap front = {}
          /\ Range(rest) \cup front = Range(queue)
      BY <3>1, SplitInjective, Zenon
    <3> QED
      BY <2>2, <3>2, Zenon
  <2>4. OnePlace'
    BY <1>4, <2>2, <2>3 DEF StartWave, OnePlace
  <2>5. SuspendedInWave'
    BY <1>4, <2>1, <2>2 DEF StartWave, SuspendedInWave
  <2> QED
    BY <1>4, <2>4, <2>5 DEF StartWave, DrainedAtRest
<1>5. ASSUME RevisitActive PROVE OnePlace' /\ SuspendedInWave' /\ DrainedAtRest'
  BY <1>5 DEF RevisitActive, OnePlace, SuspendedInWave, DrainedAtRest, storeVars
<1>6. ASSUME BeginExecution PROVE OnePlace' /\ SuspendedInWave' /\ DrainedAtRest'
  BY <1>6 DEF BeginExecution, ScheduledCalls, OnePlace, SuspendedInWave, DrainedAtRest
<1>7. ASSUME FinalizeWave PROVE OnePlace' /\ SuspendedInWave' /\ DrainedAtRest'
  <2>1. OnePlace'
    BY <1>7 DEF FinalizeWave, FinalizeCalls, Finished, OnePlace
  <2>2. SuspendedInWave'
    BY <1>7 DEF FinalizeWave, Coroutines, SuspendedInWave
  <2>3. DrainedAtRest'
    BY <1>7 DEF FinalizeWave, FinalizeCalls, DrainedAtRest
  <2> QED
    BY <2>1, <2>2, <2>3
<1>8. ASSUME ReturnBatch PROVE OnePlace' /\ SuspendedInWave' /\ DrainedAtRest'
  <2> DEFINE p == [promise EXCEPT ![current] = "resolved"]
  <2>1. CASE requestQueue # <<>> /\ active = {} /\ StartBatch(Head(requestQueue), p)
    <3>1. Head(requestQueue) \in Jobs
      BY <2>1
    <3> QED
      BY <1>8, <2>1, <3>1, StartBatchPlaces DEF ReturnBatch
  <2>2. CASE Rest(p)
    BY <1>8, <2>2 DEF ReturnBatch, Rest, ClearBatch, OnePlace, SuspendedInWave, DrainedAtRest
  <2> QED
    BY <1>8, <2>1, <2>2 DEF ReturnBatch, ProcessNextInRequestQueue
<1> QED
  BY <1>1, <1>2, <1>3, <1>4, <1>5, <1>6, <1>7, <1>8 DEF Loop

LEMMA CoroutinePlaces ==
  ASSUME PlaceInv, NEW c \in Calls, Check(c) \/ Run(c) \/ User(c) \/ Output(c)
  PROVE  OnePlace' /\ SuspendedInWave' /\ DrainedAtRest'
<1> USE DEF CoroutineFrame, storeVars, loopVars
<1>1. CASE \/ ExternalFailure(c) \/ HookContinues(c) \/ HookStops(c)
           \/ PolicyAllows(c) \/ PolicyDenies(c) \/ PolicyAsks(c)
           \/ NothingToConfirm(c) \/ AskUser(c)
           \/ EditorCloses(c) \/ EditorUnavailable(c) \/ EditApplied(c) \/ WaitAborted(c)
  <2>1. /\ step[c] # "idle"
        /\ \A d \in Calls : d # c => step'[d] = step[d]
        /\ UNCHANGED <<queue, active, completed, phase>>
    BY <1>1 DEF PlaceInv, TypeOK, SchedulerTypeOK, ExternalFailure, HookContinues,
       HookStops, PolicyAllows, PolicyDenies, PolicyAsks, NothingToConfirm, AskUser,
       EditorCloses, EditorUnavailable, EditApplied, WaitAborted, Modify, Throw
  <2> QED
    BY <2>1, StepKeepsPlaces
<1>2. CASE DecisionApplied(c)
  <2>1. CASE CancelAllQueued(Updated(status, {c}, "cancelled"))
    <3>1. OnePlace' /\ queue' = <<>>
      BY <1>2, <2>1, CancelAllQueuedPlaces DEF DecisionApplied, PlaceInv
    <3> QED
      BY <1>2, <3>1 DEF DecisionApplied, PlaceInv, TypeOK, SchedulerTypeOK,
         SuspendedInWave, DrainedAtRest
  <2>2. CASE UNCHANGED <<queue, completed, reports>>
    BY <1>2, <2>2, StepKeepsPlaces DEF DecisionApplied, PlaceInv, TypeOK, SchedulerTypeOK
  <2> QED
    BY <1>2, <2>1, <2>2 DEF DecisionApplied
<1>3. CASE ToolReturns(c) \/ RunEnds(c) \/ AskExpansion(c) \/ ExpansionDecided(c)
  <2>1. /\ step[c] # "idle"
        /\ \A d \in Calls : d # c => step'[d] = step[d]
        /\ UNCHANGED <<queue, active, completed, phase>>
    BY <1>3 DEF PlaceInv, TypeOK, SchedulerTypeOK, ToolReturns, RunEnds, AskExpansion,
       ExpansionDecided, Throw
  <2> QED
    BY <2>1, StepKeepsPlaces
<1>4. CASE TailCall(c)
  <2>1. c \in active /\ c \notin Queued /\ c \notin completed
    BY <1>4 DEF TailCall, PlaceInv, SuspendedInWave, OnePlace
  <2>2. IsInjective(queue') /\ Range(queue') = Range(queue) \cup {c}
    BY <1>4, <2>1, ConsInjective DEF TailCall, ReplaceActiveCallWithTailCall, PlaceInv,
       TypeOK, StoreTypeOK, OnePlace, Queued
  <2>3. OnePlace'
    BY <1>4, <2>1, <2>2 DEF TailCall, ReplaceActiveCallWithTailCall, PlaceInv, OnePlace,
       Queued
  <2>4. SuspendedInWave' /\ DrainedAtRest'
    BY <1>4 DEF TailCall, ReplaceActiveCallWithTailCall, PlaceInv, TypeOK,
       SchedulerTypeOK, SuspendedInWave, DrainedAtRest
  <2> QED
    BY <2>3, <2>4
<1>5. CASE User(c) \/ Detach(c)
  <2>1. /\ step[c] # "idle"
        /\ \A d \in Calls : d # c => step'[d] = step[d]
        /\ UNCHANGED <<queue, active, completed, phase>>
    BY <1>5 DEF PlaceInv, TypeOK, SchedulerTypeOK, User, UserProceeds, UserCancels,
       UserOpensEditor, UserAcceptsEdited, Detach
  <2> QED
    BY <2>1, StepKeepsPlaces
<1>6. CASE LiveOutput(c) \/ DetachedExits(c)
  BY <1>6 DEF LiveOutput, DetachedExits, PlaceInv, OnePlace, Queued, SuspendedInWave,
     DrainedAtRest
<1> QED
  BY <1>1, <1>2, <1>3, <1>4, <1>5, <1>6 DEF Check, Run, Output

LEMMA PlaceInvariant == Spec => []PlaceInv
<1>1. Init => PlaceInv
  <2> SUFFICES ASSUME Init PROVE PlaceInv
    OBVIOUS
  <2>1. TypeOK
    BY InitType
  <2>2. queue = <<>> /\ IsInjective(queue) /\ Queued = {}
    BY EmptyInjective DEF Init, StoreInit, Queued
  <2> QED
    BY <2>1, <2>2 DEF Init, StoreInit, PlaceInv, OnePlace, SuspendedInWave, DrainedAtRest
<1>2. TypeOK /\ TypeOK' /\ PlaceInv /\ [Next]_vars => PlaceInv'
  <2> SUFFICES ASSUME TypeOK', PlaceInv, [Next]_vars PROVE PlaceInv'
    OBVIOUS
  <2>1. CASE UNCHANGED vars
    BY <2>1 DEF vars, storeVars, loopVars, PlaceInv, OnePlace, Queued, SuspendedInWave,
       DrainedAtRest
  <2> QED
    BY <2>1, ClientPlaces, LoopPlaces, CoroutinePlaces DEF Next, AllSettled, PlaceInv
<1> QED
  BY <1>1, <1>2, TypeCorrect, PTL DEF Spec

(* A call is never in two of the places queue, active map and completed    *)
(* list, and in each of them once.                                         *)
THEOREM InOnePlace == Spec => []OnePlace
<1>1. PlaceInv => OnePlace
  BY DEF PlaceInv
<1> QED
  BY <1>1, PlaceInvariant, PTL

(***************************************************************************)
(* What becomes of the calls of a wave, and how often each is reported:    *)
(* onTerminalCall fires once for every answered call.                      *)
(***************************************************************************)

-----------------------------------------------------------------------------
(* The wave.                                                               *)

(* A queued call has not been looked at, but for an error it came with.    *)
QueuedFresh == \A c \in Queued : status[c] \in {"validating", "error"}

(* The loop awaits the checks of a wave before it awaits its runs.         *)
StepInPhase ==
  \A c \in Calls :
    /\ step[c] \in {"hook", "policy", "editing", "applying"} => phase = "validating"
    /\ step[c] \in {"running", "settling"} => phase = "executing"

(* A call whose coroutine has ended is decided, unless late output of its  *)
(* process in the background made it executing again; and while a wave is  *)
(* executed no decided call is left to be run.                             *)
IdleSettled ==
  \A c \in active : step[c] = "idle" =>
    /\ \/ status[c] \in Terminal \cup {"scheduled"}
       \/ status[c] = "executing" /\ c \in Detachable
    /\ phase = "executing" => status[c] # "scheduled"

OnlyDetachable == detached \subseteq Detachable

(* A loop that has ended leaves no queued call behind.                     *)
RestDrained == phase \in {"idle", "returning"} => queue = <<>>

WaveInv == QueuedFresh /\ StepInPhase /\ IdleSettled /\ RestDrained

LEMMA CancelAllQueuedWave ==
  ASSUME TypeOK, OnePlace, NEW st, CancelAllQueued(st), active' = active
  PROVE  /\ queue' = <<>> /\ Queued' = {}
         /\ \A c \in active : status'[c] = st[c]
         /\ completed' = completed \cup Queued
         /\ reports' = Reported(Queued)
BY EmptyInjective DEF TypeOK, StoreTypeOK, OnePlace, CancelAllQueued, Queued

LEMMA StartBatchWave ==
  ASSUME PlaceInv, WaveInv, NEW j \in Jobs, NEW p, StartBatch(j, p),
         phase \in {"idle", "returning"}, active = {}, active' = {}, step' = step
  PROVE  WaveInv'
<1>1. Queued' = BatchSet(j)
  BY StartBatchPlaces
<1>2. BatchSet(j) \subseteq Calls
  BY SchedulerAssumption, RangeOfSeq DEF BatchSet
<1>3. QueuedFresh'
  BY <1>1, <1>2 DEF QueuedFresh, StartBatch
<1>4. \A c \in Calls : step'[c] = "idle"
  BY DEF PlaceInv, SuspendedInWave
<1> QED
  BY <1>3, <1>4 DEF WaveInv, StepInPhase, IdleSettled, RestDrained, StartBatch

LEMMA ClientWave ==
  ASSUME PlaceInv, WaveInv, Client
  PROVE  WaveInv'
<1>1. ASSUME NEW j \in Jobs, ScheduleNow(j) PROVE WaveInv'
  BY <1>1, StartBatchWave DEF ScheduleNow
<1>2. ASSUME NEW j \in Jobs, ScheduleLater(j) PROVE WaveInv'
  BY <1>2 DEF ScheduleLater, storeVars, loopVars, WaveInv, QueuedFresh, Queued,
     StepInPhase, IdleSettled, RestDrained
<1>3. ASSUME NEW s \in Signals, Abort(s) PROVE WaveInv'
  BY <1>3 DEF Abort, storeVars, loopVars, WaveInv, QueuedFresh, Queued,
     StepInPhase, IdleSettled, RestDrained
<1>4. ASSUME CancelAll PROVE WaveInv'
  <2> DEFINE st == Updated(status, active \ Finished(status), "cancelled")
  <2>1. /\ queue' = <<>> /\ Queued' = {}
        /\ \A c \in active : status'[c] = st[c]
    BY <1>4, CancelAllQueuedWave DEF CancelAll, PlaceInv
  <2>2. \A c \in active : st[c] \in Terminal
    BY DEF PlaceInv, TypeOK, StoreTypeOK, Updated, Finished, Terminal
  <2>3. UNCHANGED <<active, step, phase>>
    BY <1>4 DEF CancelAll
  <2> HIDE DEF st
  <2> QED
    BY <2>1, <2>2, <2>3 DEF WaveInv, QueuedFresh, StepInPhase, IdleSettled, RestDrained,
       Terminal
<1> QED
  BY <1>1, <1>2, <1>3, <1>4 DEF Client

LEMMA LoopWave ==
  ASSUME PlaceInv, WaveInv, Loop
  PROVE  WaveInv'
<1> USE DEF storeVars, clientVars, loopVars
<1>1. ASSUME FinishLoop PROVE WaveInv'
  BY <1>1 DEF FinishLoop, WaveInv, QueuedFresh, Queued, StepInPhase, IdleSettled,
     RestDrained, PlaceInv, SuspendedInWave
<1>2. ASSUME StopLoop PROVE WaveInv'
  <2>1. queue' = <<>> /\ Queued' = {} /\ \A c \in active : status'[c] = status[c]
    BY <1>2, CancelAllQueuedWave DEF StopLoop, PlaceInv
  <2> QED
    BY <1>2, <2>1 DEF StopLoop, WaveInv, QueuedFresh, StepInPhase, IdleSettled,
       RestDrained, PlaceInv, SuspendedInWave
<1>3. ASSUME AnswerErrored PROVE WaveInv'
  <2>1. Queued' \subseteq Queued
    BY <1>3, HeadTailInjective DEF AnswerErrored, PlaceInv, OnePlace, TypeOK,
       StoreTypeOK, Queued
  <2> QED
    BY <1>3, <2>1 DEF AnswerErrored, WaveInv, QueuedFresh, StepInPhase, IdleSettled,
       RestDrained, PlaceInv
<1>4. ASSUME StartWave PROVE WaveInv'
  <2>1. PICK n \in 1..Len(queue) :
          /\ Dequeue(n)
          /\ step' = [c \in Calls |->
                       IF status[c] = "validating" /\ \E i \in 1..n : queue[i] = c
                       THEN "hook" ELSE step[c]]
    BY <1>4 DEF StartWave, IsWave
  <2> DEFINE front == {queue[i] : i \in 1..n}
             rest  == SubSeq(queue, n + 1, Len(queue))
  <2>2. active' = front /\ queue' = rest
    BY <1>4, <2>1 DEF StartWave, Dequeue
  <2>3. front \subseteq Queued /\ Queued' \subseteq Queued
    <3>1. queue \in Seq(Calls) /\ IsInjective(queue)
      BY DEF PlaceInv, TypeOK, StoreTypeOK, OnePlace
    <3>2. Range(rest) \cup front = Range(queue)
      BY <3>1, SplitInjective, Zenon
    <3> QED
      BY <2>2, <3>2, Zenon DEF Queued
  <2>4. QueuedFresh'
    BY <1>4, <2>3 DEF StartWave, WaveInv, QueuedFresh
  <2>5. StepInPhase'
    BY <1>4, <2>1 DEF StartWave, PlaceInv, SuspendedInWave, StepInPhase
  <2>6. IdleSettled'
    <3>1. \A c \in front : status[c] \in {"validating", "error"}
      BY <2>3 DEF WaveInv, QueuedFresh
    <3>2. front \subseteq Calls
      BY DEF PlaceInv, TypeOK, StoreTypeOK
    <3>3. phase' = "validating" /\ status' = status
      BY <1>4 DEF StartWave
    <3>4. \A c \in front : status[c] = "validating" => step'[c] = "hook"
      BY <2>1, <3>2
    <3> QED
      BY <2>2, <3>1, <3>3, <3>4 DEF IdleSettled, Terminal
  <2> QED
    BY <1>4, <2>4, <2>5, <2>6 DEF StartWave, WaveInv, RestDrained
<1>5. ASSUME RevisitActive PROVE WaveInv'
  BY <1>5 DEF RevisitActive, WaveInv, QueuedFresh, Queued, StepInPhase, IdleSettled,
     RestDrained, PlaceInv, SuspendedInWave
<1>6. ASSUME BeginExecution PROVE WaveInv'
  <2>1. \A c \in Calls : c \notin active => status'[c] = status[c]
    BY <1>6 DEF BeginExecution, Updated, PlaceInv, TypeOK, StoreTypeOK
  <2>2. QueuedFresh'
    BY <1>6, <2>1, RangeOfSeq DEF BeginExecution, WaveInv, QueuedFresh, Queued, PlaceInv,
       OnePlace, TypeOK, StoreTypeOK
  <2>3. \A c \in Calls : step[c] = "idle"
    BY <1>6 DEF BeginExecution, Coroutines, PlaceInv, SuspendedInWave
  <2>4. StepInPhase'
    BY <1>6, <2>3 DEF BeginExecution, StepInPhase
  <2>5. \A c \in active : status'[c] = IF status[c] = "scheduled"
                                       THEN IF Stopped THEN "cancelled" ELSE "executing"
                                       ELSE status[c]
    BY <1>6 DEF BeginExecution, Updated, ScheduledCalls, PlaceInv, TypeOK, StoreTypeOK
  <2>6. IdleSettled'
    <3>1. \A c \in active : step'[c] = "idle" /\ status[c] = "scheduled" => Stopped
      BY <1>6 DEF BeginExecution, ScheduledCalls, PlaceInv, TypeOK, StoreTypeOK
    <3>2. \A c \in active : status[c] \in Terminal \cup {"scheduled"}
      BY <1>6 DEF BeginExecution, ReadyToExecute
    <3>3. active' = active
      BY <1>6 DEF BeginExecution
    <3> QED
      BY <2>5, <3>1, <3>2, <3>3 DEF IdleSettled, Terminal
  <2> QED
    BY <1>6, <2>2, <2>4, <2>6 DEF BeginExecution, WaveInv, RestDrained
<1>7. ASSUME FinalizeWave PROVE WaveInv'
  <2>1. \A c \in Calls : step[c] = "idle"
    BY <1>7 DEF FinalizeWave, Coroutines, PlaceInv, SuspendedInWave
  <2>2. active' = active \ Finished(status) /\ UNCHANGED <<status, queue, step>>
    BY <1>7 DEF FinalizeWave, FinalizeCalls
  <2>3. \A c \in active :
          /\ \/ status[c] \in Terminal \cup {"scheduled"}
             \/ status[c] = "executing" /\ c \in Detachable
          /\ phase = "executing" => status[c] # "scheduled"
    BY <2>1 DEF PlaceInv, TypeOK, StoreTypeOK, WaveInv, IdleSettled
  <2>4. ASSUME Finished(status) = {}, active # {},
               \A c \in active : status[c] \notin {"awaiting_approval", "executing"}
        PROVE  FALSE
    <3>1. \A c \in active : status[c] = "scheduled"
      BY <2>3, <2>4 DEF Finished
    <3>2. ReadyToExecute
      BY <2>4, <3>1 DEF ReadyToExecute, ScheduledCalls
    <3> QED
      BY <1>7, <2>3, <2>4, <3>1, <3>2 DEF FinalizeWave
  <2>5. phase' = "loop"
    BY <1>7, <2>4 DEF FinalizeWave
  <2> QED
    BY <2>1, <2>2, <2>3, <2>5 DEF WaveInv, QueuedFresh, Queued, StepInPhase, IdleSettled,
       RestDrained, PlaceInv, TypeOK, StoreTypeOK
<1>8. ASSUME ReturnBatch PROVE WaveInv'
  <2> DEFINE p == [promise EXCEPT ![current] = "resolved"]
  <2>1. CASE requestQueue # <<>> /\ active = {} /\ StartBatch(Head(requestQueue), p)
    <3>1. Head(requestQueue) \in Jobs
      BY <2>1 DEF PlaceInv, TypeOK, SchedulerTypeOK
    <3> QED
      BY <1>8, <2>1, <3>1, StartBatchWave DEF ReturnBatch
  <2>2. CASE Rest(p)
    BY <1>8, <2>2 DEF ReturnBatch, Rest, WaveInv, QueuedFresh, Queued, StepInPhase,
       IdleSettled, RestDrained, PlaceInv, SuspendedInWave
  <2> QED
    BY <1>8, <2>1, <2>2 DEF ReturnBatch, ProcessNextInRequestQueue
<1> QED
  BY <1>1, <1>2, <1>3, <1>4, <1>5, <1>6, <1>7, <1>8 DEF Loop

(* One step of the coroutine of call c, which leaves it where the loop     *)
(* awaits it or decides the call.                                          *)
LEMMA StepKeepsWave ==
  ASSUME PlaceInv, WaveInv, NEW c \in Calls, step[c] # "idle",
         UNCHANGED <<queue, active, phase>>,
         \A d \in Calls : d # c => step'[d] = step[d] /\ status'[d] = status[d],
         step'[c] \in {"hook", "policy", "editing", "applying"} => phase = "validating",
         step'[c] \in {"running", "settling"} => phase = "executing",
         step'[c] = "idle" => /\ status'[c] \in Terminal \cup {"scheduled"}
                              /\ phase = "executing" => status'[c] # "scheduled"
  PROVE  WaveInv'
<1>1. active \subseteq Calls /\ Queued \subseteq Calls /\ c \in active /\ c \notin Queued
  BY RangeOfSeq DEF PlaceInv, TypeOK, StoreTypeOK, OnePlace, SuspendedInWave, Queued
<1>2. QueuedFresh'
  BY <1>1 DEF WaveInv, QueuedFresh, Queued
<1>3. StepInPhase'
  BY DEF WaveInv, StepInPhase
<1>4. IdleSettled'
  BY <1>1 DEF WaveInv, IdleSettled
<1>5. RestDrained'
  BY DEF WaveInv, RestDrained
<1> QED
  BY <1>2, <1>3, <1>4, <1>5 DEF WaveInv

LEMMA UpdatedOne ==
  ASSUME TypeOK, NEW c \in Calls, c \in active, NEW new, status' = Updated(status, {c}, new)
  PROVE  status'[c] = new /\ \A d \in Calls : d # c => status'[d] = status[d]
BY DEF Updated

LEMMA ThrowWave ==
  ASSUME PlaceInv, WaveInv, NEW c \in Calls, step[c] # "idle", Throw(c), UNCHANGED phase
  PROVE  WaveInv'
<1>1. c \in active
  BY DEF PlaceInv, SuspendedInWave
<1>2. PICK s \in {"error", "cancelled"} : status' = Updated(status, {c}, s)
  BY DEF Throw
<1>3. status'[c] = s /\ \A d \in Calls : d # c => status'[d] = status[d]
  BY <1>1, <1>2, UpdatedOne DEF PlaceInv
<1>4. step'[c] = "idle" /\ \A d \in Calls : d # c => step'[d] = step[d]
  BY DEF Throw, PlaceInv, TypeOK, SchedulerTypeOK
<1>5. UNCHANGED <<queue, active, phase>>
  BY DEF Throw
<1> QED
  BY <1>3, <1>4, <1>5, StepKeepsWave DEF Terminal

LEMMA CheckWave ==
  ASSUME PlaceInv, WaveInv, NEW c \in Calls, Check(c)
  PROVE  WaveInv'
<1> USE DEF CoroutineFrame, storeVars, loopVars
<1>1. step[c] # "idle"
  BY DEF Check, ExternalFailure, HookContinues, HookStops, PolicyAllows, PolicyDenies,
     PolicyAsks, NothingToConfirm, AskUser, EditorCloses, EditorUnavailable, EditApplied,
     Modify, WaitAborted, DecisionApplied
<1>2. c \in active /\ step \in [Calls -> Steps]
  BY <1>1 DEF PlaceInv, SuspendedInWave, TypeOK, SchedulerTypeOK
<1>3. CASE ExternalFailure(c) \/ WaitAborted(c)
  BY <1>1, <1>3, ThrowWave DEF ExternalFailure, WaitAborted
<1>4. CASE HookContinues(c)
  <2>1. /\ UNCHANGED <<queue, active, phase, status>> /\ phase = "validating"
        /\ step'[c] = "policy" /\ \A d \in Calls : d # c => step'[d] = step[d]
    BY <1>2, <1>4 DEF HookContinues, WaveInv, StepInPhase
  <2> QED
    BY <1>1, <2>1, StepKeepsWave
<1>5. CASE HookStops(c) \/ PolicyAllows(c) \/ PolicyDenies(c)
  <2>1. /\ UNCHANGED <<queue, active, phase>> /\ phase = "validating"
        /\ step'[c] = "idle" /\ \A d \in Calls : d # c => step'[d] = step[d]
    BY <1>2, <1>5 DEF HookStops, PolicyAllows, PolicyDenies, WaveInv, StepInPhase
  <2>2. PICK s \in {"error", "scheduled"} : status' = Updated(status, {c}, s)
    BY <1>5 DEF HookStops, PolicyAllows, PolicyDenies
  <2>3. status'[c] = s /\ \A d \in Calls : d # c => status'[d] = status[d]
    BY <1>2, <2>2, UpdatedOne DEF PlaceInv
  <2> QED
    BY <1>1, <2>1, <2>3, StepKeepsWave DEF Terminal
<1>6. CASE PolicyAsks(c)
  <2>1. CASE Throw(c)
    BY <1>1, <1>6, <2>1, ThrowWave DEF PolicyAsks
  <2>2. CASE step' = [step EXCEPT ![c] = "details"] /\ UNCHANGED storeVars
    <3>1. /\ UNCHANGED <<queue, active, phase, status>>
          /\ step'[c] = "details" /\ \A d \in Calls : d # c => step'[d] = step[d]
      BY <1>2, <1>6, <2>2 DEF PolicyAsks
    <3> QED
      BY <1>1, <3>1, StepKeepsWave
  <2> QED
    BY <1>6, <2>1, <2>2 DEF PolicyAsks
<1>7. CASE NothingToConfirm(c) \/ EditorUnavailable(c)
  <2>1. /\ UNCHANGED <<queue, active, phase, status>>
        /\ step'[c] \in {"details", "decided"}
        /\ \A d \in Calls : d # c => step'[d] = step[d]
    BY <1>2, <1>7 DEF NothingToConfirm, EditorUnavailable
  <2> QED
    BY <1>1, <2>1, StepKeepsWave
<1>8. CASE AskUser(c)
  <2>1. /\ UNCHANGED <<queue, active, phase>>
        /\ step'[c] = "asking" /\ \A d \in Calls : d # c => step'[d] = step[d]
    BY <1>2, <1>8 DEF AskUser
  <2>2. \A d \in Calls : d # c => status'[d] = status[d]
    BY <1>2, <1>8, UpdatedOne DEF AskUser, PlaceInv
  <2> QED
    BY <1>1, <2>1, <2>2, StepKeepsWave
<1>9. CASE EditorCloses(c) \/ EditApplied(c)
  <2>1. \/ Throw(c)
        \/ /\ UNCHANGED storeVars
           /\ \E t \in {"details", "decided"} : step' = [step EXCEPT ![c] = t]
    BY <1>9 DEF EditorCloses, EditApplied, Modify
  <2>2. UNCHANGED phase
    BY <1>9 DEF EditorCloses, EditApplied, Modify
  <2>3. CASE Throw(c)
    BY <1>1, <2>2, <2>3, ThrowWave
  <2>4. CASE /\ UNCHANGED storeVars
             /\ \E t \in {"details", "decided"} : step' = [step EXCEPT ![c] = t]
    <3>1. /\ step'[c] \in {"details", "decided"}
          /\ \A d \in Calls : d # c => step'[d] = step[d]
      BY <1>2, <2>4
    <3> QED
      BY <1>1, <2>2, <2>4, <3>1, StepKeepsWave
  <2> QED
    BY <2>1, <2>3, <2>4
<1>10. CASE DecisionApplied(c)
  <2>1. /\ UNCHANGED <<active, phase>> /\ phase = "validating"
        /\ step'[c] = "idle" /\ \A d \in Calls : d # c => step'[d] = step[d]
    BY <1>2, <1>10 DEF DecisionApplied
  <2>2. CASE CancelAllQueued(Updated(status, {c}, "cancelled"))
    <3> DEFINE st == Updated(status, {c}, "cancelled")
    <3>1. /\ queue' = <<>> /\ Queued' = {}
          /\ \A d \in active : status'[d] = st[d]
      BY <2>1, <2>2, CancelAllQueuedWave DEF PlaceInv
    <3>2. \A d \in active : st[d] = IF d = c THEN "cancelled" ELSE status[d]
      BY DEF Updated, PlaceInv, TypeOK, StoreTypeOK
    <3> HIDE DEF st
    <3>3. active \subseteq Calls
      BY DEF PlaceInv, TypeOK, StoreTypeOK
    <3> QED
      BY <2>1, <3>1, <3>2, <3>3 DEF WaveInv, QueuedFresh, StepInPhase, IdleSettled,
         RestDrained, Terminal
  <2>3. CASE status' = Updated(status, {c}, "scheduled") /\ UNCHANGED queue
    <3>1. status'[c] = "scheduled" /\ \A d \in Calls : d # c => status'[d] = status[d]
      BY <1>2, <2>3, UpdatedOne DEF PlaceInv
    <3> QED
      BY <1>1, <2>1, <2>3, <3>1, StepKeepsWave
  <2> QED
    BY <1>10, <2>2, <2>3 DEF DecisionApplied
<1> QED
  BY <1>3, <1>4, <1>5, <1>6, <1>7, <1>8, <1>9, <1>10 DEF Check

LEMMA RunWave ==
  ASSUME PlaceInv, SettlingHasResult, WaveInv, NEW c \in Calls, Run(c)
  PROVE  WaveInv'
<1> USE DEF CoroutineFrame, storeVars, loopVars
<1>1. step[c] # "idle"
  BY DEF Run, ToolReturns, RunEnds, TailCall, AskExpansion, ExpansionDecided
<1>2. c \in active /\ step \in [Calls -> Steps]
  BY <1>1 DEF PlaceInv, SuspendedInWave, TypeOK, SchedulerTypeOK
<1>3. CASE ToolReturns(c)
  <2>1. /\ UNCHANGED <<queue, active, phase, status>> /\ phase = "executing"
        /\ step'[c] = "settling" /\ \A d \in Calls : d # c => step'[d] = step[d]
    BY <1>2, <1>3 DEF ToolReturns, WaveInv, StepInPhase
  <2> QED
    BY <1>1, <2>1, StepKeepsWave
<1>4. CASE RunEnds(c)
  <2>1. /\ UNCHANGED <<queue, active, phase>>
        /\ step'[c] = "idle" /\ \A d \in Calls : d # c => step'[d] = step[d]
    BY <1>2, <1>4 DEF RunEnds
  <2>2. status'[c] = result[c] /\ \A d \in Calls : d # c => status'[d] = status[d]
    BY <1>2, <1>4, UpdatedOne DEF RunEnds, PlaceInv
  <2>3. result[c] \in Terminal
    BY <1>4 DEF RunEnds, SettlingHasResult, PlaceInv, TypeOK, SchedulerTypeOK, Results,
       Terminal
  <2> QED
    BY <1>1, <2>1, <2>2, <2>3, StepKeepsWave DEF Terminal
<1>5. CASE TailCall(c)
  <2>1. /\ active' = active \ {c} /\ queue' = <<c>> \o queue /\ UNCHANGED phase
        /\ step' = [step EXCEPT ![c] = "idle"]
        /\ \E s \in {"validating", "error"} : status' = [status EXCEPT ![c] = s]
        /\ phase = "executing"
    BY <1>5 DEF TailCall, ReplaceActiveCallWithTailCall, WaveInv, StepInPhase
  <2>2. c \notin Queued
    BY <1>2 DEF PlaceInv, OnePlace
  <2>3. Queued' = Queued \cup {c}
    BY <2>1, <2>2, ConsInjective DEF PlaceInv, TypeOK, StoreTypeOK, OnePlace, Queued
  <2>4. status \in [Calls -> Statuses] /\ active \subseteq Calls /\ Queued \subseteq Calls
    BY RangeOfSeq DEF PlaceInv, TypeOK, StoreTypeOK, Queued
  <2>5. QueuedFresh'
    BY <2>1, <2>3, <2>4 DEF WaveInv, QueuedFresh
  <2>6. StepInPhase' /\ IdleSettled' /\ RestDrained'
    BY <1>2, <2>1, <2>4 DEF WaveInv, StepInPhase, IdleSettled, RestDrained
  <2> QED
    BY <2>5, <2>6 DEF WaveInv
<1>6. CASE AskExpansion(c)
  <2>1. CASE Throw(c)
    BY <1>1, <1>6, <2>1, ThrowWave DEF AskExpansion
  <2>2. CASE /\ status' = Updated(status, {c}, "awaiting_approval")
             /\ step' = [step EXCEPT ![c] = "details"]
             /\ UNCHANGED <<queue, active, completed, reports>>
    <3>1. step'[c] = "details" /\ \A d \in Calls : d # c => step'[d] = step[d]
      BY <1>2, <2>2
    <3>2. \A d \in Calls : d # c => status'[d] = status[d]
      BY <1>2, <2>2, UpdatedOne DEF PlaceInv
    <3> QED
      BY <1>1, <1>6, <2>2, <3>1, <3>2, StepKeepsWave DEF AskExpansion
  <2> QED
    BY <1>6, <2>1, <2>2 DEF AskExpansion
<1>7. CASE ExpansionDecided(c)
  <2>1. PICK again \in BOOLEAN, s \in {"error", "cancelled", "executing"} :
          /\ status' = Updated(status, {c}, s)
          /\ s = "executing" => again
          /\ step' = [step EXCEPT ![c] = IF again THEN "running" ELSE "idle"]
    BY <1>7 DEF ExpansionDecided
  <2>2. \A d \in Calls : d # c => step'[d] = step[d] /\ status'[d] = status[d]
    BY <1>2, <2>1, UpdatedOne DEF PlaceInv
  <2>3. step'[c] = IF again THEN "running" ELSE "idle"
    BY <1>2, <2>1
  <2>4. status'[c] = s
    BY <1>2, <2>1, UpdatedOne DEF PlaceInv
  <2>5. UNCHANGED <<queue, active, phase>> /\ phase = "executing"
    BY <1>7 DEF ExpansionDecided
  <2> QED
    BY <1>1, <2>1, <2>2, <2>3, <2>4, <2>5, StepKeepsWave DEF Terminal
<1> QED
  BY <1>3, <1>4, <1>5, <1>6, <1>7 DEF Run

LEMMA OutsideWave ==
  ASSUME PlaceInv, OnlyDetachable, WaveInv, NEW c \in Calls, User(c) \/ Output(c)
  PROVE  WaveInv'
<1> USE DEF CoroutineFrame, storeVars, loopVars
<1>1. CASE User(c) \/ Detach(c)
  <2>1. step[c] # "idle" /\ UNCHANGED <<queue, active, phase, status>>
    BY <1>1 DEF User, UserProceeds, UserCancels, UserOpensEditor, UserAcceptsEdited, Detach
  <2>2. PICK t \in {"decided", "editing", "applying", "settling"} :
          /\ step' = [step EXCEPT ![c] = t]
          /\ t \in {"editing", "applying"} => phase = "validating"
          /\ t = "settling" => phase = "executing"
    BY <1>1 DEF User, UserProceeds, UserCancels, UserOpensEditor, UserAcceptsEdited,
       Detach, WaveInv, StepInPhase
  <2>3. step'[c] = t /\ \A d \in Calls : d # c => step'[d] = step[d]
    BY <2>2 DEF PlaceInv, TypeOK, SchedulerTypeOK
  <2> QED
    BY <2>1, <2>2, <2>3, StepKeepsWave
<1>2. CASE LiveOutput(c)
  <2>1. UNCHANGED <<queue, active, phase, step>>
    BY <1>2 DEF LiveOutput
  <2>2. \A d \in Calls : \/ status'[d] = status[d]
                         \/ /\ d \in active /\ status'[d] = "executing"
                            /\ step[d] = "idle" => d \in Detachable
    BY <1>2 DEF LiveOutput, Updated, OnlyDetachable, PlaceInv, TypeOK, StoreTypeOK
  <2>3. Queued \cap active = {} /\ Queued \subseteq Calls /\ active \subseteq Calls
    BY RangeOfSeq DEF PlaceInv, OnePlace, TypeOK, StoreTypeOK, Queued
  <2>4. QueuedFresh'
    BY <2>1, <2>2, <2>3 DEF WaveInv, QueuedFresh, Queued
  <2> QED
    BY <2>1, <2>2, <2>3, <2>4 DEF WaveInv, StepInPhase, IdleSettled, RestDrained
<1>3. CASE DetachedExits(c)
  BY <1>3 DEF DetachedExits, WaveInv, QueuedFresh, Queued, StepInPhase, IdleSettled,
     RestDrained
<1> QED
  BY <1>1, <1>2, <1>3 DEF Output

LEMMA OnlyDetachableStep ==
  ASSUME OnlyDetachable, [Next]_vars
  PROVE  OnlyDetachable'
<1> USE DEF OnlyDetachable, runVars
<1>1. CASE UNCHANGED vars
  BY <1>1 DEF vars
<1>2. CASE Client
  BY <1>2 DEF Client, ScheduleNow, ScheduleLater, Abort, CancelAll
<1>3. CASE Loop
  BY <1>3 DEF Loop, FinishLoop, StopLoop, AnswerErrored, StartWave, RevisitActive,
     BeginExecution, FinalizeWave, ReturnBatch
<1>4. ASSUME NEW c \in Calls, Check(c) PROVE OnlyDetachable'
  BY <1>4 DEF Check, ExternalFailure, HookContinues, HookStops, PolicyAllows,
     PolicyDenies, PolicyAsks, NothingToConfirm, AskUser, EditorCloses,
     EditorUnavailable, EditApplied, WaitAborted, DecisionApplied, Modify
<1>5. ASSUME NEW c \in Calls, Run(c) \/ User(c) PROVE OnlyDetachable'
  BY <1>5 DEF Run, ToolReturns, RunEnds, TailCall, AskExpansion, ExpansionDecided,
     User, UserProceeds, UserCancels, UserOpensEditor, UserAcceptsEdited
<1>6. ASSUME NEW c \in Calls, Output(c) PROVE OnlyDetachable'
  BY <1>6 DEF Output, Detach, LiveOutput, DetachedExits
<1> QED
  BY <1>1, <1>2, <1>3, <1>4, <1>5, <1>6 DEF Next, AllSettled

LEMMA WaveStep ==
  ASSUME PlaceInv, SettlingHasResult, OnlyDetachable, WaveInv, [Next]_vars
  PROVE  WaveInv'
<1>1. CASE UNCHANGED vars
  BY <1>1 DEF vars, storeVars, loopVars, WaveInv, QueuedFresh, Queued, StepInPhase,
     IdleSettled, RestDrained
<1>2. CASE Next
  BY <1>1, <1>2, ClientWave, LoopWave, CheckWave, RunWave, OutsideWave DEF Next, AllSettled
<1> QED
  BY <1>1, <1>2

-----------------------------------------------------------------------------
(* The batch.                                                              *)

Present == Queued \cup active \cup completed

(* The scheduler is busy with one job, the one its loop works for.         *)
OneBatchAtATime ==
  /\ current = NoJob <=> phase = "idle"
  /\ \A j \in Jobs : promise[j] = "running" <=> j = current

(* The requests in line are those of which the caller waits to be served.  *)
LineOfQueued ==
  /\ IsInjective(requestQueue)
  /\ \A j \in Jobs : j \in Range(requestQueue) <=> promise[j] = "queued"

(* The store holds calls of the current batch only.                        *)
OwnCalls ==
  /\ current # NoJob => Present \subseteq BatchSet(current)
  /\ current = NoJob => completed = {}

(* A caller was given calls of its own, which are gone from the store.     *)
AnswersApart ==
  \A j \in Jobs :
    /\ answer[j] \subseteq BatchSet(j)
    /\ promise[j] # "resolved" => answer[j] = {}
    /\ Present \cap answer[j] = {}

ReportInv == OneBatchAtATime /\ LineOfQueued /\ OwnCalls /\ AnswersApart /\ ReportedOnce

LEMMA AnsweredMember ==
  \A c : c \in Answered <=> c \in completed \/ \E j \in Jobs : c \in answer[j]
BY DEF Answered

(* Calls of S that are in the store but not completed get completed, and   *)
(* the others stay where they are or move within the store; no promise is  *)
(* made running or resolved.                                               *)
LEMMA MovesKeepReport ==
  ASSUME TypeOK, ReportInv, NEW S, S \subseteq Present, S \cap completed = {},
         current = NoJob => S = {},
         completed' = completed \cup S, reports' = Reported(S),
         Queued' \cup active' \subseteq Present,
         UNCHANGED <<answer, current>>, LineOfQueued',
         \A j \in Jobs : /\ promise'[j] = "running" <=> promise[j] = "running"
                         /\ promise'[j] = "resolved" <=> promise[j] = "resolved",
         phase' = "idle" <=> phase = "idle"
  PROVE  ReportInv'
<1>1. OneBatchAtATime'
  BY DEF ReportInv, OneBatchAtATime
<1>3. Present' \subseteq Present
  BY DEF Present
<1>4. OwnCalls'
  BY <1>3 DEF ReportInv, OwnCalls
<1>5. AnswersApart'
  BY <1>3 DEF ReportInv, AnswersApart
<1>6. ASSUME NEW c \in Calls PROVE reports'[c] = IF c \in Answered' THEN 1 ELSE 0
  <2>1. c \in Answered' <=> c \in Answered \/ c \in S
    BY AnsweredMember DEF Answered
  <2>2. c \in S => c \notin Answered
    BY AnsweredMember DEF ReportInv, AnswersApart
  <2>3. reports[c] = IF c \in Answered THEN 1 ELSE 0
    BY DEF ReportInv, ReportedOnce
  <2>4. reports'[c] = IF c \in S THEN reports[c] + 1 ELSE reports[c]
    BY DEF Reported
  <2> QED
    BY <2>1, <2>2, <2>3, <2>4
<1> QED
  BY <1>1, <1>4, <1>5, <1>6 DEF ReportInv, ReportedOnce

(* Nothing happens to completed calls.                                     *)
LEMMA OthersKeepReport ==
  ASSUME TypeOK, ReportInv, UNCHANGED <<completed, reports>>,
         Queued' \cup active' \subseteq Present,
         UNCHANGED <<promise, answer, requestQueue, current>>,
         phase' = "idle" <=> phase = "idle"
  PROVE  ReportInv'
<1>1. reports' = Reported({})
  BY DEF Reported, TypeOK, StoreTypeOK
<1>2. LineOfQueued'
  BY DEF ReportInv, LineOfQueued
<1> QED
  BY <1>1, <1>2, MovesKeepReport

(* Job j, whose caller had no answer yet, is served next.                  *)
LEMMA StartBatchReport ==
  ASSUME PlaceInv, ReportInv, NEW j \in Jobs, NEW p \in [Jobs -> Promises],
         StartBatch(j, p),
         phase \in {"idle", "returning"}, active = {}, active' = {}, step' = step,
         reports' = reports, \A c \in Calls : c \in Answered' <=> c \in Answered,
         \A k \in Jobs : answer'[k] \subseteq BatchSet(k),
         \A k \in Jobs : promise'[k] # "resolved" => answer'[k] = {},
         \A k \in Jobs : k # j => p[k] # "running"
  PROVE  OneBatchAtATime' /\ OwnCalls' /\ AnswersApart' /\ ReportedOnce'
<1>1. Queued' = BatchSet(j) /\ Present' = BatchSet(j)
  BY StartBatchPlaces DEF Present, StartBatch, ClearBatch
<1>2. current' = j /\ phase' = "loop" /\ promise' = [p EXCEPT ![j] = "running"]
  BY DEF StartBatch
<1>3. OneBatchAtATime'
  BY <1>2, SchedulerAssumption DEF OneBatchAtATime
<1>4. OwnCalls'
  BY <1>1, <1>2, SchedulerAssumption DEF OwnCalls
<1>5. AnswersApart'
  BY <1>1, <1>2, SchedulerAssumption DEF AnswersApart
<1>6. ReportedOnce'
  BY DEF ReportInv, ReportedOnce
<1> QED
  BY <1>3, <1>4, <1>5, <1>6

(* Requests join or leave the line.                                        *)
LEMMA LineKeepsReport ==
  ASSUME TypeOK, ReportInv, LineOfQueued',
         UNCHANGED <<queue, active, completed, reports, answer, current, phase>>,
         \A j \in Jobs : /\ promise'[j] = "running" <=> promise[j] = "running"
                         /\ promise'[j] = "resolved" <=> promise[j] = "resolved"
  PROVE  ReportInv'
<1> DEFINE S == {}
<1>1. reports' = Reported(S) /\ completed' = completed \cup S
  BY DEF Reported, TypeOK, StoreTypeOK
<1>2. S \subseteq Present /\ S \cap completed = {} /\ S = {}
  OBVIOUS
<1>3. Queued' \cup active' \subseteq Present
  BY DEF Queued, Present
<1> HIDE DEF S
<1> QED
  BY <1>1, <1>2, <1>3, MovesKeepReport

LEMMA ClientReport ==
  ASSUME PlaceInv, WaveInv, ReportInv, Client
  PROVE  ReportInv'
<1> USE DEF PlaceInv, TypeOK, SchedulerTypeOK, storeVars, loopVars
<1>1. ASSUME NEW j \in Jobs, ScheduleNow(j) PROVE ReportInv'
  <2>1. completed = {} /\ completed' = {}
    BY <1>1 DEF ScheduleNow, StartBatch, ClearBatch, ReportInv, OneBatchAtATime, OwnCalls
  <2>2. \A c \in Calls : c \in Answered' <=> c \in Answered
    BY <1>1, <2>1 DEF ScheduleNow, Answered
  <2>3. /\ \A k \in Jobs : answer'[k] \subseteq BatchSet(k)
        /\ \A k \in Jobs : promise'[k] # "resolved" => answer'[k] = {}
        /\ \A k \in Jobs : k # j => promise[k] # "running"
    BY <1>1, SchedulerAssumption
       DEF ScheduleNow, StartBatch, ReportInv, OneBatchAtATime, AnswersApart
  <2>4. OneBatchAtATime' /\ OwnCalls' /\ AnswersApart' /\ ReportedOnce'
    BY <1>1, <2>2, <2>3, StartBatchReport DEF ScheduleNow
  <2>5. LineOfQueued'
    BY <1>1 DEF ScheduleNow, StartBatch, ReportInv, LineOfQueued
  <2> QED
    BY <2>4, <2>5 DEF ReportInv
<1>2. ASSUME NEW j \in Jobs, ScheduleLater(j) PROVE ReportInv'
  <2>1. j \notin Range(requestQueue) /\ promise[j] = "unscheduled"
    BY <1>2 DEF ScheduleLater, ReportInv, LineOfQueued
  <2>2. IsInjective(Enqueued(j)) /\ Range(Enqueued(j)) = Range(requestQueue) \cup {j}
    BY <2>1, AppendInjective DEF Enqueued, ReportInv, LineOfQueued
  <2>3. LineOfQueued'
    BY <1>2, <2>1, <2>2 DEF ScheduleLater, ReportInv, LineOfQueued
  <2>4. \A k \in Jobs : /\ promise'[k] = "running" <=> promise[k] = "running"
                        /\ promise'[k] = "resolved" <=> promise[k] = "resolved"
    BY <1>2, <2>1 DEF ScheduleLater
  <2> QED
    BY <1>2, <2>3, <2>4, LineKeepsReport DEF ScheduleLater
<1>3. ASSUME NEW s \in Signals, Abort(s) PROVE ReportInv'
  <2> DEFINE keep == {j \in Jobs : SignalOf[j] # s}
  <2>1. IsInjective(requestQueue') /\ Range(requestQueue') = Range(requestQueue) \cap keep
    <3>1. requestQueue \in Seq(Jobs) /\ IsInjective(requestQueue) /\ keep \in SUBSET Jobs
      BY DEF ReportInv, LineOfQueued
    <3>2. requestQueue' \in Surviving(requestQueue, keep)
      BY <1>3 DEF Abort
    <3>3. \A r \in Surviving(requestQueue, keep) :
            IsInjective(r) /\ Range(r) = Range(requestQueue) \cap keep
      BY <3>1, SurvivingInjective
    <3> QED
      BY <3>2, <3>3, Zenon
  <2>2. LineOfQueued'
    BY <1>3, <2>1 DEF Abort, ReportInv, LineOfQueued
  <2>3. \A k \in Jobs : /\ promise'[k] = "running" <=> promise[k] = "running"
                        /\ promise'[k] = "resolved" <=> promise[k] = "resolved"
    BY <1>3 DEF Abort, ReportInv, LineOfQueued
  <2> QED
    BY <1>3, <2>2, <2>3, LineKeepsReport DEF Abort
<1>4. ASSUME CancelAll PROVE ReportInv'
  <2>1. /\ Queued' = {}
        /\ completed' = completed \cup Queued
        /\ reports' = Reported(Queued)
    BY <1>4, CancelAllQueuedWave DEF CancelAll
  <2>2. LineOfQueued'
    BY <1>4, EmptyInjective DEF CancelAll, ReportInv, LineOfQueued
  <2>3. \A k \in Jobs : /\ promise'[k] = "running" <=> promise[k] = "running"
                        /\ promise'[k] = "resolved" <=> promise[k] = "resolved"
    BY <1>4 DEF CancelAll, ReportInv, LineOfQueued
  <2>4. current = NoJob => Queued = {}
    BY EmptyInjective DEF WaveInv, RestDrained, ReportInv, OneBatchAtATime, Queued
  <2>5. Queued \subseteq Present /\ Queued \cap completed = {}
    BY DEF OnePlace, Present
  <2> QED
    BY <1>4, <2>1, <2>2, <2>3, <2>4, <2>5, MovesKeepReport DEF CancelAll, Present
<1> QED
  BY <1>1, <1>2, <1>3, <1>4 DEF Client

LEMMA LoopReport ==
  ASSUME PlaceInv, WaveInv, ReportInv, Loop
  PROVE  ReportInv'
<1> USE DEF PlaceInv, TypeOK, SchedulerTypeOK, storeVars, clientVars, loopVars
<1>1. ASSUME FinishLoop \/ RevisitActive PROVE ReportInv'
  BY <1>1, OthersKeepReport DEF FinishLoop, RevisitActive, Queued, Present
<1>2. ASSUME StopLoop PROVE ReportInv'
  <2>1. /\ Queued' = {}
        /\ completed' = completed \cup Queued
        /\ reports' = Reported(Queued)
    BY <1>2, CancelAllQueuedWave DEF StopLoop
  <2>2. Queued \subseteq Present /\ Queued \cap completed = {} /\ current # NoJob
    BY <1>2 DEF OnePlace, Present, StopLoop, ReportInv, OneBatchAtATime
  <2>3. LineOfQueued'
    BY <1>2 DEF StopLoop, ReportInv, LineOfQueued
  <2> QED
    BY <1>2, <2>1, <2>2, <2>3, MovesKeepReport DEF StopLoop, Present
<1>3. ASSUME AnswerErrored PROVE ReportInv'
  <2> DEFINE c == Head(queue)
  <2>1. c \in Queued /\ Queued' \subseteq Queued
    BY <1>3, HeadTailInjective DEF AnswerErrored, OnePlace, StoreTypeOK, Queued
  <2>2. {c} \subseteq Present /\ {c} \cap completed = {} /\ current # NoJob
    BY <1>3, <2>1 DEF OnePlace, Present, AnswerErrored, ReportInv, OneBatchAtATime
  <2>3. LineOfQueued'
    BY <1>3 DEF AnswerErrored, ReportInv, LineOfQueued
  <2>4. completed' = completed \cup {c} /\ reports' = Reported({c})
    BY <1>3 DEF AnswerErrored
  <2>5. UNCHANGED <<active, promise, answer, current, phase>>
    BY <1>3 DEF AnswerErrored
  <2> HIDE DEF c
  <2> QED
    BY <2>1, <2>2, <2>3, <2>4, <2>5, MovesKeepReport DEF Present
<1>4. ASSUME StartWave PROVE ReportInv'
  <2>1. PICK n \in 1..Len(queue) : Dequeue(n)
    BY <1>4 DEF StartWave, IsWave
  <2> DEFINE front == {queue[i] : i \in 1..n}
             rest  == SubSeq(queue, n + 1, Len(queue))
  <2>2. active = {} /\ active' = front /\ queue' = rest
    BY <1>4, <2>1 DEF StartWave, Dequeue
  <2>3. queue \in Seq(Calls) /\ IsInjective(queue)
    BY DEF StoreTypeOK, OnePlace
  <2>4. Range(rest) \cup front = Range(queue)
    BY <2>3, SplitInjective, Zenon
  <2>5. Queued' \cup active' \subseteq Present
    BY <2>2, <2>4 DEF Queued, Present
  <2> QED
    BY <1>4, <2>5, OthersKeepReport DEF StartWave
<1>5. ASSUME BeginExecution PROVE ReportInv'
  BY <1>5, OthersKeepReport DEF BeginExecution, Queued, Present
<1>6. ASSUME FinalizeWave PROVE ReportInv'
  <2>1. /\ completed' = completed \cup Finished(status)
        /\ reports' = Reported(Finished(status))
        /\ active' = active \ Finished(status)
    BY <1>6 DEF FinalizeWave, FinalizeCalls
  <2>2. /\ Finished(status) \subseteq active
        /\ Finished(status) \subseteq Present
        /\ Finished(status) \cap completed = {}
    BY DEF Finished, Present, OnePlace
  <2>3. LineOfQueued' /\ current # NoJob
    BY <1>6 DEF FinalizeWave, ReportInv, LineOfQueued, OneBatchAtATime
  <2>4. Queued' \cup active' \subseteq Present
    BY <1>6, <2>1 DEF FinalizeWave, Queued, Present
  <2>5. /\ UNCHANGED <<promise, answer, current>>
        /\ phase' = "idle" <=> phase = "idle"
    BY <1>6 DEF FinalizeWave
  <2> QED
    BY <2>1, <2>2, <2>3, <2>4, <2>5, MovesKeepReport
<1>7. ASSUME ReturnBatch PROVE ReportInv'
  <2> DEFINE p == [promise EXCEPT ![current] = "resolved"]
  <2>1. current \in Jobs /\ promise[current] = "running" /\ answer[current] = {}
    BY <1>7 DEF ReturnBatch, ReportInv, OneBatchAtATime, AnswersApart
  <2>2. completed \subseteq BatchSet(current)
    BY <2>1, SchedulerAssumption DEF ReportInv, OwnCalls, Present
  <2>3. answer' = [answer EXCEPT ![current] = completed] /\ reports' = reports
    BY <1>7 DEF ReturnBatch
  <2>4. \A k \in Jobs : answer'[k] = IF k = current THEN completed ELSE answer[k]
    BY <2>3
  <2>5. completed' = {}
    BY <1>7 DEF ReturnBatch, ProcessNextInRequestQueue, StartBatch, Rest, ClearBatch
  <2>6. \A c \in Calls : c \in Answered' <=> c \in Answered
    BY <2>1, <2>4, <2>5 DEF Answered
  <2>7. /\ p \in [Jobs -> Promises]
        /\ \A k \in Jobs : p[k] = IF k = current THEN "resolved" ELSE promise[k]
    BY DEF Promises
  <2>8. /\ \A k \in Jobs : answer'[k] \subseteq BatchSet(k)
        /\ \A k \in Jobs : p[k] # "resolved" => answer'[k] = {}
        /\ \A k \in Jobs : p[k] # "running"
    BY <2>2, <2>4, <2>7 DEF ReportInv, AnswersApart, OneBatchAtATime
  <2> HIDE DEF p
  <2>9. CASE /\ requestQueue # <<>> /\ active = {}
             /\ StartBatch(Head(requestQueue), p)
             /\ requestQueue' = Tail(requestQueue)
    <3> DEFINE j == Head(requestQueue)
    <3>1. /\ j \in Range(requestQueue)
          /\ IsInjective(Tail(requestQueue))
          /\ j \notin Range(Tail(requestQueue))
          /\ Range(Tail(requestQueue)) \cup {j} = Range(requestQueue)
      BY <2>9, HeadTailInjective DEF ReportInv, LineOfQueued
    <3>2. j \in Jobs
      BY <2>9
    <3>3. promise[j] = "queued" /\ j # current
      BY <2>1, <3>1, <3>2 DEF ReportInv, LineOfQueued
    <3>4. promise' = [p EXCEPT ![j] = "running"]
      BY <2>9 DEF StartBatch
    <3>5. \A k \in Jobs : promise'[k] # "resolved" => answer'[k] = {}
      BY <2>7, <2>8, <3>2, <3>3, <3>4 DEF ReportInv, AnswersApart
    <3>6. OneBatchAtATime' /\ OwnCalls' /\ AnswersApart' /\ ReportedOnce'
      BY <1>7, <2>3, <2>6, <2>7, <2>8, <2>9, <3>2, <3>5, StartBatchReport DEF ReturnBatch
    <3>7. LineOfQueued'
      BY <2>1, <2>7, <2>9, <3>1, <3>2, <3>3, <3>4 DEF ReportInv, LineOfQueued
    <3> QED
      BY <3>6, <3>7 DEF ReportInv
  <2>10. CASE Rest(p)
    <3>1. /\ phase' = "idle" /\ current' = NoJob /\ promise' = p /\ UNCHANGED queue
          /\ active' = active
      BY <1>7, <2>10 DEF Rest, ReturnBatch
    <3>2. OneBatchAtATime'
      BY <2>8, <3>1, SchedulerAssumption DEF OneBatchAtATime
    <3>3. IsInjective(requestQueue') /\ Range(requestQueue') = Range(requestQueue)
      <4>1. CASE requestQueue = <<>>
        BY <2>10, <4>1, EmptyInjective DEF Rest
      <4>2. CASE requestQueue # <<>>
        <5> DEFINE h == Head(requestQueue)
                   t == Tail(requestQueue)
        <5>1. /\ IsInjective(t) /\ h \notin Range(t)
              /\ Range(t) \cup {h} = Range(requestQueue)
          BY <4>2, HeadTailInjective DEF ReportInv, LineOfQueued
        <5>2. h \in Jobs /\ t \in Seq(Jobs)
          BY <4>2
        <5>3. requestQueue' = Append(t, h)
          BY <2>10, <4>2 DEF Rest
        <5> HIDE DEF h, t
        <5>4. IsInjective(Append(t, h)) /\ Range(Append(t, h)) = Range(t) \cup {h}
          BY <5>1, <5>2, AppendInjective
        <5> QED
          BY <5>1, <5>3, <5>4, Zenon
      <4> QED
        BY <4>1, <4>2
    <3>4. LineOfQueued'
      BY <2>1, <2>7, <3>1, <3>3 DEF ReportInv, LineOfQueued
    <3>5. OwnCalls'
      BY <2>5, <3>1 DEF OwnCalls
    <3>6. Present' = active
      BY <1>7, <2>5, <3>1, EmptyInjective
         DEF ReturnBatch, WaveInv, RestDrained, Present, Queued
    <3>7. AnswersApart'
      BY <2>4, <2>8, <3>1, <3>6 DEF ReportInv, AnswersApart, OnePlace, Present
    <3>8. ReportedOnce'
      BY <2>3, <2>6 DEF ReportInv, ReportedOnce
    <3> QED
      BY <3>2, <3>4, <3>5, <3>7, <3>8 DEF ReportInv
  <2> QED
    BY <1>7, <2>9, <2>10 DEF ReturnBatch, ProcessNextInRequestQueue, p
<1> QED
  BY <1>1, <1>2, <1>3, <1>4, <1>5, <1>6, <1>7 DEF Loop

LEMMA CoroutineReport ==
  ASSUME PlaceInv, ReportInv, NEW c \in Calls, Check(c) \/ Run(c) \/ User(c) \/ Output(c)
  PROVE  ReportInv'
<1> USE DEF CoroutineFrame, storeVars, clientVars, loopVars
<1>1. CASE DecisionApplied(c) /\ outcome[c] = "cancel"
  <2>1. /\ CancelAllQueued(Updated(status, {c}, "cancelled"))
        /\ UNCHANGED <<active, clientVars, loopVars>> /\ step[c] # "idle"
    BY <1>1 DEF DecisionApplied
  <2>2. /\ Queued' = {}
        /\ completed' = completed \cup Queued
        /\ reports' = Reported(Queued)
    BY <2>1, CancelAllQueuedWave DEF PlaceInv
  <2>3. Queued \subseteq Present /\ Queued \cap completed = {} /\ current # NoJob
    BY <2>1 DEF PlaceInv, OnePlace, SuspendedInWave, Present, ReportInv, OneBatchAtATime
  <2>4. LineOfQueued'
    BY <2>1 DEF ReportInv, LineOfQueued
  <2> QED
    BY <2>1, <2>2, <2>3, <2>4, MovesKeepReport DEF PlaceInv, Present
<1>2. CASE TailCall(c)
  <2>1. /\ active' = active \ {c} /\ queue' = <<c>> \o queue /\ step[c] # "idle"
        /\ UNCHANGED <<completed, reports, clientVars, loopVars>>
    BY <1>2 DEF TailCall, ReplaceActiveCallWithTailCall
  <2>2. c \in active /\ c \notin Queued
    BY <2>1 DEF PlaceInv, OnePlace, SuspendedInWave
  <2>3. Queued' = Queued \cup {c}
    BY <2>1, <2>2, ConsInjective DEF PlaceInv, TypeOK, StoreTypeOK, OnePlace, Queued
  <2> QED
    BY <2>1, <2>2, <2>3, OthersKeepReport DEF PlaceInv, Present
<1>3. CASE ~TailCall(c) /\ ~(DecisionApplied(c) /\ outcome[c] = "cancel")
  <2>1. UNCHANGED <<queue, active, completed, reports, clientVars, loopVars>>
    <3>1. CASE Check(c)
      BY <1>3, <3>1 DEF Check, ExternalFailure, HookContinues, HookStops, PolicyAllows,
         PolicyDenies, PolicyAsks, NothingToConfirm, AskUser, EditorCloses,
         EditorUnavailable, EditApplied, WaitAborted, DecisionApplied, Modify, Throw
    <3>2. CASE Run(c)
      BY <1>3, <3>2 DEF Run, ToolReturns, RunEnds, AskExpansion, ExpansionDecided, Throw
    <3>3. CASE User(c) \/ Output(c)
      BY <3>3 DEF User, UserProceeds, UserCancels, UserOpensEditor, UserAcceptsEdited,
         Output, Detach, LiveOutput, DetachedExits
    <3> QED
      BY <3>1, <3>2, <3>3
  <2> QED
    BY <2>1, OthersKeepReport DEF PlaceInv, Queued, Present
<1> QED
  BY <1>1, <1>2, <1>3

LEMMA ReportStep ==
  ASSUME PlaceInv, WaveInv, ReportInv, [Next]_vars
  PROVE  ReportInv'
<1>1. CASE UNCHANGED vars
  BY <1>1, OthersKeepReport DEF vars, storeVars, clientVars, loopVars, PlaceInv, Queued,
     Present
<1>2. CASE Next
  BY <1>1, <1>2, ClientReport, LoopReport, CoroutineReport DEF Next, AllSettled
<1> QED
  BY <1>1, <1>2

LEMMA ReportInvariant == Spec => [](OnlyDetachable /\ WaveInv /\ ReportInv)
<1>1. Init => OnlyDetachable /\ WaveInv /\ ReportInv
  <2> SUFFICES ASSUME Init PROVE OnlyDetachable /\ WaveInv /\ ReportInv
    OBVIOUS
  <2>0. OnlyDetachable
    BY DEF Init, OnlyDetachable
  <2>1. queue = <<>> /\ Queued = {} /\ Present = {} /\ Answered = {}
    BY EmptyInjective DEF Init, StoreInit, Queued, Present, Answered
  <2>2. WaveInv
    BY <2>1 DEF Init, StoreInit, WaveInv, QueuedFresh, StepInPhase, IdleSettled, RestDrained
  <2>3. ReportInv
    BY <2>1, EmptyInjective, SchedulerAssumption DEF Init, StoreInit, ReportInv,
       OneBatchAtATime, LineOfQueued, OwnCalls, AnswersApart, ReportedOnce
  <2> QED
    BY <2>0, <2>2, <2>3
<1>2. PlaceInv /\ SettlingHasResult /\ OnlyDetachable /\ WaveInv /\ ReportInv /\ [Next]_vars
      => OnlyDetachable' /\ WaveInv' /\ ReportInv'
  BY OnlyDetachableStep, WaveStep, ReportStep
<1> QED
  BY <1>1, <1>2, TypeInvariant, PlaceInvariant, PTL DEF Spec

(* onTerminalCall fires once for every call that has been answered, and    *)
(* for no other, whatever cancels, completes or returns the call.          *)
THEOREM ReportsOnce == Spec => []ReportedOnce
<1>1. ReportInv => ReportedOnce
  BY DEF ReportInv
<1> QED
  BY <1>1, ReportInvariant, PTL

(***************************************************************************)
(* What callers of schedule() get: what is completed stays as it is, and,  *)
(* when no call goes to the background, no call is lost, answers are       *)
(* complete, and callers are served as BatchService says.                  *)
(***************************************************************************)

-----------------------------------------------------------------------------
(* Steps within a batch.                                                   *)

(* Calls move between the places of the store, none gets in or out, and    *)
(* those that get completed have a final status and keep it.               *)
Moves ==
  /\ Present' = Present
  /\ completed \subseteq completed'
  /\ \A c \in completed' \ completed : status'[c] \in Terminal
  /\ \A c \in Calls : c \notin Queued \cup active => status'[c] = status[c]
  /\ UNCHANGED <<answer, current>>
  /\ \A j \in Jobs : promise'[j] = "resolved" => promise[j] = "resolved"

LEMMA CancelAllQueuedMoves ==
  ASSUME TypeOK, NEW st, \A c \in Calls : c \notin active => st[c] = status[c],
         CancelAllQueued(st), UNCHANGED <<active, answer, current>>,
         \A j \in Jobs : promise'[j] = "resolved" => promise[j] = "resolved"
  PROVE  Moves
<1>1. Queued' = {} /\ completed' = completed \cup Queued
  BY EmptyInjective DEF CancelAllQueued, Queued
<1>2. \A c \in Calls : status'[c] = IF c \in Queued THEN CancelledStatus(st, c) ELSE st[c]
  BY DEF CancelAllQueued
<1>3. Queued \subseteq Calls
  BY RangeOfSeq DEF Queued, TypeOK, StoreTypeOK
<1> QED
  BY <1>1, <1>2, <1>3 DEF Moves, Present, CancelledStatus, Terminal

LEMMA ClientMoves ==
  ASSUME PlaceInv, Client, \A j \in Jobs : ~ScheduleNow(j)
  PROVE  Moves
<1> USE DEF PlaceInv, TypeOK, SchedulerTypeOK, storeVars, loopVars
<1>1. ASSUME NEW j \in Jobs, ScheduleLater(j) PROVE Moves
  BY <1>1 DEF ScheduleLater, Moves, Present, Queued
<1>2. ASSUME NEW s \in Signals, Abort(s) PROVE Moves
  BY <1>2 DEF Abort, Moves, Present, Queued
<1>3. ASSUME CancelAll PROVE Moves
  <2> DEFINE st == Updated(status, active \ Finished(status), "cancelled")
  <2>1. \A c \in Calls : c \notin active => st[c] = status[c]
    BY DEF Updated
  <2>2. CancelAllQueued(st) /\ UNCHANGED <<active, answer, current>>
    BY <1>3 DEF CancelAll
  <2>3. \A j \in Jobs : promise'[j] = "resolved" => promise[j] = "resolved"
    BY <1>3 DEF CancelAll
  <2> HIDE DEF st
  <2> QED
    BY <2>1, <2>2, <2>3, CancelAllQueuedMoves
<1> QED
  BY <1>1, <1>2, <1>3 DEF Client

LEMMA LoopMoves ==
  ASSUME PlaceInv, Loop, ~ReturnBatch
  PROVE  Moves
<1> USE DEF PlaceInv, TypeOK, StoreTypeOK, SchedulerTypeOK, storeVars, clientVars, loopVars
<1>1. ASSUME FinishLoop \/ RevisitActive PROVE Moves
  BY <1>1 DEF FinishLoop, RevisitActive, Moves, Present, Queued
<1>2. ASSUME StopLoop PROVE Moves
  BY <1>2, CancelAllQueuedMoves DEF StopLoop
<1>3. ASSUME AnswerErrored PROVE Moves
  <2>1. Head(queue) \in Queued /\ Queued' \cup {Head(queue)} = Queued
    BY <1>3, HeadTailInjective DEF AnswerErrored, OnePlace, Queued
  <2>2. /\ completed' = completed \cup {Head(queue)}
        /\ status' = status /\ status[Head(queue)] = "error"
        /\ UNCHANGED <<active, answer, current, promise>>
    BY <1>3 DEF AnswerErrored
  <2> QED
    BY <2>1, <2>2 DEF Moves, Present, Terminal
<1>4. ASSUME StartWave PROVE Moves
  <2>1. PICK n \in 1..Len(queue) : Dequeue(n)
    BY <1>4 DEF StartWave, IsWave
  <2> DEFINE front == {queue[i] : i \in 1..n}
             rest  == SubSeq(queue, n + 1, Len(queue))
  <2>2. active = {} /\ active' = front /\ queue' = rest
    BY <1>4, <2>1 DEF StartWave, Dequeue
  <2>3. queue \in Seq(Calls) /\ IsInjective(queue)
    BY DEF OnePlace
  <2>4. Range(rest) \cup front = Range(queue)
    BY <2>3, SplitInjective, Zenon
  <2>5. UNCHANGED <<status, completed, answer, current, promise>>
    BY <1>4 DEF StartWave
  <2>6. Present' = Present
    BY <2>2, <2>4, <2>5 DEF Present, Queued
  <2> QED
    BY <2>5, <2>6 DEF Moves
<1>5. ASSUME BeginExecution PROVE Moves
  BY <1>5 DEF BeginExecution, Updated, Moves, Present, Queued
<1>6. ASSUME FinalizeWave PROVE Moves
  <2>1. /\ completed' = completed \cup Finished(status)
        /\ active' = active \ Finished(status)
        /\ UNCHANGED <<status, queue, answer, current, promise>>
    BY <1>6 DEF FinalizeWave, FinalizeCalls
  <2> QED
    BY <2>1 DEF Moves, Present, Queued, Finished
<1> QED
  BY <1>1, <1>2, <1>3, <1>4, <1>5, <1>6 DEF Loop

LEMMA CoroutineMoves ==
  ASSUME PlaceInv, NEW c \in Calls, Check(c) \/ Run(c) \/ User(c) \/ Output(c)
  PROVE  Moves
<1> USE DEF CoroutineFrame, storeVars, clientVars, loopVars
<1>1. CASE DecisionApplied(c) /\ outcome[c] = "cancel"
  <2> DEFINE st == Updated(status, {c}, "cancelled")
  <2>1. \A d \in Calls : d \notin active => st[d] = status[d]
    BY DEF Updated
  <2>2. CancelAllQueued(st) /\ UNCHANGED <<active, answer, current, promise>>
    BY <1>1 DEF DecisionApplied
  <2> HIDE DEF st
  <2> QED
    BY <2>1, <2>2, CancelAllQueuedMoves DEF PlaceInv
<1>2. CASE TailCall(c)
  <2>1. /\ active' = active \ {c} /\ queue' = <<c>> \o queue /\ step[c] # "idle"
        /\ UNCHANGED <<completed, clientVars, loopVars>>
        /\ \E s \in {"validating", "error"} : status' = [status EXCEPT ![c] = s]
    BY <1>2 DEF TailCall, ReplaceActiveCallWithTailCall
  <2>2. c \in active /\ c \notin Queued
    BY <2>1 DEF PlaceInv, OnePlace, SuspendedInWave
  <2>3. Queued' = Queued \cup {c}
    BY <2>1, <2>2, ConsInjective DEF PlaceInv, TypeOK, StoreTypeOK, OnePlace, Queued
  <2>4. \A d \in Calls : d \notin Queued \cup active => status'[d] = status[d]
    BY <2>1, <2>2
  <2>5. Present' = Present
    BY <2>1, <2>2, <2>3 DEF Present
  <2> QED
    BY <2>1, <2>4, <2>5 DEF Moves
<1>3. CASE ~TailCall(c) /\ ~(DecisionApplied(c) /\ outcome[c] = "cancel")
  <2>1. /\ UNCHANGED <<queue, active, completed, clientVars, loopVars>>
        /\ \/ status' = status
           \/ \E s : status' = Updated(status, {c}, s)
    <3>1. CASE Check(c)
      BY <1>3, <3>1 DEF Check, ExternalFailure, HookContinues, HookStops, PolicyAllows,
         PolicyDenies, PolicyAsks, NothingToConfirm, AskUser, EditorCloses,
         EditorUnavailable, EditApplied, WaitAborted, DecisionApplied, Modify, Throw
    <3>2. CASE Run(c)
      BY <1>3, <3>2 DEF Run, ToolReturns, RunEnds, AskExpansion, ExpansionDecided, Throw
    <3>3. CASE User(c) \/ Output(c)
      BY <3>3 DEF User, UserProceeds, UserCancels, UserOpensEditor, UserAcceptsEdited,
         Output, Detach, LiveOutput, DetachedExits
    <3> QED
      BY <3>1, <3>2, <3>3
  <2>2. \A d \in Calls : d \notin active => status'[d] = status[d]
    BY <2>1 DEF Updated
  <2> QED
    BY <2>1, <2>2 DEF Moves, Present, Queued
<1> QED
  BY <1>1, <1>2, <1>3

LEMMA BatchStep ==
  ASSUME PlaceInv, [Next]_vars, \A j \in Jobs : ~ScheduleNow(j), ~ReturnBatch
  PROVE  Moves
<1>1. CASE UNCHANGED vars
  BY <1>1 DEF vars, storeVars, clientVars, loopVars, Moves, Present, Queued
<1>2. CASE Next
  BY <1>1, <1>2, ClientMoves, LoopMoves, CoroutineMoves DEF Next, AllSettled
<1> QED
  BY <1>1, <1>2

(* What has been completed stays as it is until the batch is handed over,  *)
(* whatever comes late: output, answers, cancellations.                    *)
THEOREM CompletedStays == Spec => CompletedIsFinal
<1>1. PlaceInv /\ [Next]_vars => [\A c \in completed \cap completed' : status'[c] = status[c]]_vars
  <2> SUFFICES ASSUME PlaceInv, [Next]_vars, NEW c \in completed, c \in completed'
               PROVE  status'[c] = status[c]
    OBVIOUS
  <2>1. CASE (\E j \in Jobs : ScheduleNow(j)) \/ ReturnBatch
    <3>1. completed' = {}
      BY <2>1 DEF ScheduleNow, ReturnBatch, ProcessNextInRequestQueue, StartBatch, Rest,
         ClearBatch
    <3> QED
      BY <3>1
  <2>2. CASE (\A j \in Jobs : ~ScheduleNow(j)) /\ ~ReturnBatch
    <3>1. Moves
      BY <2>2, BatchStep
    <3>2. c \in Calls /\ c \notin Queued \cup active
      BY DEF PlaceInv, TypeOK, StoreTypeOK, OnePlace
    <3> QED
      BY <3>1, <3>2 DEF Moves
  <2> QED
    BY <2>1, <2>2
<1> QED
  BY <1>1, PlaceInvariant, PTL DEF Spec, CompletedIsFinal

-----------------------------------------------------------------------------
(* Batches without calls that go to the background.                        *)

(* Between two waves no call is active.                                    *)
ActiveInWave == phase \notin {"validating", "executing"} => active = {}

(* A scheduler that is free has no request in line.                        *)
NobodyWaits == phase = "idle" => requestQueue = <<>>

CompletedTerminal == \A c \in completed : status[c] \in Terminal

AnswerInv == ActiveInWave /\ NobodyWaits /\ CompletedTerminal /\ Accounted /\ AnsweredInFull

LEMMA EmptySurviving ==
  ASSUME NEW keep, NEW r \in Surviving(<<>>, keep)
  PROVE  r = <<>>
<1>1. PICK n \in 0..Len(<<>>) : r \in [1..n -> keep]
  BY DEF Surviving
<1>2. n = 0
  BY <1>1
<1> QED
  BY <1>1, <1>2

LEMMA ActiveInWaveStep ==
  ASSUME Detachable = {}, PlaceInv, WaveInv, ActiveInWave, [Next]_vars
  PROVE  ActiveInWave'
<1> USE DEF ActiveInWave, storeVars, clientVars, loopVars
<1>1. CASE UNCHANGED vars
  BY <1>1 DEF vars
<1>2. CASE Client
  BY <1>2 DEF Client, ScheduleNow, StartBatch, ScheduleLater, Abort, CancelAll
<1>3. CASE FinalizeWave
  <2>1. \A c \in active : step[c] = "idle"
    BY <1>3 DEF FinalizeWave, Coroutines
  <2>2. \A c \in active : /\ status[c] \in Terminal \cup {"scheduled"}
                          /\ phase = "executing" => status[c] # "scheduled"
    BY <2>1 DEF WaveInv, IdleSettled
  <2>3. \A c \in active : status[c] # "scheduled"
    BY <1>3, <2>2 DEF FinalizeWave, ReadyToExecute, ScheduledCalls
  <2>4. active' = {}
    BY <1>3, <2>2, <2>3 DEF FinalizeWave, FinalizeCalls, Finished
  <2> QED
    BY <2>4
<1>4. CASE Loop /\ ~FinalizeWave
  BY <1>4 DEF Loop, FinishLoop, StopLoop, AnswerErrored, StartWave, RevisitActive,
     BeginExecution, ReturnBatch
<1>5. ASSUME NEW c \in Calls, Check(c) \/ Run(c) \/ User(c) \/ Output(c)
      PROVE  ActiveInWave'
  <2>1. UNCHANGED phase /\ active' \subseteq active
    <3> USE DEF CoroutineFrame
    <3>1. CASE Check(c)
      BY <3>1 DEF Check, ExternalFailure, HookContinues, HookStops, PolicyAllows,
         PolicyDenies, PolicyAsks, NothingToConfirm, AskUser, EditorCloses,
         EditorUnavailable, EditApplied, WaitAborted, DecisionApplied, Modify, Throw
    <3>2. CASE Run(c)
      BY <3>2 DEF Run, ToolReturns, RunEnds, TailCall, ReplaceActiveCallWithTailCall,
         AskExpansion, ExpansionDecided, Throw
    <3>3. CASE User(c) \/ Output(c)
      BY <3>3 DEF User, UserProceeds, UserCancels, UserOpensEditor, UserAcceptsEdited,
         Output, Detach, LiveOutput, DetachedExits
    <3> QED
      BY <1>5, <3>1, <3>2, <3>3
  <2> QED
    BY <2>1
<1> QED
  BY <1>1, <1>2, <1>3, <1>4, <1>5 DEF Next, AllSettled

LEMMA NobodyWaitsStep ==
  ASSUME ActiveInWave, NobodyWaits, [Next]_vars
  PROVE  NobodyWaits'
<1> USE DEF NobodyWaits, ActiveInWave, loopVars, clientVars
<1>1. CASE UNCHANGED vars
  BY <1>1 DEF vars
<1>2. CASE Client
  <2>1. ASSUME NEW s \in Signals, Abort(s) PROVE NobodyWaits'
    BY <2>1, EmptySurviving DEF Abort
  <2> QED
    BY <1>2, <2>1 DEF Client, ScheduleNow, StartBatch, ScheduleLater, CancelAll
<1>3. CASE Loop
  BY <1>3 DEF Loop, FinishLoop, StopLoop, AnswerErrored, StartWave, RevisitActive,
     BeginExecution, FinalizeWave, ReturnBatch, ProcessNextInRequestQueue, StartBatch, Rest
<1>4. ASSUME NEW c \in Calls, Check(c) \/ Run(c) \/ User(c) \/ Output(c)
      PROVE  NobodyWaits'
  <2>1. CoroutineFrame
    BY <1>4 DEF Check, ExternalFailure, HookContinues, HookStops, PolicyAllows,
       PolicyDenies, PolicyAsks, NothingToConfirm, AskUser, EditorCloses,
       EditorUnavailable, EditApplied, WaitAborted, DecisionApplied, Modify,
       Run, ToolReturns, RunEnds, TailCall, AskExpansion, ExpansionDecided,
       User, UserProceeds, UserCancels, UserOpensEditor, UserAcceptsEdited,
       Output, Detach, LiveOutput, DetachedExits
  <2> QED
    BY <2>1 DEF CoroutineFrame
<1> QED
  BY <1>1, <1>2, <1>3, <1>4 DEF Next, AllSettled

(* The next batch is that of job j; the answers up to now are complete.    *)
LEMMA StartBatchAnswers ==
  ASSUME PlaceInv, NEW j \in Jobs, NEW p, StartBatch(j, p),
         phase \in {"idle", "returning"}, active = {}, active' = {}, step' = step,
         promise'[j] # "resolved",
         \A k \in Jobs : promise'[k] = "resolved" =>
           answer'[k] = BatchSet(k) /\ \A c \in BatchSet(k) : status[c] \in Terminal
  PROVE  CompletedTerminal' /\ Accounted' /\ AnsweredInFull'
<1>1. Queued' = BatchSet(j) /\ completed' = {} /\ current' = j
  BY StartBatchPlaces DEF StartBatch, ClearBatch
<1>2. CompletedTerminal' /\ Accounted'
  BY <1>1, SchedulerAssumption DEF CompletedTerminal, Accounted
<1>3. ASSUME NEW k \in Jobs, promise'[k] = "resolved"
      PROVE  answer'[k] = BatchSet(k) /\ \A c \in BatchSet(k) : status'[c] \in Terminal
  <2>1. BatchSet(k) \cap BatchSet(j) = {}
    BY <1>3, SchedulerAssumption
  <2>2. BatchSet(k) \subseteq Calls
    BY SchedulerAssumption, RangeOfSeq DEF BatchSet
  <2>3. \A c \in BatchSet(k) : status'[c] = status[c]
    BY <2>1, <2>2 DEF StartBatch
  <2> QED
    BY <1>3, <2>3
<1> QED
  BY <1>2, <1>3 DEF AnsweredInFull

LEMMA AnswerStep ==
  ASSUME Detachable = {}, PlaceInv, WaveInv, ReportInv, AnswerInv, [Next]_vars
  PROVE  AnswerInv'
<1> USE DEF PlaceInv, TypeOK, SchedulerTypeOK
<1>1. ActiveInWave' /\ NobodyWaits'
  BY ActiveInWaveStep, NobodyWaitsStep DEF AnswerInv
<1>2. ASSUME NEW j \in Jobs, ScheduleNow(j)
      PROVE  CompletedTerminal' /\ Accounted' /\ AnsweredInFull'
  <2>1. promise' = [promise EXCEPT ![j] = "running"] /\ answer' = answer
    BY <1>2 DEF ScheduleNow, StartBatch
  <2> QED
    BY <1>2, <2>1, StartBatchAnswers DEF ScheduleNow, AnswerInv, AnsweredInFull
<1>3. ASSUME ReturnBatch PROVE CompletedTerminal' /\ Accounted' /\ AnsweredInFull'
  <2> DEFINE p == [promise EXCEPT ![current] = "resolved"]
  <2>1. current \in Jobs /\ current # NoJob /\ active = {} /\ queue = <<>> /\ Queued = {}
    BY <1>3, EmptyInjective, SchedulerAssumption DEF ReturnBatch, ReportInv,
       OneBatchAtATime, AnswerInv, ActiveInWave, WaveInv, RestDrained, Queued
  <2>2. completed = BatchSet(current)
    BY <2>1 DEF AnswerInv, Accounted
  <2>3. \A k \in Jobs : p[k] = "resolved" =>
          answer'[k] = BatchSet(k) /\ \A c \in BatchSet(k) : status[c] \in Terminal
    BY <1>3, <2>1, <2>2 DEF ReturnBatch, AnswerInv, CompletedTerminal, AnsweredInFull
  <2>4. active' = active /\ step' = step
    BY <1>3 DEF ReturnBatch
  <2>5. CASE requestQueue # <<>> /\ StartBatch(Head(requestQueue), p)
    <3> DEFINE j == Head(requestQueue)
    <3>1. j \in Jobs
      BY <2>5
    <3>2. promise' = [p EXCEPT ![j] = "running"]
      BY <2>5 DEF StartBatch
    <3>3. /\ promise'[j] # "resolved"
          /\ \A k \in Jobs : promise'[k] = "resolved" => p[k] = "resolved"
      BY <3>1, <3>2
    <3> HIDE DEF p, j
    <3> QED
      BY <1>3, <2>1, <2>3, <2>4, <2>5, <3>1, <3>3, StartBatchAnswers DEF ReturnBatch, j
  <2>6. CASE Rest(p)
    <3>1. /\ current' = NoJob /\ completed' = {} /\ Queued' = {} /\ active' = {}
          /\ promise' = p /\ status' = status
      BY <2>1, <2>4, <2>6 DEF Rest, ClearBatch, Queued
    <3> QED
      BY <2>3, <3>1 DEF CompletedTerminal, Accounted, AnsweredInFull
  <2> QED
    BY <1>3, <2>5, <2>6 DEF ReturnBatch, ProcessNextInRequestQueue
<1>4. CASE (\A j \in Jobs : ~ScheduleNow(j)) /\ ~ReturnBatch
  <2>1. Moves
    BY <1>4, BatchStep
  <2>2. \A c \in completed : c \in Calls /\ status'[c] = status[c]
    BY <2>1 DEF Moves, OnePlace, StoreTypeOK
  <2>3. CompletedTerminal'
    BY <2>1, <2>2 DEF Moves, AnswerInv, CompletedTerminal
  <2>4. Accounted'
    BY <2>1 DEF Moves, AnswerInv, Accounted, Present
  <2>5. ASSUME NEW j \in Jobs, promise'[j] = "resolved"
        PROVE  answer'[j] = BatchSet(j) /\ \A c \in BatchSet(j) : status'[c] \in Terminal
    <3>1. /\ promise[j] = "resolved" /\ answer'[j] = answer[j]
          /\ \A c \in Calls : c \notin Queued \cup active => status'[c] = status[c]
      BY <2>1, <2>5 DEF Moves
    <3>2. answer[j] = BatchSet(j) /\ \A c \in BatchSet(j) : status[c] \in Terminal
      BY <3>1 DEF AnswerInv, AnsweredInFull
    <3>3. BatchSet(j) \subseteq Calls
      BY SchedulerAssumption, RangeOfSeq DEF BatchSet
    <3>4. Present \cap answer[j] = {}
      BY DEF ReportInv, AnswersApart
    <3>5. \A c \in BatchSet(j) : status'[c] = status[c]
      BY <3>1, <3>2, <3>3, <3>4 DEF Present
    <3> QED
      BY <3>1, <3>2, <3>5
  <2>6. AnsweredInFull'
    BY <2>5 DEF AnsweredInFull
  <2> QED
    BY <1>1, <2>3, <2>4, <2>6 DEF AnswerInv
<1> QED
  BY <1>1, <1>2, <1>3, <1>4 DEF AnswerInv

LEMMA AnswerInvariant == Spec => [](Detachable = {} => AnswerInv)
<1>1. Init => AnswerInv
  <2> SUFFICES ASSUME Init PROVE AnswerInv
    OBVIOUS
  <2>1. Queued = {}
    BY EmptyInjective DEF Init, StoreInit, Queued
  <2> QED
    BY <2>1 DEF Init, StoreInit, AnswerInv, ActiveInWave, NobodyWaits, CompletedTerminal,
       Accounted, AnsweredInFull
<1>2. PlaceInv /\ WaveInv /\ ReportInv /\ (Detachable = {} => AnswerInv) /\ [Next]_vars
      => (Detachable = {} => AnswerInv)'
  BY AnswerStep
<1> QED
  BY <1>1, <1>2, PlaceInvariant, ReportInvariant, PTL DEF Spec

(* When no call goes to the background, no call is lost and none strays    *)
(* into another batch.                                                     *)
THEOREM NoneIsLost == Spec => [](Detachable = {} => Accounted)
<1>1. (Detachable = {} => AnswerInv) => (Detachable = {} => Accounted)
  BY DEF AnswerInv
<1> QED
  BY <1>1, AnswerInvariant, PTL

(* While a batch is processed no call of it is lost and none of another    *)
(* gets in.                                                                *)
Together == current # NoJob => Accounted

LEMMA TogetherStep ==
  ASSUME PlaceInv, ReportInv, Together, [Next]_vars
  PROVE  Together'
<1> USE DEF PlaceInv, TypeOK, SchedulerTypeOK
<1>1. ASSUME NEW j \in Jobs, NEW p, StartBatch(j, p), phase \in {"idle", "returning"},
             active = {}, active' = {}, step' = step
      PROVE  Together'
  <2>1. Queued' = BatchSet(j) /\ completed' = {} /\ current' = j
    BY <1>1, StartBatchPlaces DEF StartBatch, ClearBatch
  <2> QED
    BY <1>1, <2>1, SchedulerAssumption DEF Together, Accounted
<1>2. ASSUME NEW j \in Jobs, ScheduleNow(j) PROVE Together'
  BY <1>1, <1>2 DEF ScheduleNow
<1>3. ASSUME ReturnBatch PROVE Together'
  <2> DEFINE p == [promise EXCEPT ![current] = "resolved"]
  <2>1. CASE requestQueue # <<>> /\ active = {} /\ StartBatch(Head(requestQueue), p)
    <3>1. Head(requestQueue) \in Jobs
      BY <2>1
    <3>2. phase = "returning" /\ active' = {} /\ step' = step
      BY <1>3, <2>1 DEF ReturnBatch
    <3> HIDE DEF p
    <3> QED
      BY <1>1, <2>1, <3>1, <3>2
  <2>2. CASE Rest(p)
    BY <2>2 DEF Rest, Together
  <2> QED
    BY <1>3, <2>1, <2>2 DEF ReturnBatch, ProcessNextInRequestQueue
<1>4. CASE (\A j \in Jobs : ~ScheduleNow(j)) /\ ~ReturnBatch
  <2>1. Moves
    BY <1>4, BatchStep
  <2> QED
    BY <2>1 DEF Moves, Together, Accounted, Present
<1> QED
  BY <1>2, <1>3, <1>4

LEMMA TogetherInvariant == Spec => []Together
<1>1. Init => Together
  BY DEF Init, Together
<1>2. PlaceInv /\ ReportInv /\ Together /\ [Next]_vars => Together'
  BY TogetherStep
<1> QED
  BY <1>1, <1>2, PlaceInvariant, ReportInvariant, PTL DEF Spec

(* Whatever goes to the background, no call of a batch is lost and none of *)
(* another batch gets in, unless the scheduler rests on a call that has    *)
(* never been finalized (_processQueue).                                   *)
THEOREM NoneStrays == Spec => [](current # NoJob \/ active = {} => Accounted)
<1>1. PlaceInv /\ WaveInv /\ ReportInv /\ Together
      => (current # NoJob \/ active = {} => Accounted)
  <2> SUFFICES ASSUME WaveInv, ReportInv, Together, current = NoJob, active = {}
               PROVE  Accounted
    BY DEF Together
  <2>1. completed = {} /\ queue = <<>>
    BY DEF ReportInv, OwnCalls, OneBatchAtATime, WaveInv, RestDrained
  <2> QED
    BY <2>1, EmptyInjective DEF Accounted, Queued
<1> QED
  BY <1>1, PlaceInvariant, ReportInvariant, TogetherInvariant, PTL

(* A caller was given calls of its own with a final status, and misses     *)
(* only what is still active.                                              *)
GivenInFull ==
  \A j \in Jobs : promise[j] = "resolved" =>
    /\ answer[j] \subseteq BatchSet(j)
    /\ BatchSet(j) \subseteq answer[j] \cup active
    /\ \A c \in answer[j] : status[c] \in Terminal

LEMMA GivenStep ==
  ASSUME PlaceInv, WaveInv, WaveInv', ReportInv, ReportInv', Together,
         CompletedTerminal, GivenInFull, [Next]_vars
  PROVE  CompletedTerminal' /\ GivenInFull'
<1> USE DEF PlaceInv, TypeOK, SchedulerTypeOK
<1>1. ASSUME NEW j \in Jobs, ScheduleNow(j)
      PROVE  CompletedTerminal' /\ GivenInFull'
  <2>1. promise' = [promise EXCEPT ![j] = "running"] /\ answer' = answer
    BY <1>1 DEF ScheduleNow, StartBatch
  <2>2. /\ active = {} /\ active' = {} /\ step' = step
        /\ StartBatch(j, promise) /\ phase \in {"idle", "returning"}
    BY <1>1 DEF ScheduleNow
  <2>3. \A k \in Jobs : promise'[k] = "resolved" =>
          answer'[k] = BatchSet(k) /\ \A c \in BatchSet(k) : status[c] \in Terminal
    BY <2>1, <2>2 DEF GivenInFull
  <2>4. CompletedTerminal' /\ AnsweredInFull'
    BY <2>1, <2>2, <2>3, StartBatchAnswers
  <2> QED
    BY <2>4 DEF AnsweredInFull, GivenInFull
<1>2. ASSUME ReturnBatch PROVE CompletedTerminal' /\ GivenInFull'
  <2> DEFINE p == [promise EXCEPT ![current] = "resolved"]
  <2>1. current \in Jobs /\ Queued = {} /\ promise[current] = "running"
    BY <1>2, EmptyInjective, SchedulerAssumption DEF ReturnBatch, ReportInv,
       OneBatchAtATime, WaveInv, RestDrained, Queued
  <2>2. completed \cup active = BatchSet(current)
    BY <2>1, SchedulerAssumption DEF Together, Accounted
  <2>3. answer' = [answer EXCEPT ![current] = completed] /\ active' = active /\ step' = step
    BY <1>2 DEF ReturnBatch
  <2>4. \A k \in Jobs : p[k] = "resolved" =>
          /\ answer'[k] \subseteq BatchSet(k)
          /\ BatchSet(k) \subseteq answer'[k] \cup active
          /\ \A c \in answer'[k] : status[c] \in Terminal
    BY <2>2, <2>3 DEF GivenInFull, CompletedTerminal
  <2>5. CASE requestQueue # <<>> /\ active = {} /\ StartBatch(Head(requestQueue), p)
    <3> DEFINE j == Head(requestQueue)
    <3>1. j \in Jobs
      BY <2>5
    <3>2. promise' = [p EXCEPT ![j] = "running"]
      BY <2>5 DEF StartBatch
    <3>3. /\ promise'[j] # "resolved"
          /\ \A k \in Jobs : promise'[k] = "resolved" => p[k] = "resolved"
      BY <3>1, <3>2
    <3>4. \A k \in Jobs : promise'[k] = "resolved" =>
            answer'[k] = BatchSet(k) /\ \A c \in BatchSet(k) : status[c] \in Terminal
      BY <2>4, <2>5, <3>3
    <3>5. phase \in {"idle", "returning"}
      BY <1>2 DEF ReturnBatch
    <3> HIDE DEF p, j
    <3>6. CompletedTerminal' /\ AnsweredInFull'
      BY <2>3, <2>5, <3>1, <3>3, <3>4, <3>5, StartBatchAnswers DEF j
    <3> QED
      BY <3>6 DEF AnsweredInFull, GivenInFull
  <2>6. CASE Rest(p)
    <3>1. completed' = {} /\ promise' = p /\ status' = status
      BY <2>6 DEF Rest, ClearBatch
    <3> QED
      BY <2>3, <2>4, <3>1 DEF CompletedTerminal, GivenInFull
  <2> QED
    BY <1>2, <2>5, <2>6 DEF ReturnBatch, ProcessNextInRequestQueue
<1>3. CASE (\A j \in Jobs : ~ScheduleNow(j)) /\ ~ReturnBatch
  <2>1. Moves
    BY <1>3, BatchStep
  <2>2. \A c \in completed : c \in Calls /\ status'[c] = status[c]
    BY <2>1 DEF Moves, OnePlace, StoreTypeOK
  <2>3. CompletedTerminal'
    BY <2>1, <2>2 DEF Moves, CompletedTerminal
  <2>4. ASSUME NEW j \in Jobs, promise'[j] = "resolved"
        PROVE  /\ answer'[j] \subseteq BatchSet(j)
               /\ BatchSet(j) \subseteq answer'[j] \cup active'
               /\ \A c \in answer'[j] : status'[c] \in Terminal
    <3>1. /\ promise[j] = "resolved" /\ answer'[j] = answer[j] /\ current' = current
          /\ Present' = Present
          /\ \A c \in Calls : c \notin Queued \cup active => status'[c] = status[c]
      BY <2>1, <2>4 DEF Moves
    <3>2. /\ answer[j] \subseteq BatchSet(j)
          /\ BatchSet(j) \subseteq answer[j] \cup active
          /\ \A c \in answer[j] : status[c] \in Terminal
      BY <3>1 DEF GivenInFull
    <3>3. BatchSet(j) \subseteq Calls
      BY SchedulerAssumption, RangeOfSeq DEF BatchSet
    <3>4. Present \cap answer[j] = {}
      BY DEF ReportInv, AnswersApart
    <3>5. \A c \in answer[j] : status'[c] = status[c]
      BY <3>1, <3>2, <3>3, <3>4 DEF Present
    <3>6. CASE current # NoJob
      <4>1. current \in Jobs /\ j # current /\ active \subseteq BatchSet(current)
        BY <3>1, <3>6 DEF ReportInv, OneBatchAtATime, OwnCalls, Present
      <4>2. BatchSet(j) \cap BatchSet(current) = {}
        BY <4>1, SchedulerAssumption
      <4> QED
        BY <3>1, <3>2, <3>5, <4>1, <4>2
    <3>7. CASE current = NoJob
      <4>1. completed' = {} /\ queue' = <<>>
        BY <3>1, <3>7 DEF ReportInv, OwnCalls, OneBatchAtATime, WaveInv, RestDrained
      <4>2. Queued' = {}
        BY <4>1, EmptyInjective DEF Queued
      <4>3. active \subseteq active'
        BY <3>1, <4>1, <4>2 DEF Present
      <4> QED
        BY <3>1, <3>2, <3>5, <4>3
    <3> QED
      BY <3>6, <3>7
  <2> QED
    BY <2>3, <2>4 DEF GivenInFull
<1> QED
  BY <1>1, <1>2, <1>3

(* Whatever goes to the background, schedule() has resolved with a final   *)
(* answer for each of its own calls and for no other, unless the scheduler *)
(* rests on a call that has never been finalized (_processQueue).          *)
THEOREM AnswersMissNone == Spec => [](current # NoJob \/ active = {} => AnsweredInFull)
<1>1. Init => CompletedTerminal /\ GivenInFull
  BY DEF Init, StoreInit, CompletedTerminal, GivenInFull
<1>2. PlaceInv /\ WaveInv /\ WaveInv' /\ ReportInv /\ ReportInv' /\ Together
      /\ CompletedTerminal /\ GivenInFull /\ [Next]_vars
      => CompletedTerminal' /\ GivenInFull'
  BY GivenStep
<1>3. PlaceInv /\ ReportInv /\ GivenInFull => (current # NoJob \/ active = {} => AnsweredInFull)
  <2> SUFFICES ASSUME PlaceInv, ReportInv, GivenInFull, current # NoJob \/ active = {},
                      NEW j \in Jobs, promise[j] = "resolved"
               PROVE  answer[j] = BatchSet(j) /\ \A c \in BatchSet(j) : status[c] \in Terminal
    BY DEF AnsweredInFull
  <2>1. BatchSet(j) \cap active = {}
    <3>1. CASE current # NoJob
      <4>1. current \in Jobs /\ j # current /\ active \subseteq BatchSet(current)
        BY <3>1 DEF PlaceInv, TypeOK, SchedulerTypeOK, ReportInv, OneBatchAtATime, OwnCalls,
           Present
      <4> QED
        BY <4>1, SchedulerAssumption
    <3> QED
      BY <3>1
  <2> QED
    BY <2>1 DEF GivenInFull
<1> QED
  BY <1>1, <1>2, <1>3, PlaceInvariant, ReportInvariant, TogetherInvariant, PTL DEF Spec

(* When no call goes to the background, schedule() resolves with a final   *)
(* answer for each of its own calls and for no other.                      *)
THEOREM AnswersAreComplete == Spec => [](Detachable = {} => AnsweredInFull)
<1>1. (Detachable = {} => AnswerInv) => (Detachable = {} => AnsweredInFull)
  BY DEF AnswerInv
<1> QED
  BY <1>1, AnswerInvariant, PTL

-----------------------------------------------------------------------------
(* The scheduler implements the safety part of BatchService.               *)

LEMMA SurvivingSame ==
  ASSUME NEW q, NEW keep, NEW more, keep \subseteq more,
         Range(q) \cap keep = Range(q) \cap more, NEW r \in Surviving(q, keep)
  PROVE  r \in Surviving(q, more)
<1>1. PICK n \in 0..Len(q) : r \in [1..n -> keep]
  BY DEF Surviving
<1>2. r \in [1..n -> more]
  BY <1>1
<1> QED
  BY <1>2 DEF Surviving

LEMMA EmptySurvives ==
  ASSUME NEW S, NEW q \in Seq(S), NEW keep, Range(q) \cap keep = {}
  PROVE  <<>> \in Surviving(q, keep)
<1>1. <<>> \in [1..0 -> keep] /\ 0 \in 0..Len(q)
  OBVIOUS
<1>2. Range(<<>>) = {} /\ DOMAIN <<>> = {}
  BY EmptyInjective
<1> QED
  BY <1>1, <1>2 DEF Surviving

(* The operators that BatchService takes from the shared modules.          *)
LEMMA ServiceOperators ==
  /\ \A q : Service!Range(q) = Range(q)
  /\ \A q, keep : Service!Surviving(q, keep) = Surviving(q, keep)
BY DEF Service!Range, Range, Service!Surviving, Surviving

LEMMA ServiceStep ==
  ASSUME PlaceInv, ReportInv, ActiveInWave, NobodyWaits, [Next]_vars
  PROVE  [Service!Next]_(Service!vars)
<1> USE DEF PlaceInv, TypeOK, SchedulerTypeOK
<1>1. ASSUME NEW j \in Jobs, ScheduleNow(j) PROVE Service!Start(j)
  <2>1. Service!Running = {} /\ requestQueue = <<>>
    BY <1>1, SchedulerAssumption DEF ScheduleNow, ReportInv, OneBatchAtATime, NobodyWaits,
       Service!Running
  <2> QED
    BY <1>1, <2>1 DEF ScheduleNow, StartBatch, Service!Start
<1>2. ASSUME NEW j \in Jobs, ScheduleLater(j) PROVE Service!Wait(j)
  <2>1. current \in Jobs /\ promise[current] = "running"
    BY <1>2 DEF ScheduleLater, ReportInv, OneBatchAtATime, ActiveInWave
  <2> QED
    BY <1>2, <2>1 DEF ScheduleLater, Enqueued, Service!Wait, Service!Running
<1>3. ASSUME NEW s \in Signals, Abort(s)
      PROVE  \E gone \in SUBSET Range(requestQueue) : Service!Leave(gone)
  <2> DEFINE gone == {j \in Range(requestQueue) : SignalOf[j] = s}
             keep == {j \in Jobs : SignalOf[j] # s}
  <2>1. keep \subseteq Jobs \ gone
    OBVIOUS
  <2>2. Range(requestQueue) \subseteq Jobs
    BY RangeOfSeq
  <2>3. Range(requestQueue) \cap keep = Range(requestQueue) \cap (Jobs \ gone)
    BY <2>2
  <2>4. requestQueue' \in Surviving(requestQueue, keep)
    BY <1>3 DEF Abort
  <2>5. requestQueue' \in Surviving(requestQueue, Jobs \ gone)
    BY <2>1, <2>3, <2>4, SurvivingSame
  <2>6. promise' = [j \in Jobs |-> IF j \in gone THEN "rejected" ELSE promise[j]]
    BY <1>3 DEF Abort
  <2>7. Service!Leave(gone)
    BY <2>5, <2>6, ServiceOperators DEF Service!Leave
  <2> QED
    BY <2>7
<1>4. ASSUME CancelAll PROVE Service!Leave(Range(requestQueue))
  <2>1. <<>> \in Surviving(requestQueue, Jobs \ Range(requestQueue))
    BY EmptySurvives
  <2> QED
    BY <1>4, <2>1, ServiceOperators DEF CancelAll, Service!Leave
<1>5. ASSUME ReturnBatch PROVE current \in Jobs /\ Service!Finish(current)
  <2> DEFINE p == [promise EXCEPT ![current] = "resolved"]
  <2>1. current \in Jobs /\ promise[current] = "running" /\ active = {}
    BY <1>5 DEF ReturnBatch, ReportInv, OneBatchAtATime, ActiveInWave
  <2>2. CASE /\ requestQueue # <<>>
             /\ StartBatch(Head(requestQueue), p)
             /\ requestQueue' = Tail(requestQueue)
    BY <2>1, <2>2 DEF StartBatch, Service!Finish
  <2>3. CASE requestQueue = <<>> /\ Rest(p)
    BY <2>1, <2>3 DEF Rest, Service!Finish
  <2> QED
    BY <1>5, <2>1, <2>2, <2>3 DEF ReturnBatch, ProcessNextInRequestQueue
<1>6. CASE Loop /\ ~ReturnBatch
  BY <1>6 DEF Loop, FinishLoop, StopLoop, AnswerErrored, StartWave, RevisitActive,
     BeginExecution, FinalizeWave, clientVars, Service!vars
<1>7. ASSUME NEW c \in Calls, Check(c) \/ Run(c) \/ User(c) \/ Output(c)
      PROVE  UNCHANGED <<promise, requestQueue>>
  <2>1. CoroutineFrame
    BY <1>7 DEF Check, ExternalFailure, HookContinues, HookStops, PolicyAllows,
       PolicyDenies, PolicyAsks, NothingToConfirm, AskUser, EditorCloses,
       EditorUnavailable, EditApplied, WaitAborted, DecisionApplied, Modify,
       Run, ToolReturns, RunEnds, TailCall, AskExpansion, ExpansionDecided,
       User, UserProceeds, UserCancels, UserOpensEditor, UserAcceptsEdited,
       Output, Detach, LiveOutput, DetachedExits
  <2> QED
    BY <2>1 DEF CoroutineFrame, clientVars
<1>8. CASE UNCHANGED vars
  BY <1>8 DEF vars, clientVars, Service!vars
<1>9. CASE Client
  BY <1>1, <1>2, <1>3, <1>4, <1>9, ServiceOperators DEF Client, Service!Next
<1> QED
  BY <1>5, <1>6, <1>7, <1>8, <1>9 DEF Next, AllSettled, Service!Next, Service!vars

(* When no call goes to the background, callers are served one at a time,  *)
(* in the order in which they came, and turned away only while they wait.  *)
THEOREM ServedInOrder ==
  ASSUME Detachable = {}
  PROVE  Spec => ServesInOrder
<1>1. Init => Service!Init
  BY DEF Init, Service!Init
<1>2. PlaceInv /\ ReportInv /\ (Detachable = {} => AnswerInv) /\ [Next]_vars
      => [Service!Next]_(Service!vars)
  BY ServiceStep DEF AnswerInv
<1> QED
  BY <1>1, <1>2, PlaceInvariant, ReportInvariant, AnswerInvariant, PTL
     DEF Spec, ServesInOrder

(***************************************************************************)
(* What a tool call may do, and when: a call that a hook sends to the user *)
(* or that the policy denies runs only after the user has agreed; a call   *)
(* runs with the arguments that were permitted, those a hook or the user   *)
(* made included; a refusal ends the batch, and calls wait for those       *)
(* requested before them.                                                  *)
(***************************************************************************)

-----------------------------------------------------------------------------
(* Consent.                                                                *)

NoHooks == Hooked = {}

(* The call has passed the policy check.                                   *)
PastPolicy(c) ==
  \/ step[c] \in {"details", "asking", "editing", "applying", "decided", "running",
                  "settling"}
  \/ c \in active /\ status[c] = "scheduled"

(* The call has its permission.                                            *)
Cleared(c) ==
  \/ step[c] \in {"running", "settling"}
  \/ step[c] = "decided" /\ outcome[c] # "cancel"
  \/ c \in active /\ status[c] = "scheduled"

(* The call has had a permission, or the user has just given it one: it is *)
(* asked about its sandbox expansion, or the user's edit is being applied. *)
WasCleared(c) ==
  \/ Cleared(c)
  \/ step[c] = "applying"
  \/ phase = "executing" /\ step[c] \in {"details", "asking"}

(* Only a hook gets a denied call past the policy check.                   *)
DeniedIsForced == \A c \in Calls : PastPolicy(c) /\ verdict[c] = "deny" => c \in forced

(* Who is sent to the user gets a permission from nobody else.             *)
Heeded(c) == c \in forced => c \in consented \/ tool[c] \in Heedless

ForcedIsAsked == \A c \in Calls : WasCleared(c) => Heeded(c)

(* The check of a call ends when the call is scheduled.                    *)
ScheduledEnds == \A c \in active : status[c] = "scheduled" => step[c] = "idle"

ConsentInv == DeniedIsForced /\ ForcedIsAsked /\ ScheduledEnds

(* Nothing but the status changes, no call becomes scheduled, and the loop *)
(* does not come to wait for runs.                                         *)
LEMMA ConsentKept ==
  ASSUME ConsentInv,
         UNCHANGED <<forced, verdict, outcome, tool, consented, step>>,
         phase' = "executing" => phase = "executing",
         \A c \in Calls : c \in active' /\ status'[c] = "scheduled"
                          => c \in active /\ status[c] = "scheduled",
         active' \subseteq Calls
  PROVE  ConsentInv'
<1> USE DEF ConsentInv, PastPolicy, Cleared, WasCleared, Heeded
<1>1. DeniedIsForced'
  BY DEF DeniedIsForced
<1>2. ForcedIsAsked'
  BY DEF ForcedIsAsked
<1>3. ScheduledEnds'
  BY DEF ScheduledEnds
<1> QED
  BY <1>1, <1>2, <1>3

LEMMA CancelAllQueuedConsent ==
  ASSUME TypeOK, NEW st, CancelAllQueued(st), active' = active,
         \A c \in Calls : st[c] = "scheduled" => status[c] = "scheduled"
  PROVE  \A c \in Calls : status'[c] = "scheduled" => status[c] = "scheduled"
BY DEF CancelAllQueued, CancelledStatus

LEMMA ClientConsent ==
  ASSUME PlaceInv, ConsentInv, Client
  PROVE  ConsentInv'
<1> USE DEF requestVars, checkVars, storeVars, loopVars
<1>0. active \subseteq Calls
  BY DEF PlaceInv, TypeOK, StoreTypeOK
<1>1. ASSUME NEW j \in Jobs, ScheduleNow(j) PROVE ConsentInv'
  BY <1>0, <1>1, ConsentKept DEF ScheduleNow, StartBatch
<1>2. ASSUME NEW j \in Jobs, ScheduleLater(j) PROVE ConsentInv'
  BY <1>0, <1>2, ConsentKept DEF ScheduleLater
<1>3. ASSUME NEW s \in Signals, Abort(s) PROVE ConsentInv'
  BY <1>0, <1>3, ConsentKept DEF Abort
<1>4. ASSUME CancelAll PROVE ConsentInv'
  <2> DEFINE st == Updated(status, active \ Finished(status), "cancelled")
  <2>1. \A c \in Calls : st[c] = "scheduled" => status[c] = "scheduled"
    BY DEF Updated
  <2>2. CancelAllQueued(st) /\ active' = active
    BY <1>4 DEF CancelAll
  <2> HIDE DEF st
  <2>3. \A c \in Calls : status'[c] = "scheduled" => status[c] = "scheduled"
    BY <2>1, <2>2, CancelAllQueuedConsent DEF PlaceInv
  <2> QED
    BY <1>0, <1>4, <2>3, ConsentKept DEF CancelAll
<1> QED
  BY <1>1, <1>2, <1>3, <1>4 DEF Client

LEMMA LoopConsent ==
  ASSUME PlaceInv, WaveInv, ConsentInv, Loop
  PROVE  ConsentInv'
<1> USE DEF requestVars, checkVars, storeVars
<1>0. active \subseteq Calls
  BY DEF PlaceInv, TypeOK, StoreTypeOK
<1>1. ASSUME FinishLoop \/ RevisitActive \/ AnswerErrored PROVE ConsentInv'
  BY <1>0, <1>1, ConsentKept DEF FinishLoop, RevisitActive, AnswerErrored, loopVars
<1>2. ASSUME StopLoop PROVE ConsentInv'
  <2>1. \A c \in Calls : status'[c] = "scheduled" => status[c] = "scheduled"
    BY <1>2, CancelAllQueuedConsent DEF StopLoop, PlaceInv
  <2> QED
    BY <1>0, <1>2, <2>1, ConsentKept DEF StopLoop
<1>3. ASSUME StartWave PROVE ConsentInv'
  <2>1. PICK n \in 1..Len(queue) :
          /\ Dequeue(n)
          /\ step' = [c \in Calls |->
                       IF status[c] = "validating" /\ \E i \in 1..n : queue[i] = c
                       THEN "hook" ELSE step[c]]
    BY <1>3 DEF StartWave, IsWave
  <2>2. active' \subseteq Queued /\ active' \subseteq Calls
    BY <1>3, <2>1, RangeMember DEF StartWave, Dequeue, Queued, PlaceInv, TypeOK, StoreTypeOK
  <2>3. \A c \in active' : status'[c] # "scheduled"
    BY <1>3, <2>2 DEF StartWave, WaveInv, QueuedFresh
  <2>4. UNCHANGED <<forced, verdict, outcome, tool, consented>> /\ phase' = "validating"
    BY <1>3 DEF StartWave
  <2>5. \A c \in Calls : step'[c] = "hook" \/ step'[c] = step[c]
    BY <2>1
  <2>6. DeniedIsForced'
    BY <2>3, <2>4, <2>5 DEF ConsentInv, DeniedIsForced, PastPolicy
  <2>7. ForcedIsAsked'
    BY <2>3, <2>4, <2>5 DEF ConsentInv, ForcedIsAsked, WasCleared, Cleared, Heeded
  <2>8. ScheduledEnds'
    BY <2>2, <2>3 DEF ScheduledEnds
  <2> QED
    BY <2>6, <2>7, <2>8 DEF ConsentInv
<1>4. ASSUME BeginExecution PROVE ConsentInv'
  <2>1. UNCHANGED <<forced, verdict, outcome, tool, consented, active>>
    BY <1>4 DEF BeginExecution
  <2>2. \A c \in Calls : c \in active => status'[c] # "scheduled"
    BY <1>4 DEF BeginExecution, Updated, ScheduledCalls
  <2>3. \A c \in Calls : \/ step'[c] = step[c]
                         \/ step'[c] = "running" /\ c \in active /\ status[c] = "scheduled"
    BY <1>4 DEF BeginExecution, ScheduledCalls
  <2>4. \A c \in Calls : step[c] = "idle"
    BY <1>4 DEF BeginExecution, Coroutines, PlaceInv, SuspendedInWave
  <2>5. DeniedIsForced'
    BY <2>1, <2>2, <2>3 DEF ConsentInv, DeniedIsForced, PastPolicy
  <2>6. ForcedIsAsked'
    BY <2>1, <2>2, <2>3, <2>4 DEF ConsentInv, ForcedIsAsked, WasCleared, Cleared, Heeded
  <2>7. ScheduledEnds'
    BY <1>0, <2>1, <2>2 DEF ScheduledEnds
  <2> QED
    BY <2>5, <2>6, <2>7 DEF ConsentInv
<1>5. ASSUME FinalizeWave PROVE ConsentInv'
  BY <1>0, <1>5, ConsentKept DEF FinalizeWave, FinalizeCalls
<1>6. ASSUME ReturnBatch PROVE ConsentInv'
  <2>1. active' = {} \/ status' = status
    BY <1>6 DEF ReturnBatch, ProcessNextInRequestQueue, Rest
  <2>2. phase' # "executing"
    BY <1>6 DEF ReturnBatch, ProcessNextInRequestQueue, Rest, StartBatch
  <2> QED
    BY <1>0, <1>6, <2>1, <2>2, ConsentKept DEF ReturnBatch
<1> QED
  BY <1>1, <1>2, <1>3, <1>4, <1>5, <1>6 DEF Loop

(* One step of the coroutine of call c, in a loop that stays suspended.    *)
LEMMA StepKeepsConsent ==
  ASSUME ConsentInv, NEW c \in Calls, active' \subseteq active, active \subseteq Calls,
         phase' = phase,
         \A d \in Calls : d # c =>
           /\ step'[d] = step[d] /\ verdict'[d] = verdict[d] /\ outcome'[d] = outcome[d]
           /\ tool'[d] = tool[d]
           /\ d \in forced' <=> d \in forced
           /\ d \in consented' <=> d \in consented
           /\ d \in active /\ status'[d] = "scheduled" => status[d] = "scheduled",
         PastPolicy(c)' /\ verdict'[c] = "deny" => c \in forced',
         WasCleared(c)' => Heeded(c)',
         c \in active' /\ status'[c] = "scheduled" => step'[c] = "idle"
  PROVE  ConsentInv'
<1>1. DeniedIsForced'
  BY DEF ConsentInv, DeniedIsForced, PastPolicy
<1>2. ForcedIsAsked'
  <2> SUFFICES ASSUME NEW d \in Calls, d # c, WasCleared(d)' PROVE Heeded(d)'
    BY DEF ForcedIsAsked
  <2>1. WasCleared(d)
    BY DEF WasCleared, Cleared
  <2>2. Heeded(d)
    BY <2>1 DEF ConsentInv, ForcedIsAsked
  <2> QED
    BY <2>2 DEF Heeded
<1>3. ScheduledEnds'
  BY DEF ConsentInv, ScheduledEnds
<1> QED
  BY <1>1, <1>2, <1>3 DEF ConsentInv

LEMMA ThrowConsent ==
  ASSUME PlaceInv, ConsentInv, NEW c \in Calls, step[c] # "idle", Throw(c), phase' = phase,
         UNCHANGED <<forced, consented, tool>>,
         \A d \in Calls : d # c => verdict'[d] = verdict[d] /\ outcome'[d] = outcome[d]
  PROVE  ConsentInv'
<1>1. c \in active /\ active \subseteq Calls
  BY DEF PlaceInv, SuspendedInWave, TypeOK, StoreTypeOK
<1>2. PICK s \in {"error", "cancelled"} : status' = Updated(status, {c}, s)
  BY DEF Throw
<1>3. status'[c] = s /\ \A d \in Calls : d # c => status'[d] = status[d]
  BY <1>1, <1>2, UpdatedOne DEF PlaceInv
<1>4. step'[c] = "idle" /\ \A d \in Calls : d # c => step'[d] = step[d]
  BY DEF Throw, PlaceInv, TypeOK, SchedulerTypeOK
<1>5. active' = active
  BY DEF Throw
<1>6. ~PastPolicy(c)' /\ ~WasCleared(c)'
  BY <1>3, <1>4 DEF PastPolicy, WasCleared, Cleared
<1> QED
  BY <1>1, <1>3, <1>4, <1>5, <1>6, StepKeepsConsent

LEMMA CheckConsent ==
  ASSUME PlaceInv, WaveInv, ConsentInv, NEW c \in Calls, Check(c)
  PROVE  ConsentInv'
<1> USE DEF CoroutineFrame, storeVars, requestVars, checkVars, loopVars, PlaceInv, TypeOK,
            StoreTypeOK, SchedulerTypeOK
<1>1. step[c] # "idle" /\ phase' = phase
  BY DEF Check, ExternalFailure, HookContinues, HookStops, PolicyAllows, PolicyDenies,
     PolicyAsks, NothingToConfirm, AskUser, EditorCloses, EditorUnavailable, EditApplied,
     Modify, WaitAborted, DecisionApplied
<1>2. c \in active /\ active \subseteq Calls /\ status[c] # "scheduled"
  BY <1>1 DEF SuspendedInWave, ConsentInv, ScheduledEnds
<1>3. CASE ExternalFailure(c) \/ WaitAborted(c)
  BY <1>1, <1>3, ThrowConsent DEF ExternalFailure, WaitAborted
<1>4. CASE HookContinues(c)
  <2>1. /\ UNCHANGED <<status, active, verdict, outcome, tool, consented>>
        /\ step'[c] = "policy" /\ \A d \in Calls : d # c => step'[d] = step[d]
        /\ \A d \in Calls : d # c => (d \in forced' <=> d \in forced)
    BY <1>4 DEF HookContinues
  <2>2. ~PastPolicy(c)' /\ ~WasCleared(c)'
    BY <1>2, <2>1 DEF PastPolicy, WasCleared, Cleared
  <2> QED
    BY <1>1, <1>2, <2>1, <2>2, StepKeepsConsent
<1>5. CASE HookStops(c)
  <2>1. /\ status'[c] = "error" /\ step'[c] = "idle"
        /\ UNCHANGED <<forced, active, verdict, outcome, tool, consented>>
        /\ \A d \in Calls : d # c => status'[d] = status[d] /\ step'[d] = step[d]
    BY <1>2, <1>5, UpdatedOne DEF HookStops
  <2>2. ~PastPolicy(c)' /\ ~WasCleared(c)'
    BY <2>1 DEF PastPolicy, WasCleared, Cleared
  <2> QED
    BY <1>1, <1>2, <2>1, <2>2, StepKeepsConsent
<1>6. CASE PolicyAllows(c)
  <2>1. policy[tool[c]] # "deny" /\ c \notin forced
    BY <1>6 DEF PolicyAllows, Decision, MustAsk
  <2>2. /\ verdict'[c] # "deny" /\ step'[c] = "idle"
        /\ UNCHANGED <<forced, active, tool, consented>>
    BY <1>6, <2>1 DEF PolicyAllows
  <2>3. \A d \in Calls : d # c =>
          /\ step'[d] = step[d] /\ verdict'[d] = verdict[d] /\ outcome'[d] = outcome[d]
          /\ status'[d] = status[d]
    BY <1>2, <1>6, UpdatedOne DEF PolicyAllows
  <2>4. Heeded(c)'
    BY <2>1, <2>2 DEF Heeded
  <2> QED
    BY <1>1, <1>2, <2>2, <2>3, <2>4, StepKeepsConsent
<1>7. CASE PolicyDenies(c)
  <2>1. /\ status'[c] = "error" /\ step'[c] = "idle"
        /\ UNCHANGED <<forced, active, outcome, tool, consented>>
        /\ \A d \in Calls : d # c =>
             status'[d] = status[d] /\ step'[d] = step[d] /\ verdict'[d] = verdict[d]
    BY <1>2, <1>7, UpdatedOne DEF PolicyDenies
  <2>2. ~PastPolicy(c)' /\ ~WasCleared(c)'
    BY <2>1 DEF PastPolicy, WasCleared, Cleared
  <2> QED
    BY <1>1, <1>2, <2>1, <2>2, StepKeepsConsent
<1>8. CASE PolicyAsks(c)
  <2>1. policy[tool[c]] = "deny" => c \in forced
    BY <1>8 DEF PolicyAsks, MustAsk, Decision
  <2>2. /\ UNCHANGED <<forced, outcome, tool, consented>>
        /\ verdict' = [verdict EXCEPT ![c] = policy[tool[c]]]
    BY <1>8 DEF PolicyAsks
  <2>3. CASE Throw(c)
    BY <1>1, <2>2, <2>3, ThrowConsent
  <2>4. CASE step' = [step EXCEPT ![c] = "details"] /\ UNCHANGED storeVars
    <3>1. step[c] = "policy" /\ phase = "validating"
      BY <1>8 DEF PolicyAsks, WaveInv, StepInPhase
    <3>2. ~WasCleared(c)'
      BY <1>1, <1>2, <2>4, <3>1 DEF WasCleared, Cleared
    <3> QED
      BY <1>1, <1>2, <2>1, <2>2, <2>4, <3>2, StepKeepsConsent
  <2> QED
    BY <1>8, <2>3, <2>4 DEF PolicyAsks
<1>9. CASE NothingToConfirm(c)
  <2>1. /\ step[c] = "details" /\ step'[c] = "decided"
        /\ UNCHANGED <<storeVars, forced, verdict, tool, consented>>
        /\ \A d \in Calls : d # c => step'[d] = step[d] /\ outcome'[d] = outcome[d]
    BY <1>9 DEF NothingToConfirm
  <2>2. phase = "executing" \/ c \notin forced \/ tool[c] \in Heedless
    BY <1>9 DEF NothingToConfirm, MayConfirmNothing
  <2>3. Heeded(c)'
    BY <2>1, <2>2 DEF Heeded, WasCleared, ConsentInv, ForcedIsAsked
  <2>4. verdict'[c] = "deny" => c \in forced'
    BY <2>1 DEF ConsentInv, DeniedIsForced, PastPolicy
  <2> QED
    BY <1>1, <1>2, <2>1, <2>3, <2>4, StepKeepsConsent
<1>10. CASE EditorUnavailable(c)
  <2>1. /\ step[c] = "editing" /\ step'[c] = "details" /\ phase = "validating"
        /\ UNCHANGED <<storeVars, forced, verdict, outcome, tool, consented>>
        /\ \A d \in Calls : d # c => step'[d] = step[d]
    BY <1>10 DEF EditorUnavailable, WaveInv, StepInPhase
  <2>2. ~WasCleared(c)' /\ (verdict'[c] = "deny" => c \in forced')
    BY <1>1, <1>2, <2>1 DEF WasCleared, Cleared, ConsentInv, DeniedIsForced, PastPolicy
  <2> QED
    BY <1>1, <1>2, <2>1, <2>2, StepKeepsConsent
<1>11. CASE AskUser(c)
  <2>1. /\ step[c] = "details" /\ step'[c] = "asking" /\ status'[c] = "awaiting_approval"
        /\ UNCHANGED <<forced, active, verdict, outcome, tool, consented>>
        /\ \A d \in Calls : d # c => status'[d] = status[d] /\ step'[d] = step[d]
    BY <1>2, <1>11, UpdatedOne DEF AskUser
  <2>2. verdict'[c] = "deny" => c \in forced'
    BY <2>1 DEF ConsentInv, DeniedIsForced, PastPolicy
  <2>3. WasCleared(c)' => Heeded(c)'
    BY <1>1, <2>1 DEF WasCleared, Cleared, Heeded, ConsentInv, ForcedIsAsked
  <2> QED
    BY <1>1, <1>2, <2>1, <2>2, <2>3, StepKeepsConsent
<1>12. CASE EditorCloses(c) \/ EditApplied(c)
  <2>1. \/ step[c] = "editing" /\ EditorCloses(c)
        \/ step[c] = "applying" /\ EditApplied(c)
    BY <1>12 DEF EditorCloses, EditApplied, Modify
  <2>2. /\ UNCHANGED <<forced, verdict, tool, consented>>
        /\ \A d \in Calls : d # c => outcome'[d] = outcome[d]
        /\ \/ Throw(c)
           \/ /\ UNCHANGED storeVars
              /\ step' = [step EXCEPT ![c] = IF step[c] = "editing" THEN "details"
                                             ELSE "decided"]
    BY <1>12 DEF EditorCloses, EditApplied, Modify
  <2>3. CASE Throw(c)
    BY <1>1, <2>2, <2>3, ThrowConsent
  <2>4. CASE /\ UNCHANGED storeVars
             /\ step' = [step EXCEPT ![c] = IF step[c] = "editing" THEN "details"
                                            ELSE "decided"]
    <3>1. /\ verdict[c] = "deny" => c \in forced
          /\ \A d \in Calls : d # c => step'[d] = step[d]
          /\ phase = "validating"
      BY <2>1, <2>4 DEF ConsentInv, DeniedIsForced, PastPolicy, WaveInv, StepInPhase
    <3>2. WasCleared(c)' => step[c] = "applying"
      BY <1>1, <1>2, <2>1, <2>4, <3>1 DEF WasCleared, Cleared
    <3>3. WasCleared(c)' => Heeded(c)'
      BY <2>2, <3>2 DEF WasCleared, Heeded, ConsentInv, ForcedIsAsked
    <3>4. c \in active' /\ status'[c] = "scheduled" => step'[c] = "idle"
      BY <1>2, <2>4
    <3>5. active' = active /\ status' = status
      BY <2>4
    <3> QED
      BY <1>1, <1>2, <2>2, <3>1, <3>3, <3>4, <3>5, StepKeepsConsent
  <2> QED
    BY <2>2, <2>3, <2>4
<1>13. CASE DecisionApplied(c)
  <2>1. /\ step[c] = "decided" /\ step'[c] = "idle"
        /\ \A d \in Calls : d # c => step'[d] = step[d]
        /\ UNCHANGED <<forced, active, verdict, outcome, tool, consented>>
    BY <1>13 DEF DecisionApplied
  <2>2. verdict[c] = "deny" => c \in forced
    BY <2>1 DEF ConsentInv, DeniedIsForced, PastPolicy
  <2>3. CASE outcome[c] = "cancel" /\ CancelAllQueued(Updated(status, {c}, "cancelled"))
    <3> DEFINE st == Updated(status, {c}, "cancelled")
    <3>1. \A d \in Calls : st[d] = "scheduled" => d # c /\ status[d] = "scheduled"
      BY <1>2 DEF Updated
    <3>2. CancelAllQueued(st)
      BY <2>3
    <3> HIDE DEF st
    <3>3. \A d \in Calls : status'[d] = "scheduled" => st[d] = "scheduled"
      BY <3>2 DEF CancelAllQueued, CancelledStatus
    <3>4. ~PastPolicy(c)' /\ ~WasCleared(c)'
      BY <2>1, <3>1, <3>3 DEF PastPolicy, WasCleared, Cleared
    <3> QED
      BY <1>1, <1>2, <2>1, <2>2, <3>1, <3>3, <3>4, StepKeepsConsent
  <2>4. CASE outcome[c] # "cancel" /\ status' = Updated(status, {c}, "scheduled")
    <3>1. \A d \in Calls : d # c => status'[d] = status[d]
      BY <1>2, <2>4, UpdatedOne
    <3>2. Heeded(c)
      BY <2>1, <2>4 DEF ConsentInv, ForcedIsAsked, WasCleared, Cleared
    <3>3. Heeded(c)'
      BY <2>1, <3>2 DEF Heeded
    <3> QED
      BY <1>1, <1>2, <2>1, <2>2, <3>1, <3>3, StepKeepsConsent
  <2> QED
    BY <1>13, <2>3, <2>4 DEF DecisionApplied
<1> QED
  BY <1>3, <1>4, <1>5, <1>6, <1>7, <1>8, <1>9, <1>10, <1>11, <1>12, <1>13 DEF Check

LEMMA RunConsent ==
  ASSUME PlaceInv, SettlingHasResult, WaveInv, ConsentInv, NEW c \in Calls, Run(c)
  PROVE  ConsentInv'
<1> USE DEF CoroutineFrame, storeVars, requestVars, checkVars, loopVars, PlaceInv, TypeOK,
            StoreTypeOK, SchedulerTypeOK
<1>1. step[c] # "idle" /\ phase' = phase
  BY DEF Run, ToolReturns, RunEnds, TailCall, AskExpansion, ExpansionDecided
<1>2. c \in active /\ active \subseteq Calls /\ status[c] # "scheduled"
  BY <1>1 DEF SuspendedInWave, ConsentInv, ScheduledEnds
<1>3. CASE ToolReturns(c)
  <2>1. /\ step[c] = "running" /\ step'[c] = "settling"
        /\ UNCHANGED <<forced, status, active, verdict, outcome, tool, consented>>
        /\ \A d \in Calls : d # c => step'[d] = step[d]
    BY <1>3 DEF ToolReturns
  <2>2. Heeded(c)' /\ (verdict'[c] = "deny" => c \in forced')
    BY <2>1 DEF Heeded, ConsentInv, ForcedIsAsked, WasCleared, Cleared, DeniedIsForced,
       PastPolicy
  <2> QED
    BY <1>1, <1>2, <2>1, <2>2, StepKeepsConsent
<1>4. CASE RunEnds(c)
  <2>1. /\ status'[c] = result[c] /\ result[c] # "scheduled"
        /\ \A d \in Calls : d # c => status'[d] = status[d] /\ step'[d] = step[d]
        /\ step'[c] = "idle"
        /\ UNCHANGED <<forced, active, verdict, outcome, tool, consented>>
    BY <1>2, <1>4, UpdatedOne DEF RunEnds, SettlingHasResult, Results
  <2>2. ~PastPolicy(c)' /\ ~WasCleared(c)'
    BY <2>1 DEF PastPolicy, WasCleared, Cleared
  <2> QED
    BY <1>1, <1>2, <2>1, <2>2, StepKeepsConsent
<1>5. CASE TailCall(c)
  <2>1. /\ active' = active \ {c} /\ step'[c] = "idle"
        /\ \A d \in Calls : d # c =>
             /\ step'[d] = step[d] /\ verdict'[d] = verdict[d] /\ outcome'[d] = outcome[d]
             /\ tool'[d] = tool[d] /\ status'[d] = status[d]
             /\ d \in forced' <=> d \in forced
             /\ d \in consented' <=> d \in consented
    BY <1>5 DEF TailCall, ReplaceActiveCallWithTailCall
  <2>2. ~PastPolicy(c)' /\ ~WasCleared(c)'
    BY <2>1 DEF PastPolicy, WasCleared, Cleared
  <2> QED
    BY <1>1, <1>2, <2>1, <2>2, StepKeepsConsent
<1>6. CASE AskExpansion(c)
  <2>1. /\ UNCHANGED <<forced, verdict, outcome, tool, consented>>
        /\ step[c] = "settling" /\ phase = "executing"
    BY <1>6 DEF AskExpansion, WaveInv, StepInPhase
  <2>2. CASE Throw(c)
    BY <1>1, <2>1, <2>2, ThrowConsent
  <2>3. CASE /\ status' = Updated(status, {c}, "awaiting_approval")
             /\ step' = [step EXCEPT ![c] = "details"]
             /\ UNCHANGED <<queue, active, completed, reports>>
    <3>1. /\ status'[c] = "awaiting_approval" /\ step'[c] = "details"
          /\ \A d \in Calls : d # c => status'[d] = status[d] /\ step'[d] = step[d]
          /\ active' = active
      BY <1>2, <2>3, UpdatedOne
    <3>2. Heeded(c)' /\ (verdict'[c] = "deny" => c \in forced')
      BY <2>1 DEF Heeded, ConsentInv, ForcedIsAsked, WasCleared, Cleared, DeniedIsForced,
         PastPolicy
    <3> QED
      BY <1>1, <1>2, <2>1, <3>1, <3>2, StepKeepsConsent
  <2> QED
    BY <1>6, <2>2, <2>3 DEF AskExpansion
<1>7. CASE ExpansionDecided(c)
  <2> DEFINE again == outcome[c] # "cancel" /\ ~Stopped
  <2>0. step' = [step EXCEPT ![c] = IF again THEN "running" ELSE "idle"]
    BY <1>7 DEF ExpansionDecided
  <2>1. /\ UNCHANGED <<forced, active, verdict, outcome, tool, consented>>
        /\ step[c] = "decided"
        /\ \/ step'[c] = "idle"
           \/ step'[c] = "running" /\ outcome[c] # "cancel"
        /\ \A d \in Calls : d # c => step'[d] = step[d]
    BY <1>7, <2>0 DEF ExpansionDecided
  <2>2. \E s \in {"error", "cancelled", "executing"} : status' = Updated(status, {c}, s)
    BY <1>7 DEF ExpansionDecided
  <2>3. /\ status'[c] # "scheduled"
        /\ \A d \in Calls : d # c => status'[d] = status[d]
    BY <1>2, <2>2, UpdatedOne
  <2>4. verdict'[c] = "deny" => c \in forced'
    BY <2>1 DEF ConsentInv, DeniedIsForced, PastPolicy
  <2>5. WasCleared(c)' => Heeded(c)'
    BY <2>1, <2>3 DEF Heeded, ConsentInv, ForcedIsAsked, WasCleared, Cleared
  <2> QED
    BY <1>1, <1>2, <2>1, <2>3, <2>4, <2>5, StepKeepsConsent
<1> QED
  BY <1>3, <1>4, <1>5, <1>6, <1>7 DEF Run

LEMMA OutsideConsent ==
  ASSUME PlaceInv, WaveInv, ConsentInv, NEW c \in Calls, User(c) \/ Output(c)
  PROVE  ConsentInv'
<1> USE DEF CoroutineFrame, storeVars, requestVars, checkVars, loopVars, runVars, PlaceInv,
            TypeOK, StoreTypeOK, SchedulerTypeOK
<1>1. CASE User(c) \/ Detach(c)
  <2>1. /\ step[c] \in {"asking", "running"} /\ phase' = phase
        /\ UNCHANGED <<status, active, forced, verdict, tool>>
        /\ \A d \in Calls : d # c =>
             /\ step'[d] = step[d] /\ outcome'[d] = outcome[d]
             /\ d \in consented' <=> d \in consented
        /\ \/ c \in forced => c \in consented'
           \/ step'[c] = "decided" /\ outcome'[c] = "cancel"
           \/ step'[c] = "editing" /\ UNCHANGED <<outcome, consented>>
           \/ step[c] = "running" /\ step'[c] = "settling" /\ UNCHANGED <<outcome, consented>>
    BY <1>1 DEF User, UserProceeds, UserCancels, UserOpensEditor, UserAcceptsEdited, Detach
  <2>2. c \in active /\ active \subseteq Calls /\ status[c] # "scheduled"
    BY <2>1 DEF SuspendedInWave, ConsentInv, ScheduledEnds
  <2>3. verdict'[c] = "deny" => c \in forced'
    BY <2>1 DEF ConsentInv, DeniedIsForced, PastPolicy
  <2>4. WasCleared(c)' => Heeded(c)'
    BY <2>1, <2>2 DEF WasCleared, Cleared, Heeded, ConsentInv, ForcedIsAsked
  <2> QED
    BY <2>1, <2>2, <2>3, <2>4, StepKeepsConsent
<1>2. CASE LiveOutput(c) \/ DetachedExits(c)
  <2>1. \A d \in Calls : status'[d] = "scheduled" => status[d] = "scheduled"
    BY <1>2 DEF LiveOutput, DetachedExits, Updated
  <2> QED
    BY <1>2, <2>1, ConsentKept DEF LiveOutput, DetachedExits
<1> QED
  BY <1>1, <1>2 DEF Output

LEMMA ConsentInvariant == Spec => []ConsentInv
<1>1. Init => ConsentInv
  BY DEF Init, StoreInit, ConsentInv, DeniedIsForced, ForcedIsAsked, ScheduledEnds,
     PastPolicy, WasCleared, Cleared
<1>2. /\ PlaceInv /\ SettlingHasResult /\ WaveInv /\ [Next]_vars /\ ConsentInv
      => ConsentInv'
  <2> SUFFICES ASSUME PlaceInv, SettlingHasResult, WaveInv, [Next]_vars, ConsentInv
               PROVE  ConsentInv'
    OBVIOUS
  <2>1. CASE UNCHANGED vars
    <3>1. active \subseteq Calls
      BY DEF PlaceInv, TypeOK, StoreTypeOK
    <3> QED
      BY <2>1, <3>1, ConsentKept DEF vars, storeVars, requestVars, checkVars, loopVars
  <2>2. CASE Next
    BY <2>1, <2>2, ClientConsent, LoopConsent, CheckConsent, RunConsent,
       OutsideConsent DEF Next, AllSettled
  <2> QED
    BY <2>1, <2>2
<1> QED
  BY <1>1, <1>2, TypeInvariant, PlaceInvariant, ReportInvariant, PTL DEF Spec

(* For any policy, hooks, origins, edits, expansions and tail calls, a     *)
(* call that a hook sends to the user or the policy denies runs only after *)
(* the user has agreed, unless its tool does not heed the hook.            *)
THEOREM ConsentFirst == Spec => []AskedBeforeRun
<1>1. ConsentInv => AskedBeforeRun
  BY DEF ConsentInv, DeniedIsForced, ForcedIsAsked, PastPolicy, WasCleared, Cleared, Heeded,
     AskedBeforeRun, InProgress
<1> QED
  BY <1>1, ConsentInvariant, PTL

-----------------------------------------------------------------------------
(* Arguments.                                                              *)

(* A call whose proposal can be edited is alone in its wave.               *)
EditsAlone == Editable \subseteq Waits \ Tailing

(* Late output of a call does not meet the hooks of its tail call.         *)
HooksInPeace == Hooked \cap Tailing \cap Detachable = {}

(* The hooks have not let the call pass: it is still to come, ...          *)
Upcoming(c) == \E j \in Jobs : promise[j] \in {"unscheduled", "queued"} /\ c \in BatchSet(j)

(* ... queued, or with the hooks now.                                      *)
Unchecked(c) == c \in Queued \/ step[c] = "hook" \/ Upcoming(c)

(* Such a call carries nothing that hooks made, and nothing of it goes on  *)
(* in the background unless it is a tail call.                             *)
UncheckedClean ==
  \A c \in Calls : Unchecked(c) => c \notin rewritten /\ (c \in detached => c \in Tailing)

(* No other call is active with one that can be edited.                    *)
EditedAlone ==
  \A c \in Calls : c \in Editable => c \in waits /\ (c \in active => active = {c})

(* Only such a call is edited, and permission is given for the edit.       *)
EditsShown ==
  \A c \in Calls :
    /\ step[c] \in {"editing", "applying"} => c \in Editable
    /\ step[c] = "applying" => approved[c] = "edited"

(* What a hook makes reaches both the policy and the invocation.           *)
HookHeard(c) == step[c] = "hook" /\ c \in Hooked => status[c] = "validating"

RewriteSeen(c) == step[c] = "policy" /\ c \in rewritten => args[c] = "hooked"

(* The check of a call ends when the call is scheduled.                    *)
ScheduledRests == \A c \in active : status[c] = "scheduled" => step[c] = "idle"

PermittedArgs(c) == Cleared(c) => args[c] = approved[c]

(* cancelAll() has not replaced the calls that hooks work on.              *)
Intact == ~isCancelling \/ NoHooks

ArgsInv ==
  /\ UncheckedClean /\ EditedAlone /\ EditsShown /\ ScheduledRests
  /\ Intact => \A c \in Calls : HookHeard(c) /\ RewriteSeen(c) /\ PermittedArgs(c)

(* The batches to come only get fewer.                                     *)
LEMMA UpcomingFewer ==
  ASSUME ReportInv, PlaceInv, [Next]_vars, NEW c \in Calls, Upcoming(c)'
  PROVE  Upcoming(c)
<1> DEFINE Awaits(j) == promise[j] \in {"unscheduled", "queued"}
<1> USE DEF PlaceInv, TypeOK, SchedulerTypeOK
<1>1. ASSUME NEW j \in Jobs, Awaits(j)' PROVE Awaits(j)
  <2>1. CASE UNCHANGED vars
    BY <1>1, <2>1 DEF vars, clientVars
  <2>2. CASE Client
    <3>1. ASSUME NEW k \in Jobs, ScheduleNow(k) \/ ScheduleLater(k) PROVE Awaits(j)
      BY <1>1, <3>1 DEF ScheduleNow, ScheduleLater, StartBatch
    <3>2. CASE (\E s \in Signals : Abort(s)) \/ CancelAll
      BY <1>1, <3>2 DEF Abort, CancelAll
    <3> QED
      BY <2>2, <3>1, <3>2 DEF Client
  <2>3. CASE ReturnBatch
    <3>1. current \in Jobs /\ promise[current] = "running"
      BY <2>3 DEF ReturnBatch, ReportInv, OneBatchAtATime
    <3> DEFINE p == [promise EXCEPT ![current] = "resolved"]
    <3>2. Awaits(j)' => p[j] = promise'[j]
      <4>1. CASE requestQueue # <<>> /\ StartBatch(Head(requestQueue), p)
        BY <4>1, <3>1 DEF StartBatch
      <4>2. CASE Rest(p)
        BY <4>2 DEF Rest
      <4> QED
        BY <2>3, <4>1, <4>2 DEF ReturnBatch, ProcessNextInRequestQueue
    <3> QED
      BY <1>1, <3>1, <3>2
  <2>4. CASE Loop /\ ~ReturnBatch
    BY <1>1, <2>4 DEF Loop, FinishLoop, StopLoop, AnswerErrored, StartWave, RevisitActive,
       BeginExecution, FinalizeWave, clientVars
  <2>5. ASSUME NEW d \in Calls, Check(d) \/ Run(d) \/ User(d) \/ Output(d)
        PROVE  UNCHANGED promise
    <3>1. CoroutineFrame
      BY <2>5 DEF Check, ExternalFailure, HookContinues, HookStops, PolicyAllows,
         PolicyDenies, PolicyAsks, NothingToConfirm, AskUser, EditorCloses,
         EditorUnavailable, EditApplied, WaitAborted, DecisionApplied, Modify,
         Run, ToolReturns, RunEnds, TailCall, AskExpansion, ExpansionDecided,
         User, UserProceeds, UserCancels, UserOpensEditor, UserAcceptsEdited,
         Output, Detach, LiveOutput, DetachedExits
    <3> QED
      BY <3>1 DEF CoroutineFrame, clientVars
  <2> QED
    BY <1>1, <2>1, <2>2, <2>3, <2>4, <2>5 DEF Next, AllSettled
<1> QED
  BY <1>1 DEF Upcoming, BatchSet

(* A call that has a coroutine is neither queued nor to come.              *)
LEMMA SuspendedIsPresent ==
  ASSUME PlaceInv, ReportInv, NEW c \in Calls, step[c] # "idle"
  PROVE  c \in active /\ c \notin Queued /\ ~Upcoming(c)
<1>1. c \in active /\ phase # "idle" /\ c \notin Queued
  BY DEF PlaceInv, SuspendedInWave, OnePlace
<1>2. current \in Jobs /\ promise[current] = "running" /\ c \in BatchSet(current)
  BY <1>1 DEF PlaceInv, TypeOK, SchedulerTypeOK, ReportInv, OneBatchAtATime, OwnCalls, Present
<1>3. \A j \in Jobs : c \in BatchSet(j) => j = current
  BY <1>2, SchedulerAssumption
<1> QED
  BY <1>1, <1>2, <1>3 DEF Upcoming

(* A step that neither starts nor queues a call, nor touches arguments.    *)
LEMMA ArgsKept ==
  ASSUME PlaceInv, ArgsInv, UNCHANGED <<rewritten, outcome, args, approved, waits>>,
         \A c \in Calls : Unchecked(c)' => Unchecked(c),
         \A c \in Calls : c \in detached' /\ Unchecked(c)' => c \in detached,
         active' \subseteq active,
         \A c \in Calls : step'[c] = step[c],
         Intact' => Intact,
         \A c \in Calls : c \in active' /\ status'[c] = "scheduled" => status[c] = "scheduled",
         Intact' => \A c \in Calls : step[c] = "hook" /\ c \in Hooked => status'[c] = status[c]
  PROVE  ArgsInv'
<1>1. UncheckedClean'
  BY DEF ArgsInv, UncheckedClean
<1>2. EditedAlone' /\ EditsShown'
  <2>1. \A c \in Calls : c \in Editable => c \in waits' /\ (c \in active' => active' = {c})
    BY DEF ArgsInv, EditedAlone
  <2>2. EditsShown'
    BY DEF ArgsInv, EditsShown
  <2> QED
    BY <2>1, <2>2 DEF EditedAlone
<1>3. ASSUME Intact', NEW c \in Calls PROVE HookHeard(c)' /\ RewriteSeen(c)' /\ PermittedArgs(c)'
  BY <1>3 DEF ArgsInv, HookHeard, RewriteSeen, PermittedArgs, Cleared
<1>4. ScheduledRests'
  BY DEF ArgsInv, ScheduledRests, PlaceInv, TypeOK, StoreTypeOK
<1> QED
  BY <1>1, <1>2, <1>3, <1>4 DEF ArgsInv

(* A batch starts when nobody is being checked, so cancelAll() is over.    *)
LEMMA StartBatchArgs ==
  ASSUME PlaceInv, ReportInv, ArgsInv, NEW j \in Jobs, NEW p, StartBatch(j, p),
         promise[j] \in {"unscheduled", "queued"}, phase \in {"idle", "returning"},
         active = {}, [Next]_vars,
         UNCHANGED <<rewritten, outcome, args, approved, waits, detached, active, step>>
  PROVE  ArgsInv'
<1>1. \A c \in Calls : step'[c] = "idle"
  BY DEF PlaceInv, SuspendedInWave
<1>2. ASSUME NEW c \in Calls, Unchecked(c)' PROVE Unchecked(c)
  <2>1. CASE c \in Queued'
    <3>2. c \in BatchSet(j)
      BY <2>1, StartBatchPlaces
    <3> QED
      BY <3>2 DEF Unchecked, Upcoming
  <2>2. CASE Upcoming(c)'
    BY <2>2, UpcomingFewer DEF Unchecked
  <2> QED
    BY <1>1, <1>2, <2>1, <2>2 DEF Unchecked
<1>3. UncheckedClean'
  BY <1>2 DEF ArgsInv, UncheckedClean
<1>4. EditedAlone' /\ EditsShown' /\ ScheduledRests'
  BY <1>1 DEF ArgsInv, EditedAlone, EditsShown, ScheduledRests
<1>5. \A c \in Calls : HookHeard(c)' /\ RewriteSeen(c)' /\ PermittedArgs(c)'
  BY <1>1 DEF HookHeard, RewriteSeen, PermittedArgs, Cleared
<1> QED
  BY <1>3, <1>4, <1>5 DEF ArgsInv

LEMMA ClientArgs ==
  ASSUME PlaceInv, ReportInv, ArgsInv, Client, [Next]_vars
  PROVE  ArgsInv'
<1> USE DEF requestVars, checkVars, runVars, storeVars, loopVars
<1>1. ASSUME NEW j \in Jobs, ScheduleNow(j) PROVE ArgsInv'
  BY <1>1, StartBatchArgs DEF ScheduleNow
<1>2. ASSUME NEW c \in Calls, UNCHANGED <<step, queue>> PROVE Unchecked(c)' => Unchecked(c)
  BY <1>2, UpcomingFewer DEF Unchecked, Queued
<1>3. ASSUME NEW j \in Jobs, ScheduleLater(j) PROVE ArgsInv'
  <2>1. /\ UNCHANGED <<rewritten, outcome, args, approved, waits, step, detached, queue,
                       active, isCancelling, status>>
    BY <1>3 DEF ScheduleLater
  <2> QED
    BY <1>2, <2>1, ArgsKept DEF Intact
<1>4. ASSUME NEW s \in Signals, Abort(s) PROVE ArgsInv'
  <2>1. /\ UNCHANGED <<rewritten, outcome, args, approved, waits, step, detached, queue,
                       active, isCancelling, status>>
    BY <1>4 DEF Abort
  <2> QED
    BY <1>2, <2>1, ArgsKept DEF Intact
<1>5. ASSUME CancelAll PROVE ArgsInv'
  <2> DEFINE st == Updated(status, active \ Finished(status), "cancelled")
  <2>1. \A c \in Calls : st[c] = "scheduled" => status[c] = "scheduled"
    BY DEF Updated
  <2>2. CancelAllQueued(st) /\ active' = active
    BY <1>5 DEF CancelAll
  <2> HIDE DEF st
  <2>3. \A c \in Calls : status'[c] = "scheduled" => status[c] = "scheduled"
    BY <2>1, <2>2, CancelAllQueuedConsent DEF PlaceInv
  <2>4. queue' = <<>> /\ Queued' = {}
    BY <2>2, EmptyInjective DEF CancelAllQueued, Queued
  <2>5. /\ UNCHANGED <<rewritten, outcome, args, approved, waits, step, detached>>
        /\ isCancelling' = TRUE
    BY <1>5 DEF CancelAll
  <2>6. \A c \in Calls : Unchecked(c)' => Unchecked(c)
    BY <2>4, <2>5, UpcomingFewer DEF Unchecked
  <2>7. Intact' => NoHooks
    BY <2>5 DEF Intact
  <2>8. Intact' => Intact
    BY <2>7 DEF Intact
  <2>9. Intact' => \A c \in Calls : ~(c \in Hooked)
    BY <2>7 DEF NoHooks
  <2> QED
    BY <2>2, <2>3, <2>5, <2>6, <2>8, <2>9, ArgsKept
<1> QED
  BY <1>1, <1>3, <1>4, <1>5 DEF Client

LEMMA StartWaveArgs ==
  ASSUME PlaceInv, ReportInv, WaveInv, ArgsInv, StartWave, [Next]_vars
  PROVE  ArgsInv'
<1> USE DEF requestVars, checkVars, runVars, clientVars
<1>1. PICK n \in DOMAIN queue :
        /\ IsWave(n)
        /\ Dequeue(n)
        /\ step' = [c \in Calls |->
                     IF status[c] = "validating" /\ \E i \in 1..n : queue[i] = c
                     THEN "hook" ELSE step[c]]
  BY DEF StartWave
<1>2. queue \in Seq(Calls) /\ n \in 1..Len(queue)
  BY <1>1 DEF IsWave, PlaceInv, TypeOK, StoreTypeOK
<1>3. active' = {queue[i] : i \in 1..n} /\ active' \subseteq Queued
  BY <1>1, <1>2, RangeMember DEF StartWave, Dequeue, Queued
<1>4. Queued' \subseteq Queued
  BY <1>1, <1>2 DEF Dequeue, Queued, Range
<1>5. \A c \in Calls : step'[c] = step[c] \/ (step'[c] = "hook" /\ status[c] = "validating"
                                               /\ c \in Queued)
  BY <1>1, <1>3
<1>6. /\ UNCHANGED <<rewritten, outcome, args, approved, waits, detached, status, isCancelling>>
      /\ active = {}
  BY DEF StartWave
<1>7. \A c \in Calls : Unchecked(c)' => Unchecked(c)
  BY <1>4, <1>5, UpcomingFewer DEF Unchecked
<1>8. UncheckedClean'
  BY <1>6, <1>7 DEF ArgsInv, UncheckedClean
<1>9. ASSUME NEW c \in Calls, c \in Editable, c \in active' PROVE active' = {c}
  <2>1. PICK i \in 1..n : queue[i] = c
    BY <1>3, <1>9
  <2>2. c \in waits
    BY <1>9 DEF ArgsInv, EditedAlone
  <2>3. n = 1
    BY <1>1, <1>2, <2>1, <2>2 DEF IsWave
  <2> QED
    BY <1>3, <2>1, <2>3
<1>10. EditedAlone'
  BY <1>6, <1>9 DEF ArgsInv, EditedAlone
<1>11. EditsShown'
  BY <1>5, <1>6 DEF ArgsInv, EditsShown
<1>12. ScheduledRests'
  BY <1>3, <1>6 DEF WaveInv, QueuedFresh, ScheduledRests
<1>13. ASSUME NEW c \in Calls, Intact'
       PROVE  HookHeard(c)' /\ RewriteSeen(c)' /\ PermittedArgs(c)'
  <2>1. HookHeard(c) /\ RewriteSeen(c) /\ PermittedArgs(c)
    BY <1>6, <1>13 DEF Intact, ArgsInv
  <2>2. c \in active' => status[c] # "scheduled"
    BY <1>3 DEF WaveInv, QueuedFresh
  <2> QED
    BY <1>5, <1>6, <2>1, <2>2 DEF HookHeard, RewriteSeen, PermittedArgs, Cleared
<1> QED
  BY <1>8, <1>10, <1>11, <1>12, <1>13 DEF ArgsInv

LEMMA LoopArgs ==
  ASSUME PlaceInv, ReportInv, WaveInv, ArgsInv, Loop, [Next]_vars
  PROVE  ArgsInv'
<1> USE DEF requestVars, checkVars, runVars, storeVars, clientVars, loopVars
<1>1. ASSUME NEW c \in Calls, step'[c] = "hook" => step[c] = "hook", Queued' \subseteq Queued
      PROVE  Unchecked(c)' => Unchecked(c)
  BY <1>1, UpcomingFewer DEF Unchecked
<1>2. ASSUME FinishLoop \/ RevisitActive PROVE ArgsInv'
  <2>1. UNCHANGED <<rewritten, outcome, args, approved, waits, step, detached, queue,
                    active, isCancelling, status>>
    BY <1>2 DEF FinishLoop, RevisitActive
  <2>2. Queued' \subseteq Queued
    BY <2>1 DEF Queued
  <2> QED
    BY <1>1, <2>1, <2>2, ArgsKept DEF Intact
<1>3. ASSUME AnswerErrored PROVE ArgsInv'
  <2>1. /\ UNCHANGED <<rewritten, outcome, args, approved, waits, step, detached,
                       active, isCancelling, status>>
        /\ queue # <<>> /\ queue' = Tail(queue)
    BY <1>3 DEF AnswerErrored
  <2>2. Queued' \subseteq Queued
    BY <2>1 DEF Queued, Range, PlaceInv, TypeOK, StoreTypeOK
  <2> QED
    BY <1>1, <2>1, <2>2, ArgsKept DEF Intact
<1>4. ASSUME StopLoop PROVE ArgsInv'
  <2>1. /\ UNCHANGED <<rewritten, outcome, args, approved, waits, step, detached,
                       active, isCancelling>>
        /\ CancelAllQueued(status)
    BY <1>4 DEF StopLoop
  <2>2. \A c \in Calls : status'[c] = "scheduled" => status[c] = "scheduled"
    BY <2>1, CancelAllQueuedConsent DEF PlaceInv
  <2>3. Queued' = {} /\ \A c \in active : status'[c] = status[c]
    BY <2>1, CancelAllQueuedWave DEF PlaceInv
  <2>4. \A c \in Calls : step[c] = "hook" => c \in active
    BY DEF PlaceInv, SuspendedInWave
  <2> QED
    BY <1>1, <2>1, <2>2, <2>3, <2>4, ArgsKept DEF Intact
<1>5. ASSUME BeginExecution PROVE ArgsInv'
  <2>1. /\ UNCHANGED <<rewritten, outcome, args, approved, waits, detached, queue, active,
                       isCancelling>>
        /\ \A c \in Calls : step[c] = "idle" \/ c \notin active
    BY <1>5 DEF BeginExecution, Coroutines
  <2>2. \A c \in Calls : step[c] = "idle"
    BY <2>1 DEF PlaceInv, SuspendedInWave
  <2>3. \A c \in Calls : c \in active => status'[c] # "scheduled"
    BY <1>5 DEF BeginExecution, Updated, ScheduledCalls
  <2>4. \A c \in Calls : \/ step'[c] = "idle"
                         \/ step'[c] = "running" /\ c \in active /\ status[c] = "scheduled"
    BY <1>5, <2>2 DEF BeginExecution, ScheduledCalls
  <2>5. \A c \in Calls : Unchecked(c)' => Unchecked(c)
    BY <1>1, <2>1, <2>4 DEF Queued
  <2>6. UncheckedClean' /\ EditedAlone' /\ EditsShown' /\ ScheduledRests'
    BY <2>1, <2>3, <2>4, <2>5 DEF ArgsInv, UncheckedClean, EditedAlone, EditsShown,
       ScheduledRests, PlaceInv, TypeOK, StoreTypeOK
  <2>7. ASSUME NEW c \in Calls, Intact'
        PROVE  HookHeard(c)' /\ RewriteSeen(c)' /\ PermittedArgs(c)'
    <3>1. PermittedArgs(c)
      BY <2>1, <2>7 DEF Intact, ArgsInv
    <3> QED
      BY <2>1, <2>3, <2>4, <3>1 DEF HookHeard, RewriteSeen, PermittedArgs, Cleared
  <2> QED
    BY <2>6, <2>7 DEF ArgsInv
<1>6. ASSUME FinalizeWave PROVE ArgsInv'
  <2>1. /\ UNCHANGED <<rewritten, outcome, args, approved, waits, step, detached, queue,
                       isCancelling, status>>
        /\ active' \subseteq active
    BY <1>6 DEF FinalizeWave, FinalizeCalls
  <2>2. Queued' \subseteq Queued
    BY <2>1 DEF Queued
  <2> QED
    BY <1>1, <2>1, <2>2, ArgsKept DEF Intact
<1>7. ASSUME ReturnBatch PROVE ArgsInv'
  <2> DEFINE p == [promise EXCEPT ![current] = "resolved"]
  <2>1. UNCHANGED <<rewritten, outcome, args, approved, waits, step, detached, active>>
    BY <1>7 DEF ReturnBatch
  <2>2. CASE requestQueue # <<>> /\ active = {} /\ StartBatch(Head(requestQueue), p)
    <3>1. Head(requestQueue) \in Range(requestQueue) /\ Head(requestQueue) \in Jobs
      BY <2>2, RangeMember DEF PlaceInv, TypeOK, SchedulerTypeOK, Range
    <3>2. promise[Head(requestQueue)] = "queued"
      BY <3>1 DEF ReportInv, LineOfQueued
    <3>3. phase \in {"idle", "returning"}
      BY <1>7 DEF ReturnBatch
    <3> HIDE DEF p
    <3> QED
      BY <2>1, <2>2, <3>1, <3>2, <3>3, StartBatchArgs
  <2>3. CASE Rest(p)
    <3>1. UNCHANGED <<status, queue, isCancelling>>
      BY <2>3 DEF Rest
    <3>2. Queued' \subseteq Queued
      BY <3>1 DEF Queued
    <3> QED
      BY <1>1, <2>1, <3>1, <3>2, ArgsKept DEF Intact
  <2> QED
    BY <1>7, <2>2, <2>3 DEF ReturnBatch, ProcessNextInRequestQueue
<1> QED
  BY <1>2, <1>3, <1>4, <1>5, <1>6, <1>7, StartWaveArgs DEF Loop

(* One step of the coroutine of call c.                                    *)
LEMMA StepKeepsArgs ==
  ASSUME PlaceInv, ReportInv, ArgsInv, NEW c \in Calls, step[c] # "idle", step'[c] # "hook",
         UNCHANGED <<promise, isCancelling>>, active' \subseteq active,
         \A d \in Calls : d # c =>
           /\ step'[d] = step[d] /\ outcome'[d] = outcome[d]
           /\ args'[d] = args[d] /\ approved'[d] = approved[d]
           /\ d \in rewritten' => d \in rewritten
           /\ d \in waits => d \in waits'
           /\ d \in detached' => d \in detached
           /\ d \in Queued' => d \in Queued
           /\ d \in active /\ status'[d] = "scheduled" => status[d] = "scheduled"
           /\ Intact /\ step[d] = "hook" => status'[d] = status[d],
         c \in Queued' => c \notin rewritten' /\ (c \in detached' => c \in Tailing),
         c \in Editable => c \in waits',
         step'[c] \in {"editing", "applying"} => c \in Editable,
         step'[c] = "applying" => approved'[c] = "edited",
         status'[c] = "scheduled" => step'[c] = "idle" \/ status[c] = "scheduled",
         Intact => RewriteSeen(c)' /\ PermittedArgs(c)'
  PROVE  ArgsInv'
<1>1. ~Upcoming(c)
  BY SuspendedIsPresent
<1>2. \A d \in Calls : Upcoming(d)' => Upcoming(d)
  BY DEF Upcoming, BatchSet
<1>3. ASSUME NEW d \in Calls, Unchecked(d)'
      PROVE  d \notin rewritten' /\ (d \in detached' => d \in Tailing)
  BY <1>1, <1>2, <1>3 DEF Unchecked, ArgsInv, UncheckedClean
<1>4. UncheckedClean'
  BY <1>3 DEF UncheckedClean
<1>5. ASSUME NEW d \in Calls, d \in Editable
      PROVE  d \in waits' /\ (d \in active' => active' = {d})
  BY <1>5 DEF ArgsInv, EditedAlone
<1>6. ASSUME NEW d \in Calls
      PROVE  /\ step'[d] \in {"editing", "applying"} => d \in Editable
             /\ step'[d] = "applying" => approved'[d] = "edited"
  BY DEF ArgsInv, EditsShown
<1>7. Intact' <=> Intact
  BY DEF Intact
<1>8. ASSUME NEW d \in Calls, Intact'
      PROVE  HookHeard(d)' /\ RewriteSeen(d)' /\ PermittedArgs(d)'
  <2>1. CASE d = c
    BY <1>7, <1>8, <2>1 DEF HookHeard
  <2>2. CASE d # c
    <3>1. HookHeard(d) /\ RewriteSeen(d) /\ PermittedArgs(d)
      BY <1>7, <1>8 DEF ArgsInv
    <3>2. HookHeard(d)'
      BY <1>7, <1>8, <2>2, <3>1 DEF HookHeard
    <3>3. RewriteSeen(d)'
      BY <2>2, <3>1 DEF RewriteSeen
    <3>4. PermittedArgs(d)'
      BY <2>2, <3>1 DEF PermittedArgs, Cleared
    <3> QED
      BY <3>2, <3>3, <3>4
  <2> QED
    BY <2>1, <2>2
<1>9. EditedAlone'
  BY <1>5 DEF EditedAlone
<1>10. EditsShown'
  BY <1>6 DEF EditsShown
<1>11. ScheduledRests'
  <2>1. c \in active /\ status[c] # "scheduled"
    BY SuspendedIsPresent DEF ArgsInv, ScheduledRests
  <2> QED
    BY <2>1 DEF ArgsInv, ScheduledRests, PlaceInv, TypeOK, StoreTypeOK
<1> QED
  BY <1>4, <1>8, <1>9, <1>10, <1>11 DEF ArgsInv

LEMMA ThrowArgs ==
  ASSUME PlaceInv, ReportInv, ArgsInv, NEW c \in Calls, step[c] # "idle", Throw(c),
         UNCHANGED <<promise, isCancelling, rewritten, approved, waits, detached>>,
         \A d \in Calls : d # c => args'[d] = args[d] /\ outcome'[d] = outcome[d]
  PROVE  ArgsInv'
<1>1. c \in active /\ c \notin Queued /\ (c \in Editable => c \in waits)
  BY SuspendedIsPresent DEF ArgsInv, EditedAlone
<1>2. PICK s \in {"error", "cancelled"} : status' = Updated(status, {c}, s)
  BY DEF Throw
<1>3. status'[c] = s /\ \A d \in Calls : d # c => status'[d] = status[d]
  BY <1>1, <1>2, UpdatedOne DEF PlaceInv
<1>4. step'[c] = "idle" /\ \A d \in Calls : d # c => step'[d] = step[d]
  BY DEF Throw, PlaceInv, TypeOK, SchedulerTypeOK
<1>5. UNCHANGED <<active, queue>> /\ Queued' = Queued
  BY DEF Throw, Queued
<1>6. RewriteSeen(c)' /\ PermittedArgs(c)'
  BY <1>3, <1>4 DEF RewriteSeen, PermittedArgs, Cleared
<1> QED
  BY <1>1, <1>3, <1>4, <1>5, <1>6, StepKeepsArgs

(* The hook, then the policy: the policy judges what the hook made.        *)
LEMMA HookArgs ==
  ASSUME PlaceInv, ReportInv, ArgsInv, NEW c \in Calls, HookContinues(c)
  PROVE  ArgsInv'
<1> USE DEF CoroutineFrame, storeVars, clientVars, loopVars, runVars, PlaceInv, TypeOK,
            StoreTypeOK, SchedulerTypeOK
<1>1. step[c] = "hook" /\ c \notin rewritten
  BY DEF HookContinues, ArgsInv, UncheckedClean, Unchecked
<1>2. c \in active /\ c \notin Queued /\ (c \in Editable => c \in waits)
  BY <1>1, SuspendedIsPresent DEF ArgsInv, EditedAlone
<1>3. PICK changed \in BOOLEAN :
        /\ changed => c \in Hooked
        /\ args' = IF changed /\ status[c] = "validating"
                   THEN [args EXCEPT ![c] = "hooked"] ELSE args
        /\ rewritten' = IF changed THEN rewritten \cup {c} ELSE rewritten
  BY DEF HookContinues
<1>4. /\ UNCHANGED <<promise, isCancelling, active, queue, status, waits, outcome, approved,
                     detached>>
      /\ step' = [step EXCEPT ![c] = "policy"]
      /\ Queued' = Queued
  BY DEF HookContinues, Queued
<1>5. ASSUME Intact PROVE RewriteSeen(c)' /\ PermittedArgs(c)'
  <2>1. c \in Hooked => status[c] = "validating"
    BY <1>1, <1>5 DEF ArgsInv, HookHeard
  <2>2. RewriteSeen(c)'
    BY <1>1, <1>3, <2>1 DEF RewriteSeen
  <2>3. PermittedArgs(c)'
    <3>1. ~Cleared(c)'
      BY <1>1, <1>2, <1>4 DEF Cleared, ArgsInv, ScheduledRests
    <3> QED
      BY <3>1 DEF PermittedArgs
  <2> QED
    BY <2>2, <2>3
<1>6. step'[c] = "policy" /\ \A d \in Calls : d # c => step'[d] = step[d] /\ args'[d] = args[d]
  BY <1>3, <1>4
<1>7. \A d \in Calls : d # c => (d \in rewritten' => d \in rewritten)
  BY <1>3
<1> QED
  BY <1>1, <1>2, <1>4, <1>5, <1>6, <1>7, StepKeepsArgs

(* An edit of the oldest active call is an edit of the only one.           *)
LEMMA ModifyArgs ==
  ASSUME PlaceInv, ReportInv, ArgsInv, NEW c \in Calls, NEW read, NEW t \in {"details", "decided"},
         NEW s \in {"editing", "applying"}, NEW o,
         t = "decided" => s = "applying", Modify(c, read, s, t, o)
  PROVE  ArgsInv'
<1> USE DEF CoroutineFrame, storeVars, clientVars, loopVars, runVars, PlaceInv, TypeOK,
            StoreTypeOK, SchedulerTypeOK
<1>1. step[c] = s /\ step[c] # "idle"
  BY DEF Modify
<1>2. c \in active /\ c \notin Queued /\ c \in Editable /\ c \in waits /\ active = {c}
  BY <1>1, SuspendedIsPresent DEF ArgsInv, EditedAlone, EditsShown
<1>3. UNCHANGED <<promise, isCancelling, rewritten, approved, waits, detached>>
  BY DEF Modify
<1>4. PICK f \in active :
         IF f \in read /\ status[f] # "awaiting_approval"
         THEN Throw(c) /\ UNCHANGED <<args, outcome>>
         ELSE /\ args' = [args EXCEPT ![c] = ModifiedArgs(c, f)]
              /\ step' = [step EXCEPT ![c] = t]
              /\ outcome' = [outcome EXCEPT ![c] = o]
              /\ UNCHANGED storeVars
  BY DEF Modify
<1>5. CASE Throw(c) /\ UNCHANGED <<args, outcome>>
  BY <1>1, <1>3, <1>5, ThrowArgs
<1>6. CASE /\ args' = [args EXCEPT ![c] = ModifiedArgs(c, f)]
           /\ step' = [step EXCEPT ![c] = t]
           /\ outcome' = [outcome EXCEPT ![c] = o]
           /\ UNCHANGED storeVars
  <2>1. args'[c] = "edited" /\ \A d \in Calls : d # c => args'[d] = args[d]
    BY <1>2, <1>6 DEF ModifiedArgs
  <2>2. /\ step'[c] = t
        /\ \A d \in Calls : d # c => step'[d] = step[d] /\ outcome'[d] = outcome[d]
    BY <1>6
  <2>3. UNCHANGED <<queue, active, status>> /\ Queued' = Queued
    BY <1>6 DEF Queued
  <2>4. s = "applying" => approved[c] = "edited"
    BY <1>1 DEF ArgsInv, EditsShown
  <2>5. ASSUME Intact PROVE RewriteSeen(c)' /\ PermittedArgs(c)'
    <3>1. PermittedArgs(c)'
      <4>1. CASE t = "decided"
        BY <1>3, <2>1, <2>4, <4>1 DEF PermittedArgs
      <4>2. CASE t = "details"
        BY <1>1, <2>2, <2>3, <4>2 DEF PermittedArgs, Cleared, ArgsInv, ScheduledRests
      <4> QED
        BY <4>1, <4>2
    <3> QED
      BY <2>2, <3>1 DEF RewriteSeen
  <2> QED
    BY <1>1, <1>2, <1>3, <2>1, <2>2, <2>3, <2>5, StepKeepsArgs
<1> QED
  BY <1>4, <1>5, <1>6

LEMMA CheckArgs ==
  ASSUME PlaceInv, ReportInv, ArgsInv, NEW c \in Calls, Check(c)
  PROVE  ArgsInv'
<1> USE DEF CoroutineFrame, storeVars, requestVars, checkVars, runVars, clientVars, loopVars,
            PlaceInv, TypeOK, StoreTypeOK, SchedulerTypeOK
<1>1. step[c] # "idle"
  BY DEF Check, ExternalFailure, HookContinues, HookStops, PolicyAllows, PolicyDenies,
     PolicyAsks, NothingToConfirm, AskUser, EditorCloses, EditorUnavailable, EditApplied,
     Modify, WaitAborted, DecisionApplied
<1>2. c \in active /\ c \notin Queued /\ (c \in Editable => c \in waits) /\ status[c] # "scheduled"
  BY <1>1, SuspendedIsPresent DEF ArgsInv, EditedAlone, ScheduledRests
<1>3. CASE ExternalFailure(c) \/ WaitAborted(c)
  BY <1>1, <1>3, ThrowArgs DEF ExternalFailure, WaitAborted
<1>4. CASE HookContinues(c)
  BY <1>4, HookArgs
<1>5. CASE HookStops(c) \/ PolicyDenies(c)
  <2>1. /\ status'[c] = "error" /\ step'[c] = "idle"
        /\ UNCHANGED <<args, rewritten, waits, detached, queue, active, outcome, approved>>
        /\ \A d \in Calls : d # c => status'[d] = status[d] /\ step'[d] = step[d]
    BY <1>2, <1>5, UpdatedOne DEF HookStops, PolicyDenies
  <2>2. Queued' = Queued /\ UNCHANGED <<promise, isCancelling>>
    BY <1>5, <2>1 DEF HookStops, PolicyDenies, Queued
  <2>3. RewriteSeen(c)' /\ PermittedArgs(c)'
    BY <2>1 DEF RewriteSeen, PermittedArgs, Cleared
  <2> QED
    BY <1>1, <1>2, <2>1, <2>2, <2>3, StepKeepsArgs
<1>6. CASE PolicyAllows(c)
  <2>1. /\ step[c] = "policy" /\ status'[c] = "scheduled" /\ step'[c] = "idle"
        /\ UNCHANGED <<args, rewritten, waits, detached, queue, active>>
        /\ \A d \in Calls : d # c =>
             /\ status'[d] = status[d] /\ step'[d] = step[d] /\ outcome'[d] = outcome[d]
             /\ approved'[d] = approved[d]
        /\ approved'[c] = JudgedArgs(c)
    BY <1>2, <1>6, UpdatedOne DEF PolicyAllows
  <2>2. Queued' = Queued /\ UNCHANGED <<promise, isCancelling>>
    BY <1>6, <2>1 DEF PolicyAllows, Queued
  <2>3. ASSUME Intact PROVE RewriteSeen(c)' /\ PermittedArgs(c)'
    <3>1. RewriteSeen(c)
      BY <2>3 DEF ArgsInv
    <3>2. approved'[c] = args[c]
      BY <2>1, <3>1 DEF RewriteSeen, JudgedArgs, ShownArgs
    <3> QED
      BY <2>1, <3>2 DEF RewriteSeen, PermittedArgs
  <2> QED
    BY <1>1, <1>2, <2>1, <2>2, <2>3, StepKeepsArgs
<1>7. CASE PolicyAsks(c)
  <2>1. UNCHANGED <<args, rewritten, waits, detached, outcome, approved, promise, isCancelling>>
    BY <1>7 DEF PolicyAsks
  <2>2. CASE Throw(c)
    BY <1>1, <2>1, <2>2, ThrowArgs
  <2>3. CASE step' = [step EXCEPT ![c] = "details"] /\ UNCHANGED storeVars
    <3>1. /\ step'[c] = "details" /\ Queued' = Queued /\ UNCHANGED <<active, status>>
          /\ \A d \in Calls : d # c => step'[d] = step[d]
      BY <2>3 DEF Queued
    <3>2. RewriteSeen(c)' /\ PermittedArgs(c)'
      BY <1>2, <3>1 DEF RewriteSeen, PermittedArgs, Cleared
    <3> QED
      BY <1>1, <1>2, <2>1, <3>1, <3>2, StepKeepsArgs
  <2> QED
    BY <1>7, <2>2, <2>3 DEF PolicyAsks
<1>8. CASE NothingToConfirm(c)
  <2>1. /\ step'[c] = "decided" /\ approved'[c] = args[c]
        /\ UNCHANGED <<args, rewritten, waits, detached, queue, active, status, promise,
                       isCancelling>>
        /\ \A d \in Calls : d # c => /\ step'[d] = step[d] /\ outcome'[d] = outcome[d]
                                     /\ approved'[d] = approved[d]
    BY <1>8 DEF NothingToConfirm, ShownArgs
  <2>2. Queued' = Queued
    BY <2>1 DEF Queued
  <2>3. RewriteSeen(c)' /\ PermittedArgs(c)'
    BY <2>1 DEF RewriteSeen, PermittedArgs
  <2> QED
    BY <1>1, <1>2, <2>1, <2>2, <2>3, StepKeepsArgs
<1>9. CASE AskUser(c)
  <2>1. /\ status'[c] = "awaiting_approval" /\ step'[c] = "asking"
        /\ UNCHANGED <<args, rewritten, waits, detached, queue, active, outcome, approved,
                       promise, isCancelling>>
        /\ \A d \in Calls : d # c => status'[d] = status[d] /\ step'[d] = step[d]
    BY <1>2, <1>9, UpdatedOne DEF AskUser
  <2>2. Queued' = Queued
    BY <2>1 DEF Queued
  <2>3. RewriteSeen(c)' /\ PermittedArgs(c)'
    BY <2>1 DEF RewriteSeen, PermittedArgs, Cleared
  <2> QED
    BY <1>1, <1>2, <2>1, <2>2, <2>3, StepKeepsArgs
<1>10. CASE EditorCloses(c)
  BY <1>10, ModifyArgs DEF EditorCloses
<1>11. CASE EditorUnavailable(c)
  <2>1. /\ step'[c] = "details"
        /\ UNCHANGED <<args, rewritten, waits, detached, queue, active, status, outcome,
                       approved, promise, isCancelling>>
        /\ \A d \in Calls : d # c => step'[d] = step[d]
    BY <1>11 DEF EditorUnavailable
  <2>2. Queued' = Queued
    BY <2>1 DEF Queued
  <2>3. RewriteSeen(c)' /\ PermittedArgs(c)'
    BY <1>2, <2>1 DEF RewriteSeen, PermittedArgs, Cleared
  <2> QED
    BY <1>1, <1>2, <2>1, <2>2, <2>3, StepKeepsArgs
<1>12. CASE EditApplied(c)
  BY <1>12, ModifyArgs DEF EditApplied
<1>13. CASE DecisionApplied(c)
  <2>1. /\ step[c] = "decided" /\ step'[c] = "idle"
        /\ UNCHANGED <<args, rewritten, waits, detached, active, outcome, approved, promise,
                       isCancelling>>
        /\ \A d \in Calls : d # c => step'[d] = step[d]
    BY <1>13 DEF DecisionApplied
  <2>2. RewriteSeen(c)'
    BY <2>1 DEF RewriteSeen
  <2>3. CASE CancelAllQueued(Updated(status, {c}, "cancelled"))
    <3> DEFINE st == Updated(status, {c}, "cancelled")
    <3>1. st[c] = "cancelled" /\ \A d \in Calls : d # c => st[d] = status[d]
      BY <1>2 DEF Updated
    <3>2. CancelAllQueued(st)
      BY <2>3
    <3> HIDE DEF st
    <3>3. Queued' = {} /\ \A d \in active : status'[d] = st[d]
      BY <2>1, <3>2, CancelAllQueuedWave
    <3>4. \A d \in Calls : step[d] = "hook" => d \in active
      BY DEF SuspendedInWave
    <3>5. PermittedArgs(c)'
      BY <1>2, <2>1, <3>1, <3>3 DEF PermittedArgs, Cleared
    <3> QED
      BY <1>1, <1>2, <2>1, <2>2, <3>1, <3>3, <3>4, <3>5, StepKeepsArgs
  <2>4. CASE outcome[c] # "cancel" /\ status' = Updated(status, {c}, "scheduled")
             /\ UNCHANGED queue
    <3>1. \A d \in Calls : d # c => status'[d] = status[d]
      BY <1>2, <2>4, UpdatedOne
    <3>2. Intact => PermittedArgs(c)'
      <4>1. Intact => PermittedArgs(c)
        BY DEF ArgsInv
      <4>2. Cleared(c)
        BY <2>1, <2>4 DEF Cleared
      <4> QED
        BY <2>1, <4>1, <4>2 DEF PermittedArgs
    <3>3. Queued' = Queued
      BY <2>4 DEF Queued
    <3> QED
      BY <1>1, <1>2, <2>1, <2>2, <3>1, <3>2, <3>3, StepKeepsArgs
  <2> QED
    BY <1>13, <2>3, <2>4 DEF DecisionApplied
<1> QED
  BY <1>3, <1>4, <1>5, <1>6, <1>7, <1>8, <1>9, <1>10, <1>11, <1>12, <1>13 DEF Check

LEMMA RunArgs ==
  ASSUME EditsAlone, PlaceInv, SettlingHasResult, ReportInv, ArgsInv, NEW c \in Calls, Run(c)
  PROVE  ArgsInv'
<1> USE DEF CoroutineFrame, storeVars, requestVars, checkVars, runVars, clientVars, loopVars,
            PlaceInv, TypeOK, StoreTypeOK, SchedulerTypeOK
<1>1. step[c] # "idle"
  BY DEF Run, ToolReturns, RunEnds, TailCall, AskExpansion, ExpansionDecided
<1>2. c \in active /\ c \notin Queued /\ (c \in Editable => c \in waits) /\ status[c] # "scheduled"
  BY <1>1, SuspendedIsPresent DEF ArgsInv, EditedAlone, ScheduledRests
<1>3. CASE ToolReturns(c)
  <2>1. /\ step[c] = "running" /\ step'[c] = "settling"
        /\ UNCHANGED <<args, rewritten, waits, detached, queue, active, status, outcome,
                       approved, promise, isCancelling>>
        /\ \A d \in Calls : d # c => step'[d] = step[d]
    BY <1>3 DEF ToolReturns
  <2>2. Queued' = Queued
    BY <2>1 DEF Queued
  <2>3. ASSUME Intact PROVE RewriteSeen(c)' /\ PermittedArgs(c)'
    <3>1. PermittedArgs(c)
      BY <2>3 DEF ArgsInv
    <3> QED
      BY <2>1, <3>1 DEF RewriteSeen, PermittedArgs, Cleared
  <2> QED
    BY <1>1, <1>2, <2>1, <2>2, <2>3, StepKeepsArgs
<1>4. CASE RunEnds(c)
  <2>1. /\ status'[c] = result[c] /\ result[c] # "scheduled" /\ step'[c] = "idle"
        /\ \A d \in Calls : d # c => status'[d] = status[d] /\ step'[d] = step[d]
        /\ UNCHANGED <<args, rewritten, waits, detached, queue, active, outcome, approved,
                       promise, isCancelling>>
    BY <1>2, <1>4, UpdatedOne DEF RunEnds, SettlingHasResult, Results
  <2>2. Queued' = Queued
    BY <2>1 DEF Queued
  <2>3. RewriteSeen(c)' /\ PermittedArgs(c)'
    BY <2>1 DEF RewriteSeen, PermittedArgs, Cleared
  <2> QED
    BY <1>1, <1>2, <2>1, <2>2, <2>3, StepKeepsArgs
<1>5. CASE TailCall(c)
  <2>1. /\ c \in Tailing /\ active' = active \ {c} /\ step'[c] = "idle" /\ c \notin rewritten'
        /\ UNCHANGED <<promise, isCancelling, detached>>
        /\ rewritten' \subseteq rewritten /\ waits \ {c} \subseteq waits'
        /\ \A d \in Calls : d # c =>
             /\ step'[d] = step[d] /\ outcome'[d] = outcome[d]
             /\ args'[d] = args[d] /\ approved'[d] = approved[d] /\ status'[d] = status[d]
    BY <1>5 DEF TailCall, WantsTail, ReplaceActiveCallWithTailCall
  <2>2. queue' = <<c>> \o queue
    BY <1>5 DEF TailCall, ReplaceActiveCallWithTailCall
  <2>3. \A d \in Calls : d # c => (d \in Queued' => d \in Queued)
    BY <2>2 DEF Queued, Range
  <2>4. c \notin Editable
    BY <2>1 DEF EditsAlone
  <2>5. RewriteSeen(c)' /\ PermittedArgs(c)'
    BY <2>1 DEF RewriteSeen, PermittedArgs, Cleared
  <2> QED
    BY <1>1, <2>1, <2>3, <2>4, <2>5, StepKeepsArgs
<1>6. CASE AskExpansion(c)
  <2>1. /\ UNCHANGED <<rewritten, waits, detached, outcome, approved, promise, isCancelling>>
        /\ \A d \in Calls : d # c => args'[d] = args[d]
    BY <1>6 DEF AskExpansion
  <2>2. CASE Throw(c)
    BY <1>1, <2>1, <2>2, ThrowArgs
  <2>3. CASE /\ status' = Updated(status, {c}, "awaiting_approval")
             /\ step' = [step EXCEPT ![c] = "details"]
             /\ UNCHANGED <<queue, active, completed, reports>>
    <3>1. /\ status'[c] = "awaiting_approval" /\ step'[c] = "details"
          /\ \A d \in Calls : d # c => status'[d] = status[d] /\ step'[d] = step[d]
          /\ active' = active /\ Queued' = Queued
      BY <1>2, <2>3, UpdatedOne DEF Queued
    <3>2. RewriteSeen(c)' /\ PermittedArgs(c)'
      BY <3>1 DEF RewriteSeen, PermittedArgs, Cleared
    <3> QED
      BY <1>1, <1>2, <2>1, <3>1, <3>2, StepKeepsArgs
  <2> QED
    BY <1>6, <2>2, <2>3 DEF AskExpansion
<1>7. CASE ExpansionDecided(c)
  <2> DEFINE again == outcome[c] # "cancel" /\ ~Stopped
  <2>0. step' = [step EXCEPT ![c] = IF again THEN "running" ELSE "idle"]
    BY <1>7 DEF ExpansionDecided
  <2>1. /\ UNCHANGED <<args, rewritten, waits, detached, queue, active, outcome, approved,
                       promise, isCancelling>>
        /\ step[c] = "decided"
        /\ \/ step'[c] = "idle"
           \/ step'[c] = "running" /\ outcome[c] # "cancel"
        /\ \A d \in Calls : d # c => step'[d] = step[d]
    BY <1>7, <2>0 DEF ExpansionDecided
  <2>2. \E s \in {"error", "cancelled", "executing"} : status' = Updated(status, {c}, s)
    BY <1>7 DEF ExpansionDecided
  <2>3. /\ status'[c] # "scheduled"
        /\ \A d \in Calls : d # c => status'[d] = status[d]
    BY <1>2, <2>2, UpdatedOne
  <2>4. Queued' = Queued
    BY <2>1 DEF Queued
  <2>5. ASSUME Intact PROVE RewriteSeen(c)' /\ PermittedArgs(c)'
    <3>1. PermittedArgs(c)
      BY <2>5 DEF ArgsInv
    <3> QED
      BY <2>1, <2>3, <3>1 DEF RewriteSeen, PermittedArgs, Cleared
  <2> QED
    BY <1>1, <1>2, <2>1, <2>3, <2>4, <2>5, StepKeepsArgs
<1> QED
  BY <1>3, <1>4, <1>5, <1>6, <1>7 DEF Run

LEMMA OutsideArgs ==
  ASSUME HooksInPeace, PlaceInv, ReportInv, OnlyDetachable, ArgsInv, NEW c \in Calls,
         User(c) \/ Output(c), [Next]_vars
  PROVE  ArgsInv'
<1> USE DEF CoroutineFrame, storeVars, requestVars, checkVars, runVars, clientVars, loopVars,
            PlaceInv, TypeOK, StoreTypeOK, SchedulerTypeOK
<1>1. UNCHANGED <<args, rewritten, waits, queue, active, promise, isCancelling>> /\ Queued' = Queued
  BY DEF User, UserProceeds, UserCancels, UserOpensEditor, UserAcceptsEdited, Output, Detach,
     LiveOutput, DetachedExits, Queued
<1>2. CASE User(c) \/ Detach(c)
  <2>1. /\ step[c] \in {"asking", "running"}
        /\ step'[c] \in {"decided", "editing", "applying", "settling"}
        /\ UNCHANGED status
        /\ \A d \in Calls : d # c =>
             /\ step'[d] = step[d] /\ outcome'[d] = outcome[d] /\ approved'[d] = approved[d]
             /\ d \in detached' => d \in detached
    BY <1>2 DEF User, UserProceeds, UserCancels, UserOpensEditor, UserAcceptsEdited, Detach
  <2>2. c \in active /\ c \notin Queued /\ (c \in Editable => c \in waits)
        /\ status[c] # "scheduled"
    BY <2>1, SuspendedIsPresent DEF ArgsInv, EditedAlone, ScheduledRests
  <2>3. /\ step'[c] \in {"editing", "applying"} => c \in Editable
        /\ step'[c] = "applying" => approved'[c] = "edited"
    BY <1>2 DEF User, UserProceeds, UserCancels, UserOpensEditor, UserAcceptsEdited, Detach
  <2>4. ASSUME Intact PROVE RewriteSeen(c)' /\ PermittedArgs(c)'
    <3>1. PermittedArgs(c)
      BY <2>4 DEF ArgsInv
    <3>2. CASE User(c)
      BY <2>1, <2>2, <3>2 DEF User, UserProceeds, UserCancels, UserOpensEditor,
         UserAcceptsEdited, ShownArgs, RewriteSeen, PermittedArgs, Cleared
    <3>3. CASE Detach(c)
      BY <3>1, <3>3 DEF Detach, RewriteSeen, PermittedArgs, Cleared
    <3> QED
      BY <1>2, <3>2, <3>3
  <2> QED
    BY <1>1, <2>1, <2>2, <2>3, <2>4, StepKeepsArgs
<1>3. ASSUME LiveOutput(c) \/ DetachedExits(c) PROVE ArgsInv'
  <2>1. UNCHANGED <<outcome, approved, step>> /\ detached' \subseteq detached
    BY <1>3 DEF LiveOutput, DetachedExits
  <2>2. \A d \in Calls : status'[d] = "scheduled" => status[d] = "scheduled"
    BY <1>3 DEF LiveOutput, DetachedExits, Updated
  <2>3. \A d \in Calls : Unchecked(d)' => Unchecked(d)
    BY <1>1, <2>1, UpcomingFewer DEF Unchecked
  <2>4. ASSUME NEW d \in Calls, step[d] = "hook", d \in Hooked
        PROVE  status'[d] = status[d]
    <3>1. CASE DetachedExits(c)
      BY <3>1 DEF DetachedExits
    <3>2. CASE LiveOutput(c) /\ d # c
      BY <3>2 DEF LiveOutput, Updated
    <3>3. CASE LiveOutput(c) /\ d = c
      <4>1. c \in detached /\ c \in Detachable
        BY <2>4, <3>3 DEF LiveOutput, OnlyDetachable
      <4>2. c \in Tailing
        BY <2>4, <3>3, <4>1 DEF ArgsInv, UncheckedClean, Unchecked
      <4> QED
        BY <2>4, <3>3, <4>1, <4>2 DEF HooksInPeace
    <3> QED
      BY <1>3, <3>1, <3>2, <3>3
  <2>5. Intact' <=> Intact
    BY <1>1 DEF Intact
  <2> QED
    BY <1>1, <2>1, <2>2, <2>3, <2>4, <2>5, ArgsKept
<1> QED
  BY <1>2, <1>3 DEF Output

LEMMA ArgsInvariant == Spec => [](EditsAlone /\ HooksInPeace => ArgsInv)
<1>1. Init => (EditsAlone /\ HooksInPeace => ArgsInv)
  <2> SUFFICES ASSUME Init, EditsAlone PROVE ArgsInv
    OBVIOUS
  <2>1. UncheckedClean /\ EditsShown /\ ScheduledRests
    BY DEF Init, StoreInit, UncheckedClean, EditsShown, ScheduledRests
  <2>2. EditedAlone
    BY DEF Init, StoreInit, EditedAlone, EditsAlone
  <2>3. \A c \in Calls : HookHeard(c) /\ RewriteSeen(c) /\ PermittedArgs(c)
    BY DEF Init, StoreInit, HookHeard, RewriteSeen, PermittedArgs, Cleared
  <2> QED
    BY <2>1, <2>2, <2>3 DEF ArgsInv
<1>2. /\ PlaceInv /\ SettlingHasResult /\ OnlyDetachable /\ WaveInv /\ ReportInv /\ [Next]_vars
      /\ EditsAlone /\ HooksInPeace => ArgsInv
      => (EditsAlone /\ HooksInPeace => ArgsInv)'
  <2> SUFFICES ASSUME PlaceInv, SettlingHasResult, OnlyDetachable, WaveInv, ReportInv,
                      [Next]_vars, EditsAlone, HooksInPeace, ArgsInv
               PROVE  ArgsInv'
    BY DEF EditsAlone, HooksInPeace
  <2>1. CASE UNCHANGED vars
    <3>1. UNCHANGED <<rewritten, outcome, args, approved, waits, detached, active, step, queue,
                      status, isCancelling>>
      BY <2>1 DEF vars, storeVars, requestVars, checkVars, runVars, loopVars
    <3>2. \A c \in Calls : Unchecked(c)' => Unchecked(c)
      BY <3>1, UpcomingFewer DEF Unchecked, Queued
    <3> QED
      BY <3>1, <3>2, ArgsKept DEF Intact
  <2>2. CASE Next
    BY <2>1, <2>2, ClientArgs, LoopArgs, CheckArgs, RunArgs, OutsideArgs DEF Next, AllSettled
  <2> QED
    BY <2>1, <2>2
<1> QED
  BY <1>1, <1>2, TypeInvariant, PlaceInvariant, ReportInvariant, PTL DEF Spec

(* When proposals are edited one at a time, and late output does not meet  *)
(* the hooks of a tail call, a call runs with the arguments that were      *)
(* permitted, also after a rewriting hook, a sandbox expansion or as a     *)
(* tail call, until cancelAll().                                           *)
THEOREM RewrittenArgsRun ==
  Spec => [](/\ Editable \subseteq Waits \ Tailing
             /\ Hooked \cap Tailing \cap Detachable = {}
             => RunsAsRewritten)
<1>1. (EditsAlone /\ HooksInPeace => ArgsInv) =>
        (/\ Editable \subseteq Waits \ Tailing
         /\ Hooked \cap Tailing \cap Detachable = {}
         => RunsAsRewritten)
  BY DEF EditsAlone, HooksInPeace, ArgsInv, Intact, PermittedArgs, Cleared, RunsAsRewritten,
     RunsAsApproved, InProgress
<1> QED
  BY <1>1, ArgsInvariant, PTL

(* Without hooks that is so also after cancelAll().                        *)
THEOREM PermittedArgsRun ==
  Spec => [](Hooked = {} /\ Editable \subseteq Waits \ Tailing => RunsAsApproved)
<1>1. (EditsAlone /\ HooksInPeace => ArgsInv) =>
        (Hooked = {} /\ Editable \subseteq Waits \ Tailing => RunsAsApproved)
  BY DEF EditsAlone, HooksInPeace, ArgsInv, Intact, NoHooks, PermittedArgs, Cleared,
     RunsAsApproved, InProgress
<1> QED
  BY <1>1, ArgsInvariant, PTL

-----------------------------------------------------------------------------
(* Refusals.                                                               *)

(* Nobody has decided about a call that is still to come ...               *)
Untouched ==
  \A j \in Jobs : promise[j] \in {"unscheduled", "queued"} =>
    \A c \in BatchSet(j) : outcome[c] = "none"

QueuedUndecided == \A c \in Queued : outcome[c] = "none"

(* ... and a call that was refused does not go on.                         *)
RefusalDecides == \A c \in active : outcome[c] = "cancel" => step[c] \in {"decided", "idle"}

OnlyTails(S) == \A d \in S : tails[d] > 0

(* A refusal ends the call, unless late output of an earlier run makes it  *)
(* executing again; but for that of a sandbox expansion, it leaves nothing *)
(* queued, and later only tail calls of the siblings.                      *)
RefusalEmpties ==
  \A c \in active : outcome[c] = "cancel" /\ step[c] = "idle" =>
    /\ status[c] \in Terminal \cup {"executing"}
    /\ status[c] # "error" => OnlyTails(Queued)

Refused(c) == outcome[c] = "cancel" /\ status[c] # "error"

(* Late output made the call executing, and nothing can end it but         *)
(* cancelAll(), which ends all others as well.                             *)
Stuck == {c \in active : step[c] = "idle" /\ status[c] = "executing"}

(* Once a refused call is finalized only tail calls are queued, checked or *)
(* run; a sibling may be left that is to be run but waits for a stuck one. *)
AfterRefusal ==
  (\E c \in completed : Refused(c)) =>
    /\ OnlyTails(Queued \cup Coroutines)
    /\ Stuck = {} => OnlyTails(ScheduledCalls)

RefusalInv ==
  /\ Untouched /\ QueuedUndecided
  /\ RefusalDecides /\ RefusalEmpties
  /\ AfterRefusal

LEMMA StartBatchRefusal ==
  ASSUME PlaceInv, NEW j \in Jobs, NEW p, StartBatch(j, p), Untouched',
         phase \in {"idle", "returning"}, active = {}, UNCHANGED <<active, step, outcome>>,
         \A c \in BatchSet(j) : outcome[c] = "none"
  PROVE  RefusalInv'
<1>1. Queued' = BatchSet(j) /\ completed' = {}
  BY StartBatchPlaces DEF StartBatch, ClearBatch
<1> QED
  BY <1>1 DEF RefusalInv, QueuedUndecided, RefusalDecides, RefusalEmpties, AfterRefusal

(* Everything queued is cancelled, and st is what becomes of the others.   *)
LEMMA CancelAllQueuedRefusal ==
  ASSUME PlaceInv, RefusalInv, NEW st, CancelAllQueued(st), Untouched',
         UNCHANGED <<active, outcome, tails>>,
         \A c \in Calls : c \notin active => st[c] = status[c],
         \A c \in active : outcome[c] = "cancel" =>
           /\ step'[c] \in {"decided", "idle"}
           /\ step'[c] = "idle" => st[c] \in Terminal \cup {"executing"},
         \A c \in active : /\ step'[c] # "idle" => step[c] # "idle"
                           /\ st[c] = "scheduled" => status[c] = "scheduled",
         \/ \A c \in active : st[c] # "scheduled"
         \/ \A c \in active : step[c] = "idle" => step'[c] = "idle" /\ st[c] = status[c]
  PROVE  RefusalInv'
<1> USE DEF RefusalInv
<1>1. /\ Queued' = {}
      /\ completed' = completed \cup Queued
      /\ \A c \in active : status'[c] = st[c]
  BY CancelAllQueuedWave DEF PlaceInv
<1>2. QueuedUndecided' /\ RefusalDecides' /\ RefusalEmpties'
  BY <1>1 DEF QueuedUndecided, RefusalDecides, RefusalEmpties, OnlyTails
<1>3. ASSUME NEW c \in completed', Refused(c)' PROVE c \in completed /\ Refused(c)
  <2>1. c \in completed /\ c \notin Queued
    BY <1>1, <1>3 DEF Refused, QueuedUndecided
  <2>2. c \in Calls /\ c \notin active
    BY <2>1 DEF PlaceInv, TypeOK, StoreTypeOK, OnePlace
  <2>3. status'[c] = status[c]
    BY <2>1, <2>2 DEF CancelAllQueued
  <2> QED
    BY <1>3, <2>1, <2>3 DEF Refused
<1>4. Coroutines' \subseteq Coroutines /\ ScheduledCalls' \subseteq ScheduledCalls
  BY <1>1 DEF Coroutines, ScheduledCalls
<1>5. ScheduledCalls' = {} \/ Stuck \subseteq Stuck'
  BY <1>1 DEF ScheduledCalls, Stuck
<1>6. AfterRefusal'
  BY <1>1, <1>3, <1>4, <1>5 DEF AfterRefusal, OnlyTails
<1> QED
  BY <1>2, <1>6

LEMMA ClientRefusal ==
  ASSUME PlaceInv, RefusalInv, Client
  PROVE  RefusalInv'
<1> USE DEF PlaceInv, TypeOK, SchedulerTypeOK, storeVars, loopVars, checkVars, requestVars
<1>1. ASSUME NEW j \in Jobs, ScheduleNow(j) PROVE RefusalInv'
  <2>1. Untouched' /\ \A c \in BatchSet(j) : outcome[c] = "none"
    BY <1>1 DEF ScheduleNow, StartBatch, RefusalInv, Untouched
  <2> QED
    BY <1>1, <2>1, StartBatchRefusal DEF ScheduleNow
<1>2. ASSUME NEW j \in Jobs, ScheduleLater(j) PROVE RefusalInv'
  BY <1>2 DEF ScheduleLater, RefusalInv, Untouched, QueuedUndecided, RefusalDecides,
     RefusalEmpties, AfterRefusal, Refused, OnlyTails, Queued, Coroutines, ScheduledCalls, Stuck
<1>3. ASSUME NEW s \in Signals, Abort(s) PROVE RefusalInv'
  BY <1>3 DEF Abort, RefusalInv, Untouched, QueuedUndecided, RefusalDecides,
     RefusalEmpties, AfterRefusal, Refused, OnlyTails, Queued, Coroutines, ScheduledCalls, Stuck
<1>4. ASSUME CancelAll PROVE RefusalInv'
  <2> DEFINE st == Updated(status, active \ Finished(status), "cancelled")
  <2>1. Untouched'
    BY <1>4 DEF CancelAll, RefusalInv, Untouched
  <2>2. \A c \in Calls : c \notin active => st[c] = status[c]
    BY DEF Updated
  <2>3. \A c \in active : st[c] \in Terminal /\ st[c] # "scheduled"
    BY DEF Updated, Finished, Terminal, StoreTypeOK
  <2>4. CancelAllQueued(st) /\ UNCHANGED <<active, outcome, tails, step>>
    BY <1>4 DEF CancelAll
  <2> HIDE DEF st
  <2> QED
    BY <2>1, <2>2, <2>3, <2>4, CancelAllQueuedRefusal DEF RefusalInv, RefusalDecides
<1> QED
  BY <1>1, <1>2, <1>3, <1>4 DEF Client

LEMMA LoopRefusal ==
  ASSUME PlaceInv, WaveInv, ReportInv, RefusalInv, Loop
  PROVE  RefusalInv'
<1> USE DEF PlaceInv, storeVars, clientVars, loopVars, checkVars, requestVars
<1>1. CASE FinishLoop \/ RevisitActive
  BY <1>1 DEF FinishLoop, RevisitActive, RefusalInv, Untouched, QueuedUndecided,
     RefusalDecides, RefusalEmpties, AfterRefusal, Refused, OnlyTails, Queued,
     Coroutines, ScheduledCalls, Stuck
<1>2. CASE StopLoop
  <2>1. /\ CancelAllQueued(status)
        /\ UNCHANGED <<active, promise, outcome, tails, step>>
    BY <1>2 DEF StopLoop
  <2>2. Untouched'
    BY <2>1 DEF RefusalInv, Untouched
  <2> QED
    BY <2>1, <2>2, CancelAllQueuedRefusal DEF RefusalInv, RefusalDecides, RefusalEmpties
<1>3. CASE AnswerErrored
  <2>1. Head(queue) \in Queued /\ Queued' \subseteq Queued
    BY <1>3, HeadTailInjective DEF AnswerErrored, OnePlace, Queued, TypeOK, StoreTypeOK
  <2>2. /\ completed' = completed \cup {Head(queue)}
        /\ UNCHANGED <<status, active, promise, outcome, tails, step>>
    BY <1>3 DEF AnswerErrored
  <2> QED
    BY <2>1, <2>2 DEF RefusalInv, Untouched, QueuedUndecided, RefusalDecides,
       RefusalEmpties, AfterRefusal, Refused, OnlyTails, Coroutines, ScheduledCalls, Stuck
<1>4. CASE StartWave
  <2>1. PICK n \in 1..Len(queue) : Dequeue(n)
    BY <1>4 DEF StartWave, IsWave
  <2> DEFINE front == {queue[i] : i \in 1..n}
             rest  == SubSeq(queue, n + 1, Len(queue))
  <2>2. active = {} /\ active' = front /\ queue' = rest
    BY <1>4, <2>1 DEF StartWave, Dequeue
  <2>3. queue \in Seq(Calls) /\ IsInjective(queue)
    BY DEF OnePlace, TypeOK, StoreTypeOK
  <2>4. Range(rest) \cup front = Range(queue)
    BY <2>3, SplitInjective, Zenon
  <2>5. UNCHANGED <<status, completed, promise, outcome, tails>>
    BY <1>4 DEF StartWave
  <2>6. Queued' \cup active' = Queued
    BY <2>2, <2>4 DEF Queued
  <2>7. AfterRefusal'
    BY <2>5, <2>6 DEF RefusalInv, AfterRefusal, Refused, OnlyTails, Coroutines,
       ScheduledCalls
  <2> QED
    BY <2>5, <2>6, <2>7 DEF RefusalInv, Untouched, QueuedUndecided, RefusalDecides,
       RefusalEmpties
<1>5. CASE BeginExecution
  <2>1. \A c \in active : outcome[c] = "cancel" => c \notin ScheduledCalls
    BY <1>5 DEF BeginExecution, Coroutines, ScheduledCalls, RefusalInv, RefusalEmpties,
       Terminal
  <2>2. \A c \in Calls : c \notin ScheduledCalls =>
          status'[c] = status[c] /\ step'[c] = step[c]
    BY <1>5 DEF BeginExecution, Updated
  <2>3. UNCHANGED <<queue, active, completed, promise, outcome, tails>>
    BY <1>5 DEF BeginExecution
  <2>4. completed \subseteq Calls /\ active \subseteq Calls /\ active \cap completed = {}
    BY DEF TypeOK, StoreTypeOK, OnePlace
  <2>5. Stuck = {}
    BY <1>5 DEF BeginExecution, ReadyToExecute, Stuck, Terminal
  <2>6. ScheduledCalls' = {} /\ Coroutines' \subseteq Coroutines \cup ScheduledCalls
    BY <1>5, <2>2, <2>3, <2>4 DEF BeginExecution, ScheduledCalls, Updated, Coroutines
  <2>7. AfterRefusal'
    BY <2>2, <2>3, <2>4, <2>5, <2>6 DEF RefusalInv, AfterRefusal, Refused, OnlyTails, Queued,
       ScheduledCalls
  <2> QED
    BY <2>1, <2>2, <2>3, <2>4, <2>7 DEF RefusalInv, Untouched, QueuedUndecided,
       RefusalDecides, RefusalEmpties, OnlyTails, Queued, ScheduledCalls
<1>6. CASE FinalizeWave
  <2>1. /\ completed' \subseteq completed \cup active
        /\ UNCHANGED <<status, queue, promise, outcome, tails, step>>
        /\ \A c \in active : step[c] = "idle"
    BY <1>6 DEF FinalizeWave, FinalizeCalls, Finished, Coroutines
  <2>2. active' \subseteq active /\ \A c \in active : c \notin active' => status[c] \in Terminal
    BY <1>6 DEF FinalizeWave, FinalizeCalls, Finished
  <2>4. Coroutines' = {}
    BY <2>1, <2>2 DEF Coroutines
  <2>5. ScheduledCalls = {} \/ Stuck # {}
    <3>1. CASE phase = "executing"
      BY <2>1, <3>1 DEF ScheduledCalls, WaveInv, IdleSettled
    <3>2. CASE phase # "executing"
      <4>1. ScheduledCalls = {} \/ \E c \in active : status[c] \notin Terminal \cup {"scheduled"}
        BY <1>6, <3>2 DEF FinalizeWave, ReadyToExecute
      <4> QED
        BY <2>1, <4>1 DEF Stuck, WaveInv, IdleSettled
    <3> QED
      BY <3>1, <3>2
  <2>6. Stuck' = Stuck /\ ScheduledCalls' \subseteq ScheduledCalls
    BY <2>1, <2>2 DEF Stuck, ScheduledCalls, Terminal
  <2>3. ASSUME NEW c \in completed', Refused(c)' PROVE OnlyTails(Queued)
    BY <2>1, <2>3 DEF RefusalInv, RefusalEmpties, AfterRefusal, Refused, OnlyTails
  <2> QED
    BY <2>1, <2>2, <2>3, <2>4, <2>5, <2>6 DEF RefusalInv, Untouched, QueuedUndecided,
       RefusalDecides, RefusalEmpties, AfterRefusal, OnlyTails, Queued
<1>7. CASE ReturnBatch
  <2> DEFINE p == [promise EXCEPT ![current] = "resolved"]
  <2>1. UNCHANGED <<active, step, outcome, tails>> /\ phase = "returning"
    BY <1>7 DEF ReturnBatch
  <2>2. CASE requestQueue # <<>> /\ active = {} /\ StartBatch(Head(requestQueue), p)
    <3> DEFINE j == Head(requestQueue)
    <3>1. j \in Jobs /\ promise[j] = "queued"
      BY <2>2, HeadTailInjective DEF TypeOK, SchedulerTypeOK, ReportInv, LineOfQueued
    <3>2. \A c \in BatchSet(j) : outcome[c] = "none"
      BY <3>1 DEF RefusalInv, Untouched
    <3>3. Untouched'
      BY <2>1, <2>2 DEF StartBatch, RefusalInv, Untouched, TypeOK, SchedulerTypeOK
    <3> HIDE DEF p, j
    <3> QED
      BY <2>1, <2>2, <3>1, <3>2, <3>3, StartBatchRefusal DEF j
  <2>3. CASE Rest(p)
    <3>1. completed' = {} /\ Queued' = {} /\ promise' = p /\ status' = status
      BY <1>7, <2>3, EmptyInjective DEF Rest, ClearBatch, Queued, ReturnBatch, WaveInv,
         RestDrained
    <3>2. Untouched'
      BY <2>1, <3>1 DEF RefusalInv, Untouched, TypeOK, SchedulerTypeOK
    <3> QED
      BY <2>1, <3>1, <3>2 DEF RefusalInv, QueuedUndecided, RefusalDecides, RefusalEmpties,
         AfterRefusal, OnlyTails
  <2> QED
    BY <1>7, <2>2, <2>3 DEF ReturnBatch, ProcessNextInRequestQueue
<1> QED
  BY <1>1, <1>2, <1>3, <1>4, <1>5, <1>6, <1>7 DEF Loop

(* A step of the coroutine of call c that queues nothing.                  *)
LEMMA StepKeepsRefusal ==
  ASSUME PlaceInv, ReportInv, RefusalInv, NEW c \in Calls, step[c] # "idle",
         UNCHANGED <<queue, active, completed, promise, tails>>,
         \A d \in Calls : d # c => /\ status'[d] = status[d]
                                   /\ step'[d] = step[d]
                                   /\ outcome'[d] = outcome[d],
         outcome'[c] = "cancel" => \/ step'[c] = "decided"
                                   \/ step'[c] = "idle" /\ status'[c] = "error"
  PROVE  RefusalInv'
<1>1. /\ c \in active /\ c \notin Queued /\ c \notin completed
      /\ Queued \subseteq Calls /\ active \subseteq Calls /\ completed \subseteq Calls
  BY RangeOfSeq DEF PlaceInv, TypeOK, StoreTypeOK, OnePlace, SuspendedInWave, Queued
<1>2. Untouched'
  <2>1. current \in Jobs /\ promise[current] = "running" /\ c \in BatchSet(current)
    BY <1>1 DEF PlaceInv, TypeOK, SchedulerTypeOK, SuspendedInWave, ReportInv,
       OneBatchAtATime, OwnCalls, Present
  <2>2. \A j \in Jobs : j # current => c \notin BatchSet(j)
    BY <2>1, SchedulerAssumption
  <2>3. \A j \in Jobs : BatchSet(j) \subseteq Calls
    BY SchedulerAssumption, RangeOfSeq DEF BatchSet
  <2> QED
    BY <2>1, <2>2, <2>3 DEF RefusalInv, Untouched
<1>3. QueuedUndecided' /\ AfterRefusal'
  <2>1. /\ c \in Coroutines /\ Coroutines' \subseteq Coroutines
        /\ Stuck \subseteq Stuck' /\ ScheduledCalls' \subseteq ScheduledCalls \cup {c}
    BY <1>1 DEF Coroutines, Stuck, ScheduledCalls
  <2>2. \A d \in completed' : Refused(d)' => d \in completed /\ Refused(d)
    BY <1>1 DEF Refused
  <2>3. AfterRefusal'
    BY <2>1, <2>2 DEF RefusalInv, AfterRefusal, OnlyTails, Queued
  <2> QED
    BY <1>1, <2>3 DEF RefusalInv, QueuedUndecided, Queued
<1>4. RefusalDecides' /\ RefusalEmpties'
  BY <1>1 DEF RefusalInv, RefusalDecides, RefusalEmpties, OnlyTails, Queued, Terminal
<1> QED
  BY <1>2, <1>3, <1>4 DEF RefusalInv

LEMMA CheckRefusal ==
  ASSUME PlaceInv, ReportInv, RefusalInv, NEW c \in Calls, Check(c)
  PROVE  RefusalInv'
<1> USE DEF CoroutineFrame, storeVars, clientVars, checkVars, requestVars
<1>1. step[c] # "idle"
  BY DEF Check, ExternalFailure, HookContinues, HookStops, PolicyAllows, PolicyDenies,
     PolicyAsks, NothingToConfirm, AskUser, EditorCloses, EditorUnavailable, EditApplied,
     Modify, WaitAborted, DecisionApplied
<1>2. c \in active /\ (outcome[c] = "cancel" => step[c] = "decided")
  BY <1>1 DEF PlaceInv, SuspendedInWave, RefusalInv, RefusalDecides
<1>3. CASE DecisionApplied(c) /\ outcome[c] = "cancel"
  <2> DEFINE st == Updated(status, {c}, "cancelled")
  <2>1. CancelAllQueued(st) /\ UNCHANGED <<active, promise, outcome, tails>>
    BY <1>3 DEF DecisionApplied
  <2>2. \A d \in Calls : d # c => st[d] = status[d] /\ step'[d] = step[d]
    BY <1>3 DEF DecisionApplied, Updated, PlaceInv, TypeOK, SchedulerTypeOK
  <2>3. st[c] = "cancelled" /\ step'[c] = "idle"
    BY <1>2, <1>3 DEF DecisionApplied, Updated, PlaceInv, TypeOK, SchedulerTypeOK
  <2>4. \A d \in active : outcome[d] = "cancel" =>
          /\ step'[d] \in {"decided", "idle"}
          /\ step'[d] = "idle" => st[d] \in Terminal \cup {"executing"}
    BY <2>2, <2>3 DEF PlaceInv, TypeOK, StoreTypeOK, RefusalInv, RefusalDecides,
       RefusalEmpties, Terminal
  <2>5. Untouched'
    BY <2>1 DEF RefusalInv, Untouched
  <2>6. \A d \in active : /\ step'[d] # "idle" => step[d] # "idle"
                          /\ st[d] = "scheduled" => status[d] = "scheduled"
                          /\ step[d] = "idle" => step'[d] = "idle" /\ st[d] = status[d]
    BY <1>1, <2>2, <2>3 DEF PlaceInv, TypeOK, StoreTypeOK
  <2> HIDE DEF st
  <2> QED
    BY <1>2, <2>1, <2>2, <2>4, <2>5, <2>6, CancelAllQueuedRefusal
<1>4. CASE ~(DecisionApplied(c) /\ outcome[c] = "cancel")
  <2>1. UNCHANGED <<queue, active, completed, promise, tails>>
    BY <1>4 DEF Check, ExternalFailure, HookContinues, HookStops, PolicyAllows,
       PolicyDenies, PolicyAsks, NothingToConfirm, AskUser, EditorCloses,
       EditorUnavailable, EditApplied, WaitAborted, DecisionApplied, Modify, Throw
  <2>2. status' = status \/ \E s : status' = Updated(status, {c}, s)
    BY <1>4 DEF Check, ExternalFailure, HookContinues, HookStops, PolicyAllows,
       PolicyDenies, PolicyAsks, NothingToConfirm, AskUser, EditorCloses,
       EditorUnavailable, EditApplied, WaitAborted, DecisionApplied, Modify, Throw
  <2>3. \E t : step' = [step EXCEPT ![c] = t]
    BY DEF Check, ExternalFailure, HookContinues, HookStops, PolicyAllows,
       PolicyDenies, PolicyAsks, NothingToConfirm, AskUser, EditorCloses,
       EditorUnavailable, EditApplied, WaitAborted, DecisionApplied, Modify, Throw
  <2>4. \/ outcome' = outcome /\ outcome[c] # "cancel"
        \/ \E o : outcome' = [outcome EXCEPT ![c] = o] /\ o # "cancel"
    BY <1>2, <1>4 DEF Check, ExternalFailure, HookContinues, HookStops, PolicyAllows,
       PolicyDenies, PolicyAsks, NothingToConfirm, AskUser, EditorCloses,
       EditorUnavailable, EditApplied, WaitAborted, DecisionApplied, Modify
  <2>5. \A d \in Calls : d # c => /\ status'[d] = status[d]
                                  /\ step'[d] = step[d]
                                  /\ outcome'[d] = outcome[d]
    BY <2>2, <2>3, <2>4 DEF Updated, PlaceInv, TypeOK, StoreTypeOK, SchedulerTypeOK
  <2>6. outcome'[c] # "cancel"
    BY <2>4 DEF PlaceInv, TypeOK, SchedulerTypeOK
  <2> QED
    BY <1>1, <2>1, <2>5, <2>6, StepKeepsRefusal
<1> QED
  BY <1>3, <1>4

LEMMA RunRefusal ==
  ASSUME PlaceInv, ReportInv, RefusalInv, NEW c \in Calls, Run(c)
  PROVE  RefusalInv'
<1> USE DEF CoroutineFrame, storeVars, clientVars, checkVars, requestVars
<1>1. step[c] # "idle"
  BY DEF Run, ToolReturns, RunEnds, TailCall, AskExpansion, ExpansionDecided
<1>2. c \in active /\ (outcome[c] = "cancel" => step[c] = "decided")
  BY <1>1 DEF PlaceInv, SuspendedInWave, RefusalInv, RefusalDecides
<1>3. CASE TailCall(c)
  <2>1. /\ active' = active \ {c} /\ queue' = <<c>> \o queue
        /\ UNCHANGED <<completed, promise>>
        /\ tails' = [tails EXCEPT ![c] = tails[c] + 1]
        /\ outcome' = [outcome EXCEPT ![c] = "none"]
        /\ step' = [step EXCEPT ![c] = "idle"]
        /\ \E s \in {"validating", "error"} : status' = [status EXCEPT ![c] = s]
    BY <1>3 DEF TailCall, ReplaceActiveCallWithTailCall
  <2>2. Queued' = Queued \cup {c}
    BY <1>2, <2>1, ConsInjective DEF PlaceInv, TypeOK, StoreTypeOK, OnePlace, Queued
  <2>3. /\ tails'[c] > 0 /\ outcome'[c] = "none"
        /\ \A d \in Calls : d # c => /\ tails'[d] = tails[d] /\ outcome'[d] = outcome[d]
                                     /\ step'[d] = step[d] /\ status'[d] = status[d]
    BY <2>1 DEF PlaceInv, TypeOK, StoreTypeOK, SchedulerTypeOK
  <2>4. /\ c \notin completed
        /\ Queued \subseteq Calls /\ active \subseteq Calls /\ completed \subseteq Calls
    BY <1>2, RangeOfSeq DEF PlaceInv, TypeOK, StoreTypeOK, OnePlace, Queued
  <2>5. Untouched'
    <3>1. \A j \in Jobs : BatchSet(j) \subseteq Calls
      BY SchedulerAssumption, RangeOfSeq DEF BatchSet
    <3> QED
      BY <2>1, <2>3, <3>1 DEF RefusalInv, Untouched
  <2>6. QueuedUndecided' /\ AfterRefusal'
    <3>1. /\ Coroutines' \subseteq Coroutines /\ Stuck \subseteq Stuck'
          /\ ScheduledCalls' \subseteq ScheduledCalls
      BY <1>1, <2>1, <2>3, <2>4 DEF Coroutines, Stuck, ScheduledCalls
    <3>2. \A d \in completed' : Refused(d)' => d \in completed /\ Refused(d)
      BY <2>1, <2>3, <2>4 DEF Refused
    <3>3. /\ Coroutines \subseteq Calls /\ ScheduledCalls \subseteq Calls
          /\ \A d \in Calls : tails[d] > 0 => tails'[d] > 0
      BY <2>3, <2>4 DEF Coroutines, ScheduledCalls
    <3>4. AfterRefusal'
      BY <2>2, <2>3, <2>4, <3>1, <3>2, <3>3 DEF RefusalInv, AfterRefusal, OnlyTails
    <3> QED
      BY <2>2, <2>3, <2>4, <3>4 DEF RefusalInv, QueuedUndecided
  <2>7. RefusalDecides' /\ RefusalEmpties'
    BY <2>1, <2>2, <2>3, <2>4 DEF RefusalInv, RefusalDecides, RefusalEmpties, OnlyTails
  <2> QED
    BY <2>5, <2>6, <2>7 DEF RefusalInv
<1>4. CASE ~TailCall(c)
  <2>1. /\ UNCHANGED <<queue, active, completed, promise, tails, outcome>>
        /\ status' = status \/ \E s : status' = Updated(status, {c}, s)
        /\ \E t : step' = [step EXCEPT ![c] = t]
    BY <1>4 DEF Run, ToolReturns, RunEnds, AskExpansion, ExpansionDecided, Throw
  <2>2. \A d \in Calls : d # c => status'[d] = status[d] /\ step'[d] = step[d]
    BY <2>1 DEF Updated, PlaceInv, TypeOK, StoreTypeOK, SchedulerTypeOK
  <2>3. outcome[c] = "cancel" => step'[c] = "idle" /\ status'[c] = "error"
    BY <1>2, <1>4 DEF Run, ToolReturns, RunEnds, AskExpansion, ExpansionDecided, Updated,
       PlaceInv, TypeOK, SchedulerTypeOK
  <2> QED
    BY <1>1, <2>1, <2>2, <2>3, StepKeepsRefusal
<1> QED
  BY <1>3, <1>4

LEMMA OutsideRefusal ==
  ASSUME PlaceInv, ReportInv, RefusalInv, NEW c \in Calls, User(c) \/ Output(c),
         step[c] # "idle"
  PROVE  RefusalInv'
<1> USE DEF CoroutineFrame, storeVars, clientVars, checkVars, requestVars
<1>1. step[c] # "idle"
  OBVIOUS
<1>2. outcome[c] = "cancel" => step[c] = "decided"
  BY <1>1 DEF PlaceInv, SuspendedInWave, RefusalInv, RefusalDecides
<1>3. /\ UNCHANGED <<queue, active, completed, promise, tails>>
      /\ status' = status \/ \E s : status' = Updated(status, {c}, s)
      /\ step' = step \/ \E t : step' = [step EXCEPT ![c] = t]
      /\ outcome' = outcome \/ \E o : outcome' = [outcome EXCEPT ![c] = o]
  BY DEF User, UserProceeds, UserCancels, UserOpensEditor, UserAcceptsEdited,
     Output, Detach, LiveOutput, DetachedExits
<1>4. \A d \in Calls : d # c => /\ status'[d] = status[d]
                                /\ step'[d] = step[d]
                                /\ outcome'[d] = outcome[d]
  BY <1>3 DEF Updated, PlaceInv, TypeOK, StoreTypeOK, SchedulerTypeOK
<1>5. outcome'[c] = "cancel" => step'[c] = "decided"
  BY <1>2 DEF User, UserProceeds, UserCancels, UserOpensEditor, UserAcceptsEdited,
     Output, Detach, LiveOutput, DetachedExits, PlaceInv, TypeOK, SchedulerTypeOK
<1> QED
  BY <1>1, <1>3, <1>4, <1>5, StepKeepsRefusal

(* Output of a call that runs in the background, whose coroutine has ended. *)
LEMMA LateOutputRefusal ==
  ASSUME PlaceInv, RefusalInv, NEW c \in Calls, User(c) \/ Output(c), step[c] = "idle"
  PROVE  RefusalInv'
<1> USE DEF CoroutineFrame, storeVars, clientVars, checkVars, requestVars
<1>1. UNCHANGED <<queue, active, completed, promise, tails, step, outcome>>
  BY DEF User, UserProceeds, UserCancels, UserOpensEditor, UserAcceptsEdited,
     Output, Detach, LiveOutput, DetachedExits
<1>2. \/ status' = status
      \/ status' = Updated(status, {c}, "executing") /\ status[c] # "error"
  BY DEF User, UserProceeds, UserCancels, UserOpensEditor, UserAcceptsEdited,
     Output, Detach, LiveOutput, DetachedExits
<1>3. Untouched' /\ QueuedUndecided' /\ RefusalDecides'
  BY <1>1 DEF RefusalInv, Untouched, QueuedUndecided, RefusalDecides, Queued
<1>4. CASE status' = status
  BY <1>1, <1>3, <1>4 DEF RefusalInv, RefusalEmpties, AfterRefusal, Refused, OnlyTails, Queued,
     Coroutines, ScheduledCalls, Stuck
<1>5. CASE status' = Updated(status, {c}, "executing") /\ status[c] # "error"
  <2>1. \A d \in Calls : status'[d] = IF d = c /\ c \in active THEN "executing" ELSE status[d]
    BY <1>5 DEF Updated
  <2>2. active \subseteq Calls /\ completed \subseteq Calls /\ active \cap completed = {}
    BY DEF PlaceInv, TypeOK, StoreTypeOK, OnePlace
  <2>3. RefusalEmpties'
    BY <1>1, <1>5, <2>1, <2>2 DEF RefusalInv, RefusalEmpties, OnlyTails, Queued
  <2>4. Coroutines' = Coroutines /\ \A d \in completed : Refused(d)' <=> Refused(d)
    BY <1>1, <2>1, <2>2 DEF Coroutines, Refused
  <2>5. Stuck \subseteq Stuck' /\ ScheduledCalls' \subseteq ScheduledCalls
    BY <1>1, <2>1, <2>2 DEF Stuck, ScheduledCalls
  <2>6. AfterRefusal'
    BY <1>1, <2>4, <2>5 DEF RefusalInv, AfterRefusal, OnlyTails, Queued
  <2> QED
    BY <1>3, <2>3, <2>6 DEF RefusalInv
<1> QED
  BY <1>2, <1>4, <1>5

LEMMA RefusalInvariant == Spec => []RefusalInv
<1>1. Init => RefusalInv
  <2>1. ASSUME Init PROVE Queued = {}
    BY <2>1, EmptyInjective DEF Init, StoreInit, Queued
  <2>2. ASSUME Init, NEW j \in Jobs PROVE \A c \in BatchSet(j) : outcome[c] = "none"
    BY <2>2, SchedulerAssumption, RangeOfSeq DEF Init, BatchSet
  <2> QED
    BY <2>1, <2>2 DEF Init, StoreInit, RefusalInv, Untouched, QueuedUndecided,
       RefusalDecides, RefusalEmpties, AfterRefusal
<1>2. PlaceInv /\ WaveInv /\ ReportInv /\ RefusalInv /\ [Next]_vars => RefusalInv'
  <2> SUFFICES ASSUME PlaceInv, WaveInv, ReportInv, RefusalInv, [Next]_vars
               PROVE  RefusalInv'
    OBVIOUS
  <2>1. CASE UNCHANGED vars
    BY <2>1 DEF vars, storeVars, clientVars, checkVars, requestVars, RefusalInv, Untouched,
       QueuedUndecided, RefusalDecides, RefusalEmpties, AfterRefusal, Refused, OnlyTails,
       Queued, Coroutines, ScheduledCalls, Stuck
  <2>2. CASE Next
    BY <2>1, <2>2, ClientRefusal, LoopRefusal, CheckRefusal, RunRefusal,
       OutsideRefusal, LateOutputRefusal DEF Next, AllSettled
  <2> QED
    BY <2>1, <2>2
<1> QED
  BY <1>1, <1>2, PlaceInvariant, ReportInvariant, PTL DEF Spec

(* A refusal ends the batch: once the refused call is finalized, only tail *)
(* calls of siblings are still checked or run, whatever processes in the   *)
(* background write (scheduler.ts, state-manager.ts cancelAllQueued).       *)
THEOREM RefusalHolds == Spec => []RefusalEndsBatch
<1>1. RefusalInv => RefusalEndsBatch
  BY DEF RefusalInv, AfterRefusal, Refused, OnlyTails, RefusalEndsBatch
<1> QED
  BY <1>1, RefusalInvariant, PTL

-----------------------------------------------------------------------------
(* Order.                                                                  *)

(* Call d was requested before call c, which does not jump the queue.      *)
Earlier(d, c) ==
  /\ c \notin Topics
  /\ \E j \in Jobs : \E m, n \in DOMAIN CallsOf[j] :
       m < n /\ CallsOf[j][m] = d /\ CallsOf[j][n] = c

(* The call has been started, and is not completed.                        *)
Begun(c) == c \in active \/ (c \in Queued /\ tails[c] > 0)

InLine(d, c) == \A i, k \in DOMAIN queue : (queue[i] = d /\ queue[k] = c) => i < k

NotTailed ==
  \A j \in Jobs : promise[j] \in {"unscheduled", "queued"} =>
    \A c \in BatchSet(j) : tails[c] = 0

(* Only a tail call may wait otherwise than its request says.              *)
OwnWaits == \A c \in Calls : tails[c] = 0 => (c \in waits <=> c \in Waits)

(* Tail calls are queued before the others, which are queued as requested. *)
LineKept ==
  \A c, d \in Queued : tails[c] = 0 /\ (tails[d] > 0 \/ Earlier(d, c)) => InLine(d, c)

(* What was requested before a call that has been started has been started *)
(* too, and has been completed as far as one of the two waits.             *)
BegunInOrder ==
  current # NoJob => \A c, d \in Calls : Earlier(d, c) /\ Begun(c) =>
    /\ ~(d \in Queued /\ tails[d] = 0)
    /\ c \in Waits => d \in completed
    /\ d \in Waits => d \in completed \/ tails[d] > 0

OrderInv == NotTailed /\ OwnWaits /\ LineKept /\ BegunInOrder

LEMMA EarlierInBatch ==
  ASSUME NEW d, NEW c, Earlier(d, c), NEW j \in Jobs, c \in BatchSet(j) \/ d \in BatchSet(j)
  PROVE  /\ d # c /\ c \in BatchSet(j) /\ d \in BatchSet(j)
         /\ \E m, n \in DOMAIN CallsOf[j] : m < n /\ CallsOf[j][m] = d /\ CallsOf[j][n] = c
<1> PICK k \in Jobs : \E m, n \in DOMAIN CallsOf[k] :
                       m < n /\ CallsOf[k][m] = d /\ CallsOf[k][n] = c
  BY DEF Earlier
<1>1. PICK m \in DOMAIN CallsOf[k], n \in DOMAIN CallsOf[k] :
        m < n /\ CallsOf[k][m] = d /\ CallsOf[k][n] = c
  OBVIOUS
<1>2. d \in BatchSet(k) /\ c \in BatchSet(k)
  BY <1>1 DEF BatchSet, Range
<1>3. k = j
  BY <1>2, SchedulerAssumption
<1>4. IsInjective(CallsOf[k]) /\ DOMAIN CallsOf[k] \subseteq Nat
  BY SchedulerAssumption
<1>5. d # c
  BY <1>1, <1>4 DEF IsInjective
<1> QED
  BY <1>1, <1>2, <1>3, <1>5

(* A step that moves no call.                                              *)
LEMMA SamePlaces ==
  ASSUME OrderInv, UNCHANGED <<queue, active, completed, tails, waits, current>>,
         \A j \in Jobs : promise'[j] \in {"unscheduled", "queued"} =>
                           promise[j] \in {"unscheduled", "queued"}
  PROVE  OrderInv'
BY DEF OrderInv, NotTailed, OwnWaits, LineKept, BegunInOrder, Begun, InLine, Queued

(* The queue loses its first n calls.                                      *)
LEMMA SuffixInLine ==
  ASSUME queue \in Seq(Calls), NEW n \in 0..Len(queue),
         queue' = SubSeq(queue, n + 1, Len(queue)),
         NEW c, NEW d, InLine(d, c)
  PROVE  InLine(d, c)'
<1>1. ASSUME NEW i \in DOMAIN queue', NEW k \in DOMAIN queue',
             queue'[i] = d, queue'[k] = c
      PROVE  i < k
  <2>1. /\ i \in 1..(Len(queue) - n) /\ k \in 1..(Len(queue) - n)
        /\ queue'[i] = queue[i + n] /\ queue'[k] = queue[k + n]
    BY <1>1
  <2>2. i + n \in DOMAIN queue /\ k + n \in DOMAIN queue
    BY <2>1
  <2>3. i + n < k + n
    BY <1>1, <2>1, <2>2 DEF InLine
  <2> QED
    BY <2>1, <2>3
<1> QED
  BY <1>1 DEF InLine

LEMMA StartBatchOrder ==
  ASSUME PlaceInv, OrderInv, NEW j \in Jobs, NEW p, StartBatch(j, p), NotTailed',
         phase \in {"idle", "returning"}, active = {}, UNCHANGED <<active, step, tails, waits>>,
         \A c \in BatchSet(j) : tails[c] = 0
  PROVE  OrderInv'
<1>1. Queued' = BatchSet(j) /\ queue = <<>>
  BY StartBatchPlaces DEF PlaceInv, DrainedAtRest
<1>2. PICK s \in BatchOrders(j) : queue' = queue \o s
  BY DEF StartBatch
<1>3. s \in Seq(Calls)
  BY BatchOrderType
<1>4. queue' = s
  BY <1>1, <1>2, <1>3
<1>5. OwnWaits'
  BY DEF OrderInv, OwnWaits
<1>6. ASSUME NEW c \in Queued', NEW d \in Queued', Earlier(d, c)
      PROVE  InLine(d, c)'
  <2>1. PICK m, n \in DOMAIN CallsOf[j] : m < n /\ CallsOf[j][m] = d /\ CallsOf[j][n] = c
    BY <1>1, <1>6, EarlierInBatch
  <2>2. DOMAIN s = DOMAIN CallsOf[j] /\ DOMAIN s \subseteq Nat /\ c \notin Topics
    BY <1>3, <1>6 DEF BatchOrders, Earlier
  <2>3. ASSUME NEW i \in DOMAIN s, NEW k \in DOMAIN s, s[i] = d, s[k] = c PROVE i < k
    <3>1. CASE d \in Topics
      BY <2>2, <2>3, <3>1 DEF BatchOrders
    <3>2. CASE d \notin Topics
      BY <2>1, <2>2, <2>3, <3>2 DEF BatchOrders
    <3> QED
      BY <3>1, <3>2
  <2> QED
    BY <1>4, <2>3 DEF InLine
<1>7. LineKept'
  BY <1>1, <1>6 DEF LineKept
<1>8. BegunInOrder'
  BY <1>1 DEF BegunInOrder, Begun
<1> QED
  BY <1>5, <1>7, <1>8 DEF OrderInv

LEMMA CancelAllQueuedOrder ==
  ASSUME PlaceInv, OrderInv, NEW st, CancelAllQueued(st),
         UNCHANGED <<active, tails, waits, current>>,
         \A j \in Jobs : promise'[j] \in {"unscheduled", "queued"} =>
                           promise[j] \in {"unscheduled", "queued"}
  PROVE  OrderInv'
<1>1. Queued' = {} /\ completed' = completed \cup Queued
  BY CancelAllQueuedWave DEF PlaceInv
<1> QED
  BY <1>1 DEF OrderInv, NotTailed, OwnWaits, LineKept, BegunInOrder, Begun

LEMMA ClientOrder ==
  ASSUME PlaceInv, OrderInv, Client
  PROVE  OrderInv'
<1> USE DEF PlaceInv, TypeOK, SchedulerTypeOK, storeVars, loopVars, requestVars
<1>1. ASSUME NEW j \in Jobs, ScheduleNow(j) PROVE OrderInv'
  <2>1. NotTailed' /\ \A c \in BatchSet(j) : tails[c] = 0
    BY <1>1 DEF ScheduleNow, StartBatch, OrderInv, NotTailed
  <2> QED
    BY <1>1, <2>1, StartBatchOrder DEF ScheduleNow
<1>2. ASSUME NEW j \in Jobs, ScheduleLater(j) PROVE OrderInv'
  BY <1>2, SamePlaces DEF ScheduleLater
<1>3. ASSUME NEW s \in Signals, Abort(s) PROVE OrderInv'
  BY <1>3, SamePlaces DEF Abort
<1>4. ASSUME CancelAll PROVE OrderInv'
  BY <1>4, CancelAllQueuedOrder DEF CancelAll
<1> QED
  BY <1>1, <1>2, <1>3, <1>4 DEF Client

(* A wave takes with it all that was requested before one of its calls,    *)
(* and a call that waits only when it is alone.                            *)
LEMMA StartWaveOrder ==
  ASSUME PlaceInv, ReportInv, Together, OrderInv, StartWave
  PROVE  OrderInv'
<1> USE DEF OrderInv
<1>1. PICK n \in 1..Len(queue) : IsWave(n) /\ Dequeue(n)
  BY DEF StartWave, IsWave
<1> DEFINE front == {queue[i] : i \in 1..n}
<1>2. /\ active = {} /\ active' = front /\ queue' = SubSeq(queue, n + 1, Len(queue))
      /\ UNCHANGED <<completed, promise, tails, waits, current>>
  BY <1>1 DEF StartWave, Dequeue, clientVars, requestVars
<1>3. /\ queue \in Seq(Calls) /\ IsInjective(queue)
      /\ Queued \subseteq Calls /\ Queued \cap completed = {}
  BY RangeOfSeq DEF PlaceInv, OnePlace, TypeOK, StoreTypeOK, Queued
<1>4. Queued' \cup front = Queued /\ Queued' \cap front = {}
  BY <1>2, <1>3, SplitInjective, Zenon DEF Queued
<1>5. current \in Jobs /\ Queued \cup completed = BatchSet(current)
  BY <1>2, <1>3 DEF PlaceInv, TypeOK, SchedulerTypeOK, Together, Accounted, StartWave,
     ReportInv, OneBatchAtATime
<1>6. LineKept'
  <2>1. ASSUME NEW c, NEW d, InLine(d, c) PROVE InLine(d, c)'
    BY <1>2, <1>3, <2>1, SuffixInLine
  <2> QED
    BY <1>2, <1>4, <2>1 DEF LineKept
<1>7. ASSUME NEW c \in front, NEW d \in Queued, InLine(d, c)
      PROVE  d \in front /\ d # queue[n]
  <2>1. PICK k \in 1..n : queue[k] = c
    BY <1>7
  <2>2. PICK i \in DOMAIN queue : queue[i] = d
    BY <1>7 DEF Queued, Range
  <2>3. i < k /\ i \in 1..n /\ k \in DOMAIN queue
    BY <1>3, <1>7, <2>1, <2>2 DEF InLine
  <2> QED
    BY <1>3, <2>1, <2>2, <2>3 DEF IsInjective
<1>8. ASSUME NEW c \in front, NEW d \in front, c # d PROVE c \notin waits
  <2>1. n > 1
    BY <1>8
  <2> QED
    BY <1>1, <1>8, <2>1 DEF IsWave
<1>9. ASSUME NEW c \in Calls, NEW d \in Calls, Earlier(d, c), Begun(c)'
      PROVE  /\ ~(d \in Queued' /\ tails[d] = 0)
             /\ c \in Waits => d \in completed
             /\ d \in Waits => d \in completed \/ tails[d] > 0
  <2>1. c \in Queued /\ d # c
    <3>1. c \in Queued
      BY <1>2, <1>4, <1>9 DEF Begun
    <3> QED
      BY <1>5, <1>9, <3>1, EarlierInBatch
  <2>2. CASE tails[c] > 0
    BY <1>4, <1>5, <1>9, <2>1, <2>2, SchedulerAssumption DEF BegunInOrder, Begun
  <2>3. CASE ~(tails[c] > 0)
    <3>1. c \in front /\ tails[c] = 0 /\ tails[d] \in Nat
      BY <1>2, <1>9, <2>3 DEF Begun, PlaceInv, TypeOK, SchedulerTypeOK
    <3>2. d \in Queued \/ d \in completed
      BY <1>5, <1>9, <2>1, EarlierInBatch
    <3>3. CASE d \in completed
      BY <1>3, <1>4, <2>3, <3>1, <3>3 DEF LineKept
    <3>4. CASE d \in Queued
      <4>1. d \in front
        BY <1>7, <1>9, <2>1, <3>1, <3>4 DEF LineKept
      <4>2. c \notin waits /\ d \notin waits
        BY <1>8, <2>1, <3>1, <4>1
      <4> QED
        BY <1>4, <1>9, <3>1, <4>1, <4>2 DEF OwnWaits
    <3> QED
      BY <3>2, <3>3, <3>4
  <2> QED
    BY <2>2, <2>3
<1> QED
  BY <1>2, <1>6, <1>9 DEF NotTailed, OwnWaits, BegunInOrder

LEMMA LoopOrder ==
  ASSUME PlaceInv, WaveInv, ReportInv, Together, OrderInv, Loop
  PROVE  OrderInv'
<1> USE DEF storeVars, clientVars, loopVars, requestVars
<1>1. CASE FinishLoop \/ RevisitActive \/ BeginExecution
  BY <1>1, SamePlaces DEF FinishLoop, RevisitActive, BeginExecution
<1>2. CASE StopLoop
  BY <1>2, CancelAllQueuedOrder DEF StopLoop
<1>3. CASE AnswerErrored
  <2>1. queue \in Seq(Calls) /\ queue # <<>> /\ queue' = Tail(queue) /\ active = {}
    BY <1>3 DEF AnswerErrored, PlaceInv, TypeOK, StoreTypeOK
  <2>2. /\ Queued' \subseteq Queued /\ completed \subseteq completed'
        /\ UNCHANGED <<active, promise, tails, waits, current>>
    BY <1>3, HeadTailInjective DEF AnswerErrored, PlaceInv, OnePlace, Queued, TypeOK,
       StoreTypeOK
  <2>3. ASSUME NEW c, NEW d, InLine(d, c) PROVE InLine(d, c)'
    <3>1. queue' = SubSeq(queue, 1 + 1, Len(queue)) /\ 1 \in 0..Len(queue)
      BY <2>1
    <3> QED
      BY <2>1, <2>3, <3>1, SuffixInLine
  <2> QED
    BY <2>2, <2>3 DEF OrderInv, NotTailed, OwnWaits, LineKept, BegunInOrder, Begun
<1>4. CASE StartWave
  BY <1>4, StartWaveOrder
<1>5. CASE FinalizeWave
  <2>1. /\ UNCHANGED <<queue, promise, tails, waits, current>>
        /\ active' \subseteq active /\ completed \subseteq completed'
    BY <1>5 DEF FinalizeWave, FinalizeCalls
  <2> QED
    BY <2>1 DEF OrderInv, NotTailed, OwnWaits, LineKept, BegunInOrder, Begun, InLine, Queued
<1>6. CASE ReturnBatch
  <2> DEFINE p == [promise EXCEPT ![current] = "resolved"]
  <2>1. UNCHANGED <<active, step, tails, waits>> /\ phase = "returning"
    BY <1>6 DEF ReturnBatch
  <2>2. CASE requestQueue # <<>> /\ active = {} /\ StartBatch(Head(requestQueue), p)
    <3> DEFINE j == Head(requestQueue)
    <3>1. j \in Jobs /\ promise[j] = "queued"
      BY <2>2, HeadTailInjective DEF PlaceInv, TypeOK, SchedulerTypeOK, ReportInv,
         LineOfQueued
    <3>2. \A c \in BatchSet(j) : tails[c] = 0
      BY <3>1 DEF OrderInv, NotTailed
    <3>3. NotTailed'
      BY <2>1, <2>2 DEF StartBatch, OrderInv, NotTailed, PlaceInv, TypeOK, SchedulerTypeOK
    <3> HIDE DEF p, j
    <3> QED
      BY <2>1, <2>2, <3>1, <3>2, <3>3, StartBatchOrder DEF j
  <2>3. CASE Rest(p)
    <3>1. Queued' = {} /\ promise' = p /\ current' = NoJob
      BY <1>6, <2>3, EmptyInjective DEF Rest, Queued, ReturnBatch, WaveInv, RestDrained
    <3>2. NotTailed'
      BY <2>1, <3>1 DEF OrderInv, NotTailed, PlaceInv, TypeOK, SchedulerTypeOK
    <3> QED
      BY <2>1, <3>1, <3>2 DEF OrderInv, OwnWaits, LineKept, BegunInOrder, Begun
  <2> QED
    BY <1>6, <2>2, <2>3 DEF ReturnBatch, ProcessNextInRequestQueue
<1> QED
  BY <1>1, <1>2, <1>3, <1>4, <1>5, <1>6 DEF Loop

(* A tail call goes before everything else that is queued.                 *)
LEMMA TailCallOrder ==
  ASSUME PlaceInv, ReportInv, OrderInv, NEW c \in Calls, TailCall(c)
  PROVE  OrderInv'
<1> USE DEF OrderInv
<1>1. /\ active' = active \ {c} /\ queue' = <<c>> \o queue /\ step[c] # "idle"
      /\ UNCHANGED <<completed, promise, current>>
      /\ tails' = [tails EXCEPT ![c] = tails[c] + 1]
      /\ \A d \in Calls : d # c => (d \in waits' <=> d \in waits)
  BY DEF TailCall, ReplaceActiveCallWithTailCall, CoroutineFrame, clientVars, loopVars
<1>2. /\ c \in active /\ c \notin Queued /\ queue \in Seq(Calls)
      /\ Queued \subseteq Calls /\ active \subseteq Calls
  BY <1>1, RangeOfSeq DEF PlaceInv, SuspendedInWave, OnePlace, TypeOK, StoreTypeOK, Queued
<1>3. Queued' = Queued \cup {c}
  BY <1>1, <1>2, ConsInjective DEF PlaceInv, OnePlace, Queued
<1>4. tails'[c] > 0 /\ \A d \in Calls : d # c => tails'[d] = tails[d]
  BY <1>1 DEF PlaceInv, TypeOK, SchedulerTypeOK
<1>5. NotTailed' /\ OwnWaits'
  <2>1. current \in Jobs /\ promise[current] = "running" /\ c \in BatchSet(current)
    BY <1>1, <1>2 DEF PlaceInv, TypeOK, SchedulerTypeOK, SuspendedInWave, ReportInv,
       OneBatchAtATime, OwnCalls, Present
  <2>2. \A j \in Jobs : BatchSet(j) \subseteq Calls /\ (j # current => c \notin BatchSet(j))
    BY <2>1, SchedulerAssumption, RangeOfSeq DEF BatchSet
  <2> QED
    BY <1>1, <1>4, <2>1, <2>2 DEF NotTailed, OwnWaits
<1>6. LineKept'
  <2> SUFFICES ASSUME NEW e \in Queued', NEW d \in Queued', tails'[e] = 0,
                      tails'[d] > 0 \/ Earlier(d, e),
                      NEW i \in DOMAIN queue', NEW k \in DOMAIN queue',
                      queue'[i] = d, queue'[k] = e
               PROVE  i < k
    BY DEF LineKept, InLine
  <2>1. e \in Queued /\ e # c /\ tails[e] = 0
    BY <1>2, <1>3, <1>4
  <2>2. /\ i \in 1..(Len(queue) + 1) /\ k \in 1..(Len(queue) + 1)
        /\ queue'[1] = c
        /\ \A m \in 2..(Len(queue) + 1) : queue'[m] = queue[m - 1] /\ m - 1 \in DOMAIN queue
    BY <1>1, <1>2
  <2>3. k # 1
    BY <2>1, <2>2
  <2>4. CASE d = c
    <3>1. i = 1
      BY <1>2, <2>2, <2>4 DEF Queued, Range
    <3> QED
      BY <2>2, <2>3, <3>1
  <2>5. CASE d # c
    <3>1. InLine(d, e)
      BY <1>2, <1>3, <1>4, <2>1, <2>5 DEF LineKept
    <3>2. i # 1
      BY <2>2, <2>5
    <3>3. i - 1 < k - 1
      BY <2>2, <2>3, <3>1, <3>2 DEF InLine
    <3> QED
      BY <2>2, <3>3
  <2> QED
    BY <2>4, <2>5
<1>7. BegunInOrder'
  BY <1>1, <1>2, <1>3, <1>4 DEF BegunInOrder, Begun
<1> QED
  BY <1>5, <1>6, <1>7

LEMMA CoroutineOrder ==
  ASSUME PlaceInv, ReportInv, OrderInv, NEW c \in Calls, Check(c) \/ Run(c) \/ User(c) \/ Output(c)
  PROVE  OrderInv'
<1> USE DEF CoroutineFrame, storeVars, clientVars, loopVars, requestVars
<1>1. CASE DecisionApplied(c) /\ outcome[c] = "cancel"
  BY <1>1, CancelAllQueuedOrder DEF DecisionApplied
<1>2. CASE TailCall(c)
  BY <1>2, TailCallOrder
<1>3. CASE ~TailCall(c) /\ ~(DecisionApplied(c) /\ outcome[c] = "cancel")
  <2>1. UNCHANGED <<queue, active, completed, tails, waits, promise, current>>
    <3>1. CASE Check(c)
      BY <1>3, <3>1 DEF Check, ExternalFailure, HookContinues, HookStops, PolicyAllows,
         PolicyDenies, PolicyAsks, NothingToConfirm, AskUser, EditorCloses,
         EditorUnavailable, EditApplied, WaitAborted, DecisionApplied, Modify, Throw
    <3>2. CASE Run(c)
      BY <1>3, <3>2 DEF Run, ToolReturns, RunEnds, AskExpansion, ExpansionDecided, Throw
    <3>3. CASE User(c) \/ Output(c)
      BY <3>3 DEF User, UserProceeds, UserCancels, UserOpensEditor, UserAcceptsEdited,
         Output, Detach, LiveOutput, DetachedExits
    <3> QED
      BY <3>1, <3>2, <3>3
  <2> QED
    BY <2>1, SamePlaces
<1> QED
  BY <1>1, <1>2, <1>3

LEMMA OrderInvariant == Spec => []OrderInv
<1>1. Init => OrderInv
  <2> SUFFICES ASSUME Init PROVE OrderInv
    OBVIOUS
  <2>1. Queued = {} /\ active = {}
    BY EmptyInjective DEF Init, StoreInit, Queued
  <2>2. \A j \in Jobs : BatchSet(j) \subseteq Calls
    BY SchedulerAssumption, RangeOfSeq DEF BatchSet
  <2> QED
    BY <2>1, <2>2 DEF Init, OrderInv, NotTailed, OwnWaits, LineKept, BegunInOrder, Begun
<1>2. PlaceInv /\ WaveInv /\ ReportInv /\ Together /\ OrderInv /\ [Next]_vars => OrderInv'
  <2> SUFFICES ASSUME PlaceInv, WaveInv, ReportInv, Together, OrderInv, [Next]_vars
               PROVE  OrderInv'
    OBVIOUS
  <2>1. CASE UNCHANGED vars
    BY <2>1, SamePlaces DEF vars, storeVars, clientVars, loopVars, requestVars
  <2>2. CASE Next
    BY <2>1, <2>2, ClientOrder, LoopOrder, CoroutineOrder DEF Next, AllSettled
  <2> QED
    BY <2>1, <2>2
<1> QED
  BY <1>1, <1>2, PlaceInvariant, ReportInvariant, TogetherInvariant, PTL DEF Spec

(* A call that sets wait_for_previous starts after all calls requested     *)
(* before it are completed, and those requested after it start after it    *)
(* has ended, or has made a tail call; calls in the background included.   *)
THEOREM WaitingHolds == Spec => []WaitsForPrevious
<1>1. PlaceInv /\ ReportInv /\ OrderInv => WaitsForPrevious
  <2> SUFFICES ASSUME PlaceInv, ReportInv, OrderInv, NEW j \in Jobs,
                      NEW m \in DOMAIN CallsOf[j], NEW n \in DOMAIN CallsOf[j], m < n,
                      CallsOf[j][n] \in InProgress, CallsOf[j][n] \notin Topics
               PROVE  /\ CallsOf[j][n] \in Waits => CallsOf[j][m] \in completed
                      /\ CallsOf[j][m] \in Waits => \/ CallsOf[j][m] \in completed
                                                    \/ tails[CallsOf[j][m]] > 0
    BY DEF WaitsForPrevious
  <2>1. Earlier(CallsOf[j][m], CallsOf[j][n])
    BY DEF Earlier
  <2>2. CallsOf[j][m] \in Calls /\ CallsOf[j][n] \in Calls
    BY SchedulerAssumption
  <2>3. Begun(CallsOf[j][n]) /\ current # NoJob
    BY <2>2 DEF InProgress, Begun, PlaceInv, SuspendedInWave, ReportInv, OneBatchAtATime
  <2> QED
    BY <2>1, <2>2, <2>3 DEF OrderInv, BegunInOrder
<1> QED
  BY <1>1, PlaceInvariant, ReportInvariant, OrderInvariant, PTL

=============================================================================
