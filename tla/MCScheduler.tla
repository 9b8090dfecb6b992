----------------------------- MODULE MCScheduler -----------------------------
(***************************************************************************)
(* Small instances of the scheduler for TLC: batches, signals and tools of *)
(* the runs.                                                               *)
(***************************************************************************)
EXTENDS SchedulerProperties, TLC

CONSTANTS ca, cb, cc, cd, j1, j2, j3, s1, s2, t1, t2

OneBatch    == j1 :> <<ca, cb, cc>>
TwoBatches  == j1 :> <<ca, cb>> @@ j2 :> <<cc>>
EitherBatch == j1 :> <<ca, cb, cc>> @@ j2 :> <<cd>>
ThreeJobs   == j1 :> <<ca>> @@ j2 :> <<cb>> @@ j3 :> <<cc, cd>>

AllOne      == [j \in Jobs |-> s1]
TwoSignals  == j1 :> s1 @@ j2 :> s2

OneTool     == [c \in Calls |-> t1]
TwoTools    == [c \in Calls |-> IF c = cc THEN t2 ELSE t1]

(* One batch of those a client may ask for: two instances in one run.      *)
OneIsAsked == \E j \in Jobs : promise[j] = "unscheduled"
=============================================================================
