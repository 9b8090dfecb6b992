---------------------------- MODULE BatchService ----------------------------
(***************************************************************************)
(* What the scheduler promises its callers, without the tool calls: jobs   *)
(* are served one at a time, those that must wait are served in the order  *)
(* in which they came, and a job is turned away only while it waits.       *)
(***************************************************************************)
EXTENDS Subsequences

CONSTANT Jobs

VARIABLES
  state,    \* state[j]: the promise of job j
  line      \* the jobs that wait, oldest first

vars == <<state, line>>

Running == {j \in Jobs : state[j] = "running"}

Init ==
  /\ state = [j \in Jobs |-> "unscheduled"]
  /\ line = <<>>

(* A job that comes when nobody is served starts at once.                  *)
Start(j) ==
  /\ state[j] = "unscheduled"
  /\ Running = {} /\ line = <<>>
  /\ state' = [state EXCEPT ![j] = "running"]
  /\ UNCHANGED line

(* A job that comes later waits, or is turned away.                        *)
Wait(j) ==
  /\ state[j] = "unscheduled"
  /\ Running # {}
  /\ \/ /\ state' = [state EXCEPT ![j] = "queued"]
        /\ line' = Append(line, j)
     \/ /\ state' = [state EXCEPT ![j] = "rejected"]
        /\ UNCHANGED line

(* Some of the waiting jobs leave, and the others keep their order.        *)
Leave(gone) ==
  /\ state' = [j \in Jobs |-> IF j \in gone THEN "rejected" ELSE state[j]]
  /\ line' \in Surviving(line, Jobs \ gone)

(* The job that is served is answered, and the oldest one follows.         *)
Finish(j) ==
  /\ state[j] = "running"
  /\ \/ /\ line = <<>>
        /\ state' = [state EXCEPT ![j] = "resolved"]
        /\ UNCHANGED line
     \/ /\ line # <<>>
        /\ state' = [state EXCEPT ![j] = "resolved", ![Head(line)] = "running"]
        /\ line' = Tail(line)

Next ==
  \/ \E j \in Jobs : Start(j) \/ Wait(j) \/ Finish(j)
  \/ \E gone \in SUBSET Range(line) : Leave(gone)

(* Every job that is served is answered in the end.                        *)
Spec == Init /\ [][Next]_vars /\ \A j \in Jobs : WF_vars(Finish(j))

=============================================================================
