----------------------------- MODULE Execution -----------------------------
(***************************************************************************)
(* What the lifecycle service promises whoever starts an execution: its    *)
(* promise is settled once, early if the execution moves to the            *)
(* background; an execution that ends in the background is told to the     *)
(* conversation at most once, and never when it was aborted.               *)
(***************************************************************************)
EXTENDS Naturals

CONSTANT Executions

VARIABLES
  promise,     \* what the starter of an execution has got
  fate,        \* how an execution ended
  injections   \* how often its end was told to the conversation

vars == <<promise, fate, injections>>

Init ==
  /\ promise = [e \in Executions |-> "none"]
  /\ fate = [e \in Executions |-> "none"]
  /\ injections = [e \in Executions |-> 0]

Start(e) ==
  /\ promise[e] = "none"
  /\ promise' = [promise EXCEPT ![e] = "pending"]
  /\ UNCHANGED <<fate, injections>>

(* The starter gets its answer now, and the execution goes on.             *)
MoveToBackground(e) ==
  /\ promise[e] = "pending"
  /\ promise' = [promise EXCEPT ![e] = "backgrounded"]
  /\ UNCHANGED <<fate, injections>>

(* The end in the foreground is the answer.                                *)
EndInForeground(e) ==
  /\ promise[e] = "pending"
  /\ \E end \in {"completed", "aborted"} :
        /\ promise' = [promise EXCEPT ![e] = end]
        /\ fate' = [fate EXCEPT ![e] = end]
  /\ UNCHANGED injections

EndInBackground(e) ==
  /\ promise[e] = "backgrounded" /\ fate[e] = "none"
  /\ \/ /\ fate' = [fate EXCEPT ![e] = "aborted"]
        /\ UNCHANGED injections
     \/ /\ fate' = [fate EXCEPT ![e] = "completed"]
        /\ injections' \in {injections, [injections EXCEPT ![e] = 1]}
  /\ UNCHANGED promise

Next == \E e \in Executions :
  Start(e) \/ MoveToBackground(e) \/ EndInForeground(e) \/ EndInBackground(e)

Spec == Init /\ [][Next]_vars

=============================================================================
