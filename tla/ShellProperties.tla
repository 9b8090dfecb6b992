-------------------------- MODULE ShellProperties --------------------------
(***************************************************************************)
(* What is checked of shell commands and of the lifecycle service.         *)
(***************************************************************************)
EXTENDS ShellExecution

(* A callback given to onExit() is called at most once, and exactly once   *)
(* when it was registered during the execution, not withdrawn, and the     *)
(* execution is over.                                                      *)
ExitHeardOnce == \A w \in Watchers :
  /\ heard[w] <= 1
  /\ watch[w] = "early" /\ WatchOf[w] \notin active => heard[w] = 1
  /\ watch[w] = "withdrawn" => heard[w] = 0

(* A command that has ended leaves nothing behind: the record that is      *)
(* listed does not say "running", and once no stream is still ending, no   *)
(* log is open or registered, whatever order the delay, the key, kill()    *)
(* and the exit took.  A command moved to the background after its end is  *)
(* excepted; and one of the user's, whose key was pressed twice before the *)
(* interface noticed, leaves its first log open, which the second one      *)
(* replaced.                                                               *)
NothingOutlives == \A s \in Shells \ late : proc[s] = "gone" =>
  /\ history[s] # "running"
  /\ ~Ending(s) => s \notin logged /\ (s \notin repeated => open[s] = 0)

(* Every execution keeps the promise of Execution: it is answered once,    *)
(* told to the conversation at most once, and not when it was aborted.     *)
Promise == INSTANCE Execution
ImplementsExecution == Promise!Spec

(* A command whose process was sent a kill, by the abort of its call or by *)
(* the user, ends, and a call that waits for it returns.                   *)
KilledEnds == \A s \in Shells :
  s \in doomed ~> proc[s] = "gone" /\ (tool[s] \in {"idle", "returned"})
=============================================================================
