--------------------------- MODULE ShellExecution ---------------------------
(***************************************************************************)
(* Shell commands: ShellExecutionService with its processes, their exit    *)
(* handlers, the history and the log streams of background commands, and   *)
(* what starts a command and waits for its promise: the model's shell      *)
(* tool, which can move it to the background after a delay, or the         *)
(* interface, for a command that the user typed.  Every exit, kill and     *)
(* move to the background goes through the lifecycle service.              *)
(***************************************************************************)
EXTENDS ExecutionLifecycle

Shells == Executions \ Virtual

VARIABLES
  proc,        \* proc[s]: the process
  ptys,        \* activePtys: commands run in a pseudo-terminal
  aborted,     \* commands whose abort signal has fired
  handled,     \* commands whose abort listener is installed and in place
  doomed,      \* commands whose process was sent a kill
  tool,        \* tool[s]: where the shell tool, or the interface, is
  timer,       \* timer[s]: the first of its two timers of the delay
  history,     \* backgroundProcessHistory
  logged,      \* backgroundLogStreams: commands with an entry
  open,        \* open[s]: log streams of s not told to end
  ending,      \* commands whose cleanupLogStream waits for its stream
  late,        \* history: commands moved to the background after their end
  repeated     \* history: commands whose background key was pressed again

shellVars == <<proc, ptys, aborted, handled, doomed, tool, timer, history, logged,
               open, ending, late, repeated>>
vars == <<lifecycleVars, shellVars>>

TypeOK ==
  /\ LifecycleTypeOK
  /\ proc \in [Shells -> {"none", "running", "exited", "gone"}]
  /\ ptys \subseteq Shells
  /\ aborted \subseteq Shells /\ handled \subseteq Shells /\ doomed \subseteq Shells
  /\ tool \in [Shells -> {"idle", "preparing", "delaying", "waiting", "typed",
                         "returned"}]
  /\ timer \in [Shells -> {"off", "armed", "fired"}]
  /\ history \in [Shells -> {"none", "running", "exited"}]
  /\ logged \subseteq Shells /\ open \in [Shells -> Nat]
  /\ ending \subseteq Shells \X {"exit", "kill"}
  /\ late \subseteq Shells /\ repeated \subseteq Shells

Init ==
  /\ LifecycleInit
  /\ proc = [s \in Shells |-> "none"]
  /\ ptys = {} /\ aborted = {} /\ handled = {} /\ doomed = {}
  /\ tool = [s \in Shells |-> "idle"]
  /\ timer = [s \in Shells |-> "off"]
  /\ history = [s \in Shells |-> "none"]
  /\ logged = {} /\ open = [s \in Shells |-> 0]
  /\ ending = {} /\ late = {} /\ repeated = {}

-----------------------------------------------------------------------------
(* The shell tool, and the commands of the user.                           *)

(* An aborted call does not start; otherwise the sandbox, the shell and    *)
(* the terminal are looked up before anything is spawned.                  *)
Call(s) ==
  /\ tool[s] = "idle"
  /\ tool' = [tool EXCEPT ![s] = IF s \in aborted THEN "returned" ELSE "preparing"]
  /\ UNCHANGED <<lifecycleVars, proc, ptys, aborted, handled, doomed, timer,
                 history, logged, open, ending, late, repeated>>

(* The process gets a terminal, or none is to be had.  A signal that fired *)
(* before the listener was added does not call it.  With is_background the *)
(* tool starts its two timers, otherwise it waits for the result, as the   *)
(* interface does for a command of the user.                               *)
Spawn(s) ==
  /\ tool[s] = "preparing"
  /\ Attach(s)
  /\ proc' = [proc EXCEPT ![s] = "running"]
  /\ ptys' \in {ptys, ptys \cup {s}}
  /\ handled' = handled \cup ({s} \ aborted)
  /\ \/ /\ tool' = [tool EXCEPT ![s] = "delaying"]
        /\ timer' = [timer EXCEPT ![s] = "armed"]
     \/ /\ \E t \in {"waiting", "typed"} : tool' = [tool EXCEPT ![s] = t]
        /\ UNCHANGED timer
  /\ UNCHANGED <<aborted, doomed, history, logged, open, ending, late, repeated>>

(* Spawning throws: the result is there at once, and there is no pid.      *)
SpawnFails(s) ==
  /\ tool[s] = "preparing"
  /\ tool' = [tool EXCEPT ![s] = "returned"]
  /\ UNCHANGED <<lifecycleVars, proc, ptys, aborted, handled, doomed, timer,
                 history, logged, open, ending, late, repeated>>

(* The user aborts, or the inactivity timer fires; the tool forwards it    *)
(* until it returns, and the listener kills the process group.             *)
Abort(s) ==
  /\ tool[s] # "returned" /\ s \notin aborted
  /\ aborted' = aborted \cup {s}
  /\ doomed' = doomed \cup ({s} \cap handled)
  /\ UNCHANGED <<lifecycleVars, proc, ptys, handled, tool, timer, history, logged,
                 open, ending, late, repeated>>

(* Mutant: an aborted result is not taken for an answer.                   *)
AnsweredInFull(s) == promise[s] \in {"completed", "backgrounded"}

Answered(s) == promise[s] # "pending"

(* The second timer of the delay: a command that still runs is reported as *)
(* started, otherwise its result is read.  (The first timer has settled    *)
(* the promise by then, so that the tool always reads it.)                 *)
DelayOver(s) ==
  /\ tool[s] = "delaying" /\ timer[s] = "fired"
  /\ tool' = [tool EXCEPT ![s] = IF Answered(s) THEN "waiting" ELSE "returned"]
  /\ UNCHANGED <<lifecycleVars, proc, ptys, aborted, handled, doomed, timer,
                 history, logged, open, ending, late, repeated>>

(* The promise is settled: the tool reports, and forwards no abort to the  *)
(* command any more.                                                       *)
ToolReturns(s) ==
  /\ tool[s] \in {"waiting", "typed"} /\ Answered(s)
  /\ tool' = [tool EXCEPT ![s] = "returned"]
  /\ UNCHANGED <<lifecycleVars, proc, ptys, aborted, handled, doomed, timer,
                 history, logged, open, ending, late, repeated>>

-----------------------------------------------------------------------------
(* ShellExecutionService.                                                  *)

Ending(s) == \E who \in {"exit", "kill"} : <<s, who>> \in ending

(* cleanupLogStream, up to its await, for the exit handler or for kill().  *)
EndLog(s, who) ==
  IF s \in logged
    THEN /\ ending' = ending \cup {<<s, who>>}
         /\ open' = [open EXCEPT ![s] = IF Ending(s) THEN @ ELSE @ - 1]
    ELSE UNCHANGED <<ending, open>>

Exited(s) == IF history[s] = "none" THEN history
             ELSE [history EXCEPT ![s] = "exited"]

HandleExit(s) ==
  /\ proc' = [proc EXCEPT ![s] = "gone"]
  /\ handled' = handled \ {s}
  /\ history' = Exited(s)
  /\ EndLog(s, "exit")
  /\ Settle(s, s \in aborted)
  /\ UNCHANGED logged

(* The exit of a child process is handled at once, that of a terminal when *)
(* its output has been rendered, or at once if the command was aborted.    *)
ProcessExits(s) ==
  /\ proc[s] = "running"
  /\ IF s \in ptys \ aborted
       THEN /\ proc' = [proc EXCEPT ![s] = "exited"]
            /\ handled' = handled \ {s}
            /\ UNCHANGED <<lifecycleVars, history, logged, open, ending>>
       ELSE HandleExit(s)
  /\ UNCHANGED <<ptys, aborted, doomed, tool, timer, late, repeated>>

Finalize(s) ==
  /\ proc[s] = "exited"
  /\ HandleExit(s)
  /\ UNCHANGED <<ptys, aborted, doomed, tool, timer, late, repeated>>

(* background(): a record of the history, a log stream (which may fail to  *)
(* open) that replaces an earlier one, and then the lifecycle service.     *)
Background(s) ==
  /\ history' = [history EXCEPT ![s] = "running"]
  /\ \/ /\ logged' = logged \cup {s}
        /\ open' = [open EXCEPT ![s] = @ + 1]
     \/ UNCHANGED <<logged, open>>
  /\ MoveToBackground(s)
  /\ late' = IF proc[s] = "gone" THEN late \cup {s} ELSE late
  /\ UNCHANGED <<proc, ptys, aborted, handled, doomed, ending>>

(* The first timer of the delay asks neither whether the command has       *)
(* completed nor whether the key has moved it to the background.           *)
DelayTimer(s) ==
  /\ timer[s] = "armed"
  /\ timer' = [timer EXCEPT ![s] = "fired"]
  /\ Background(s)
  /\ UNCHANGED <<tool, repeated>>

(* Mutant: the key is the same for every command.                          *)
LogsEveryCommand(s) ==
  /\ tool[s] \in {"delaying", "waiting", "typed"}
  /\ tool[s] = "typed" /\ Answered(s) => s \notin repeated
  /\ Background(s)
  /\ repeated' = repeated \cup {x \in {s} : tool[x] = "typed" /\ Answered(x)}
  /\ UNCHANGED <<tool, timer>>

(* The background key, which works while the interface shows the command:  *)
(* a call of the model goes to the lifecycle service directly.  A key that *)
(* comes before the interface is drawn again (one more, a bound) moves the *)
(* user's command once more.                                               *)
PressBackground(s) ==
  \/ /\ tool[s] \in {"delaying", "waiting"}
     /\ MoveToBackground(s)
     /\ UNCHANGED shellVars
  \/ /\ tool[s] = "typed" /\ (Answered(s) => s \notin repeated)
     /\ Background(s)
     /\ repeated' = IF Answered(s) THEN repeated \cup {s} ELSE repeated
     /\ UNCHANGED <<tool, timer>>

(* The user dismisses a background command: lifecycle kill.                *)
Dismiss(s) ==
  /\ s \in backgrounded \cap active
  /\ doomed' = doomed \cup {s}
  /\ Settle(s, TRUE)
  /\ UNCHANGED <<proc, ptys, aborted, handled, tool, timer, history, logged, open, ending, late, repeated>>

(* kill() on exit of the program: the log stream first.                    *)
Kill(s) ==
  /\ s \in backgrounded /\ <<s, "kill">> \notin ending
  /\ EndLog(s, "kill")
  /\ IF s \in logged THEN UNCHANGED <<lifecycleVars, doomed>>
     ELSE /\ s \in active
          /\ doomed' = doomed \cup {s}
          /\ Settle(s, TRUE)
  /\ UNCHANGED <<proc, ptys, aborted, handled, tool, timer, history, logged, late, repeated>>

(* The stream has ended, and all that wait for it go on.                   *)
LogEnded(s) ==
  /\ Ending(s)
  /\ ending' = ending \ {<<s, "exit">>, <<s, "kill">>}
  /\ logged' = logged \ {s}
  /\ IF <<s, "kill">> \in ending /\ s \in active
       THEN doomed' = doomed \cup {s} /\ Settle(s, TRUE)
       ELSE UNCHANGED <<lifecycleVars, doomed>>
  /\ UNCHANGED <<proc, ptys, aborted, handled, tool, timer, history, open, late, repeated>>

-----------------------------------------------------------------------------

Tool(s) == Call(s) \/ Spawn(s) \/ SpawnFails(s) \/ DelayOver(s) \/ ToolReturns(s)

Service(s) == ProcessExits(s) \/ Finalize(s) \/ DelayTimer(s) \/ LogEnded(s)

User(s) == Abort(s) \/ PressBackground(s) \/ Dismiss(s) \/ Kill(s)

Next ==
  \/ \E s \in Shells : Tool(s) \/ Service(s) \/ User(s)
  \/ Lifecycle /\ UNCHANGED shellVars

Spec == Init /\ [][Next]_vars

(* Timers fire, streams end, a process that was killed exits, and the tool *)
(* goes on when it can.  A process that nobody kills may run for ever.     *)
Fairness == \A s \in Shells :
  /\ WF_vars(Spawn(s) \/ SpawnFails(s))
  /\ WF_vars(DelayOver(s)) /\ WF_vars(ToolReturns(s))
  /\ WF_vars(s \in doomed /\ ProcessExits(s))
  /\ WF_vars(Finalize(s)) /\ WF_vars(DelayTimer(s)) /\ WF_vars(LogEnded(s))

FairSpec == Spec /\ Fairness

=============================================================================
