---------------------------- MODULE ShellProofs ----------------------------
(* What TLAPS proves of executions and of shell commands, for any number   *)
(* of them, of watchers and of log streams.                                *)
EXTENDS ShellProperties, Integers, TLAPS

-----------------------------------------------------------------------------
(* Every step does to the lifecycle service what one of its methods does.  *)
LifeStep ==
  \/ UNCHANGED lifecycleVars
  \/ \E e \in Executions : Attach(e) \/ MoveToBackground(e)
                           \/ Settle(e, TRUE) \/ Settle(e, FALSE)
                           \/ ExitInfoExpires(e)
  \/ \E w \in Watchers : OnExit(w) \/ Unsubscribe(w)

(* Types.                                                                  *)
Registry ==
  /\ active \subseteq Executions
  /\ resolvers \subseteq active
  /\ promise \in [Executions -> Promises]
  /\ fate \in [Executions -> {"none", "completed", "aborted"}]
  /\ injections \in [Executions -> Nat]

(* A promise is pending as long as it can be resolved; what goes on has no *)
(* end yet, and what went to the background was answered with that.        *)
Answers ==
  \A e \in Executions :
    /\ promise[e] = "pending" <=> e \in resolvers
    /\ e \in backgrounded => promise[e] = "backgrounded"
    /\ e \in active => promise[e] \in {"pending", "backgrounded"}
    /\ e \in active \/ promise[e] = "none" =>
         fate[e] = "none" /\ injections[e] = 0

(* A watcher in the list has asked during the execution, which goes on,    *)
(* and has heard nothing yet.                                              *)
Listening ==
  /\ heard \in [Watchers -> Nat]
  /\ \A w \in Watchers :
       /\ watch[w] \in {"unasked", "withdrawn"} => heard[w] = 0
       /\ heard[w] <= 1
       /\ w \in listeners =>
            watch[w] = "early" /\ heard[w] = 0 /\ WatchOf[w] \in active
       /\ watch[w] = "early" /\ w \notin listeners => heard[w] = 1
  /\ listeners \subseteq Watchers
  /\ watch \in [Watchers -> {"unasked", "early", "late", "withdrawn"}]

(* The process of a command against its registration and its log.          *)
Processes ==
  /\ proc \in [Shells -> {"none", "running", "exited", "gone"}]
  /\ history \in [Shells -> {"none", "running", "exited"}]
  /\ open \in [Shells -> Int]
  /\ \A s \in Shells :
       /\ proc[s] = "none" <=> promise[s] = "none"
       /\ proc[s] = "gone" => s \notin active
       /\ promise[s] \in {"none", "pending"} => s \notin logged
       /\ s \notin late =>
            /\ s \notin logged => ~Ending(s)
            /\ proc[s] = "gone" /\ s \in logged => Ending(s)
            /\ proc[s] = "gone" => history[s] # "running"
            /\ s \notin repeated =>
                 open[s] = IF s \in logged /\ ~Ending(s) THEN 1 ELSE 0

(* The delay of a command against its log, which only the timer opens for  *)
(* a command of the model, and only the key for one of the user.           *)
Delays ==
  /\ tool \in [Shells -> {"idle", "preparing", "delaying", "waiting", "typed",
                         "returned"}]
  /\ timer \in [Shells -> {"off", "armed", "fired"}]
  /\ \A s \in Shells :
       /\ timer[s] = "armed" => s \notin logged
       /\ timer[s] # "off" => tool[s] \notin {"idle", "preparing", "typed"}
       /\ timer[s] # "off" \/ tool[s] = "typed" => promise[s] # "none"

-----------------------------------------------------------------------------
LEMMA OnlyMethods == [Next]_vars => LifeStep
<1> SUFFICES ASSUME [Next]_vars
             PROVE  LifeStep
  OBVIOUS
<1>0. Shells \subseteq Executions
  BY DEF Shells
<1>1. ASSUME NEW s \in Shells, Tool(s)
      PROVE  LifeStep
  BY <1>0, <1>1 DEF Tool, Call, Spawn, SpawnFails, DelayOver, ToolReturns,
     LifeStep
<1>2. ASSUME NEW s \in Shells, HandleExit(s)
      PROVE  LifeStep
  <2>1. (s \in aborted) \in BOOLEAN /\ Settle(s, s \in aborted)
    BY <1>2 DEF HandleExit
  <2>2. CASE s \in aborted
    BY <1>0, <2>1, <2>2 DEF Settle, Injects, LifeStep
  <2>3. CASE s \notin aborted
    BY <1>0, <2>1, <2>3 DEF Settle, Injects, LifeStep
  <2> QED
    BY <2>2, <2>3
<1>3. ASSUME NEW s \in Shells, Background(s)
      PROVE  LifeStep
  BY <1>0, <1>3 DEF Background, LifeStep
<1>4. ASSUME NEW s \in Shells, Service(s)
      PROVE  LifeStep
  <2>1. CASE ProcessExits(s)
    BY <2>1, <1>2 DEF ProcessExits, LifeStep
  <2>2. CASE LogEnded(s)
    BY <1>0, <2>2 DEF LogEnded, LifeStep
  <2> QED
    BY <1>2, <1>3, <1>4, <2>1, <2>2 DEF Service, Finalize, DelayTimer
<1>5. ASSUME NEW s \in Shells, User(s)
      PROVE  LifeStep
  <2>1. CASE PressBackground(s)
    BY <1>0, <1>3, <2>1 DEF PressBackground, LifeStep
  <2> QED
    BY <1>0, <1>5, <2>1 DEF User, Abort, Dismiss, Kill, LifeStep
<1>6. CASE Lifecycle
  BY <1>6 DEF Lifecycle, Create, BackgroundVirtual, CompleteVirtual,
     KillVirtual, LifeStep
<1>7. CASE UNCHANGED vars
  BY <1>7 DEF vars, LifeStep
<1> QED
  BY <1>1, <1>4, <1>5, <1>6, <1>7 DEF Next

LEMMA AnswersStay ==
  ASSUME Registry, Answers, LifeStep
  PROVE  Registry' /\ Answers'
<1> USE DEF Registry, Answers, Promises
<1>1. CASE UNCHANGED lifecycleVars
  BY <1>1 DEF lifecycleVars
<1>2. ASSUME NEW e \in Executions, Attach(e)
      PROVE  Registry' /\ Answers'
  BY <1>2 DEF Attach
<1>3. ASSUME NEW e \in Executions, MoveToBackground(e)
      PROVE  Registry' /\ Answers'
  BY <1>3, <1>1 DEF MoveToBackground, CanBackground, ResolvedWith
<1>4. ASSUME NEW e \in Executions, NEW b \in BOOLEAN, Settle(e, b)
      PROVE  Registry' /\ Answers'
  <2>1. CASE e \notin active
    BY <1>4, <2>1, <1>1 DEF Settle
  <2>2. CASE e \in active
    <3>1. /\ injections' = IF Injects(e, b)
                           THEN [injections EXCEPT ![e] = @ + 1] ELSE injections
          /\ fate' = [fate EXCEPT ![e] = IF b THEN "aborted" ELSE "completed"]
          /\ promise' = ResolvedWith(e, IF b THEN "aborted" ELSE "completed")
          /\ resolvers' = resolvers \ {e} /\ active' = active \ {e}
          /\ UNCHANGED backgrounded
      BY <1>4, <2>2 DEF Settle
    <3>2. Registry'
      BY <3>1 DEF ResolvedWith
    <3>3. promise'[e] \notin {"none", "pending"}
      BY <2>2, <3>1 DEF ResolvedWith
    <3>4. e \in backgrounded => promise'[e] = "backgrounded"
      BY <3>1 DEF ResolvedWith
    <3>5. \A x \in Executions \ {e} :
            /\ promise'[x] = promise[x] /\ fate'[x] = fate[x]
            /\ injections'[x] = injections[x]
      BY <3>1 DEF ResolvedWith
    <3> QED
      BY <3>1, <3>2, <3>3, <3>4, <3>5
  <2> QED
    BY <2>1, <2>2
<1>5. ASSUME NEW e \in Executions, ExitInfoExpires(e)
      PROVE  Registry' /\ Answers'
  BY <1>5 DEF ExitInfoExpires
<1>6. ASSUME NEW w \in Watchers, OnExit(w) \/ Unsubscribe(w)
      PROVE  Registry' /\ Answers'
  BY <1>6 DEF OnExit, Unsubscribe
<1> QED
  BY <1>1, <1>2, <1>3, <1>4, <1>5, <1>6 DEF LifeStep

(* Every step of the lifecycle service is one of Execution, or none of its *)
(* business.                                                               *)
LEMMA StepPromised ==
  ASSUME Registry, Answers, LifeStep
  PROVE  [Promise!Next]_(Promise!vars)
<1> USE DEF Registry, Answers, Promises, Promise!vars, Promise!Next
<1>1. CASE UNCHANGED lifecycleVars
  BY <1>1 DEF lifecycleVars
<1>2. ASSUME NEW e \in Executions, Attach(e)
      PROVE  Promise!Next
  BY <1>2 DEF Attach, Promise!Start
<1>3. ASSUME NEW e \in Executions, MoveToBackground(e)
      PROVE  [Promise!Next]_(Promise!vars)
  <2>1. CASE ~CanBackground(e)
    BY <1>3, <2>1, <1>1 DEF MoveToBackground
  <2>2. CASE CanBackground(e)
    BY <1>3, <2>2 DEF MoveToBackground, CanBackground, ResolvedWith,
       Promise!MoveToBackground
  <2> QED
    BY <2>1, <2>2
<1>4. ASSUME NEW e \in Executions, NEW b \in BOOLEAN, Settle(e, b)
      PROVE  [Promise!Next]_(Promise!vars)
  <2>1. CASE e \notin active
    BY <1>4, <2>1, <1>1 DEF Settle
  <2>2. CASE e \in active
    <3> DEFINE end == IF b THEN "aborted" ELSE "completed"
    <3>1. /\ injections' = IF Injects(e, b)
                           THEN [injections EXCEPT ![e] = @ + 1] ELSE injections
          /\ fate' = [fate EXCEPT ![e] = end]
          /\ promise' = ResolvedWith(e, end)
      BY <1>4, <2>2 DEF Settle
    <3>2. CASE promise[e] = "pending"
      <4>1. promise' = [promise EXCEPT ![e] = end] /\ UNCHANGED injections
        BY <3>1, <3>2 DEF ResolvedWith, Injects
      <4>2. Promise!EndInForeground(e)
        BY <3>1, <3>2, <4>1 DEF Promise!EndInForeground
      <4> QED
        BY <4>2
    <3>3. CASE promise[e] = "backgrounded"
      <4>1. UNCHANGED promise /\ fate[e] = "none" /\ injections[e] = 0
        BY <2>2, <3>1, <3>3 DEF ResolvedWith
      <4>2. injections' \in {injections, [injections EXCEPT ![e] = 1]}
            /\ (b => UNCHANGED injections)
        BY <3>1, <4>1 DEF Injects
      <4>3. Promise!EndInBackground(e)
        BY <3>1, <3>3, <4>1, <4>2 DEF Promise!EndInBackground
      <4> QED
        BY <4>3
    <3> QED
      BY <2>2, <3>2, <3>3
  <2> QED
    BY <2>1, <2>2
<1>5. ASSUME NEW e \in Executions, ExitInfoExpires(e)
      PROVE  UNCHANGED Promise!vars
  BY <1>5 DEF ExitInfoExpires
<1>6. ASSUME NEW w \in Watchers, OnExit(w) \/ Unsubscribe(w)
      PROVE  UNCHANGED Promise!vars
  BY <1>6 DEF OnExit, Unsubscribe
<1> QED
  BY <1>1, <1>2, <1>3, <1>4, <1>5, <1>6 DEF LifeStep

(* Executions keep the promise of Execution: each is answered once, told   *)
(* to the conversation at most once, and not when it was aborted           *)
(* (settleExecution, background).                                          *)
THEOREM PromiseKept == Spec => ImplementsExecution
<1>1. Init => Registry /\ Answers /\ Promise!Init
  BY DEF Init, LifecycleInit, Registry, Answers, Promises, Promise!Init
<1>2. Registry /\ Answers /\ [Next]_vars => Registry' /\ Answers'
  BY OnlyMethods, AnswersStay
<1>3. Registry /\ Answers /\ [Next]_vars => [Promise!Next]_(Promise!vars)
  BY OnlyMethods, StepPromised
<1> QED
  BY <1>1, <1>2, <1>3, PTL DEF Spec, ImplementsExecution, Promise!Spec

-----------------------------------------------------------------------------
LEMMA ListeningStays ==
  ASSUME Listening, LifeStep
  PROVE  Listening'
<1> USE DEF Listening
<1>1. CASE UNCHANGED lifecycleVars
  BY <1>1 DEF lifecycleVars
<1>2. ASSUME NEW e \in Executions, Attach(e)
      PROVE  Listening'
  BY <1>2 DEF Attach
<1>3. ASSUME NEW e \in Executions, MoveToBackground(e)
      PROVE  Listening'
  BY <1>3, <1>1 DEF MoveToBackground
<1>4. ASSUME NEW e \in Executions, NEW b \in BOOLEAN, Settle(e, b)
      PROVE  Listening'
  <2>1. CASE e \notin active
    BY <1>4, <2>1, <1>1 DEF Settle
  <2>2. CASE e \in active
    <3>1. /\ heard' = [w \in Watchers |->
                         IF w \in Told(e) THEN heard[w] + 1 ELSE heard[w]]
          /\ listeners' = {w \in listeners : WatchOf[w] # e}
          /\ active' = active \ {e} /\ UNCHANGED watch
      BY <1>4, <2>2 DEF Settle
    <3> QED
      BY <3>1 DEF Told
  <2> QED
    BY <2>1, <2>2
<1>5. ASSUME NEW e \in Executions, ExitInfoExpires(e)
      PROVE  Listening'
  BY <1>5 DEF ExitInfoExpires
<1>6. ASSUME NEW w \in Watchers, OnExit(w)
      PROVE  Listening'
  BY <1>6 DEF OnExit
<1>7. ASSUME NEW w \in Watchers, Unsubscribe(w)
      PROVE  Listening'
  BY <1>7 DEF Unsubscribe
<1> QED
  BY <1>1, <1>2, <1>3, <1>4, <1>5, <1>6, <1>7 DEF LifeStep

(* A callback that asked in time hears the end of its execution once, a    *)
(* withdrawn one never (onExit, settleExecution).                          *)
THEOREM ExitsAreHeard == Spec => []ExitHeardOnce
<1>1. Init => Listening
  BY DEF Init, LifecycleInit, Listening
<1>2. Listening /\ [Next]_vars => Listening'
  BY OnlyMethods, ListeningStays
<1>3. Listening => ExitHeardOnce
  BY DEF Listening, ExitHeardOnce
<1> QED
  BY <1>1, <1>2, <1>3, PTL DEF Spec

-----------------------------------------------------------------------------
(* Log streams.                                                            *)
LEMMA LogIsEnded ==
  ASSUME Processes, NEW s \in Shells, NEW who \in {"exit", "kill"},
         EndLog(s, who), UNCHANGED logged
  PROVE  /\ open' \in [Shells -> Int]
         /\ \A x \in Shells \ {s} : open'[x] = open[x] /\ Ending(x)' = Ending(x)
         /\ s \notin late =>
              /\ Ending(s)' <=> s \in logged
              /\ s \notin repeated => open'[s] = 0
<1> USE DEF Processes, Ending
<1>1. CASE s \notin logged
  BY <1>1 DEF EndLog
<1>2. CASE s \in logged
  <2>1. /\ ending' = ending \cup {<<s, who>>}
        /\ open' = [open EXCEPT ![s] = IF Ending(s) THEN @ ELSE @ - 1]
    BY <1>2 DEF EndLog
  <2>2. \A x \in Shells \ {s} : Ending(x)' = Ending(x)
    BY <2>1
  <2>3. Ending(s)'
    BY <2>1
  <2> QED
    BY <1>2, <2>1, <2>2, <2>3
<1> QED
  BY <1>1, <1>2

(* The registry after the end of execution s.                              *)
LEMMA SettledThen ==
  ASSUME Registry, Answers, NEW s \in Executions, NEW b \in BOOLEAN,
         Settle(s, b)
  PROVE  /\ s \notin active' /\ active' \subseteq active
         /\ \A x \in Executions \ {s} : promise'[x] = promise[x]
         /\ promise[s] = "none" <=> promise'[s] = "none"
         /\ promise'[s] # "pending"
<1>1. CASE s \notin active
  BY <1>1 DEF Settle, lifecycleVars, Answers, Registry
<1>2. CASE s \in active
  <2>1. /\ promise' = ResolvedWith(s, IF b THEN "aborted" ELSE "completed")
        /\ active' = active \ {s}
    BY <1>2 DEF Settle
  <2> QED
    BY <1>2, <2>1 DEF ResolvedWith, Answers, Registry
<1> QED
  BY <1>1, <1>2

LEMMA ExitHandled ==
  ASSUME Registry, Answers, Processes, NEW s \in Shells,
         proc[s] \in {"running", "exited"}, HandleExit(s), UNCHANGED <<late, repeated>>
  PROVE  Processes'
<1>1. s \in Executions /\ \A x \in Shells : x \in Executions
  BY DEF Shells
<1>2. PICK b \in BOOLEAN : Settle(s, b)
  <2>1. CASE s \in aborted
    <3>1. Settle(s, TRUE)
      BY <2>1 DEF HandleExit, Settle, Injects
    <3> QED
      BY <3>1
  <2>2. CASE s \notin aborted
    <3>1. Settle(s, FALSE)
      BY <2>2 DEF HandleExit, Settle, Injects
    <3> QED
      BY <3>1
  <2> QED
    BY <2>1, <2>2
<1>3. /\ s \notin active' /\ active' \subseteq active
      /\ \A x \in Shells \ {s} : promise'[x] = promise[x]
      /\ promise[s] = "none" <=> promise'[s] = "none"
      /\ promise'[s] # "pending"
  BY <1>1, <1>2, SettledThen
<1>4. EndLog(s, "exit") /\ UNCHANGED logged
  BY DEF HandleExit
<1>5. /\ open' \in [Shells -> Int]
      /\ \A x \in Shells \ {s} : open'[x] = open[x] /\ Ending(x)' = Ending(x)
      /\ s \notin late =>
           /\ Ending(s)' <=> s \in logged
           /\ s \notin repeated => open'[s] = 0
  BY <1>4, LogIsEnded
<1>6. /\ proc' = [proc EXCEPT ![s] = "gone"]
      /\ history' = IF history[s] = "none" THEN history
                    ELSE [history EXCEPT ![s] = "exited"]
  BY DEF HandleExit, Exited
<1>7. history' \in [Shells -> {"none", "running", "exited"}]
      /\ history'[s] # "running"
      /\ \A x \in Shells \ {s} : history'[x] = history[x]
  BY <1>6 DEF Processes
<1>8. promise'[s] = "none" => FALSE
  BY <1>3 DEF Processes
<1> QED
  BY <1>3, <1>4, <1>5, <1>6, <1>7, <1>8 DEF Processes

(* A move to the background replaces no log, or else it is a repeated one. *)
LEMMA BackgroundDone ==
  ASSUME Registry, Answers, Processes, NEW s \in Shells, Background(s),
         promise[s] # "none",
         repeated \subseteq repeated', repeated' \subseteq repeated \cup {s},
         s \in logged => s \in repeated'
  PROVE  Processes'
<1>1. s \in Executions
  BY DEF Shells
<1>2. /\ history' = [history EXCEPT ![s] = "running"]
      /\ \/ logged' = logged \cup {s} /\ open' = [open EXCEPT ![s] = @ + 1]
         \/ UNCHANGED <<logged, open>>
      /\ MoveToBackground(s)
      /\ late' = IF proc[s] = "gone" THEN late \cup {s} ELSE late
      /\ UNCHANGED <<proc, ending>>
  BY DEF Background
<1>3. \A x \in Shells : Ending(x)' = Ending(x)
  BY <1>2 DEF Ending
<1>4. /\ UNCHANGED active /\ promise'[s] \notin {"none", "pending"}
      /\ \A x \in Shells \ {s} : promise'[x] = promise[x]
  <2>1. CASE ~CanBackground(s)
    BY <1>1, <1>2, <2>1 DEF MoveToBackground, lifecycleVars, CanBackground,
       Answers, Registry
  <2>2. CASE CanBackground(s)
    <3>1. /\ promise' = [promise EXCEPT ![s] = "backgrounded"]
          /\ UNCHANGED active
      BY <1>1, <1>2, <2>2 DEF MoveToBackground, ResolvedWith, CanBackground,
         Answers
    <3> QED
      BY <1>1, <3>1 DEF Registry, Shells
  <2> QED
    BY <2>1, <2>2
<1>5. ASSUME NEW x \in Shells \ {s}
      PROVE  /\ open'[x] = open[x] /\ history'[x] = history[x]
             /\ x \in logged' <=> x \in logged
             /\ x \in late' <=> x \in late
             /\ x \in repeated' <=> x \in repeated
  BY <1>2 DEF Processes
<1>6. open' \in [Shells -> Int] /\ history' \in [Shells -> {"none", "running", "exited"}]
  BY <1>2 DEF Processes
<1>7. CASE UNCHANGED <<logged, open>>
  BY <1>2, <1>3, <1>4, <1>5, <1>6, <1>7 DEF Processes
<1>8. CASE logged' = logged \cup {s} /\ open' = [open EXCEPT ![s] = @ + 1]
  BY <1>2, <1>3, <1>4, <1>5, <1>6, <1>8 DEF Processes
<1> QED
  BY <1>2, <1>7, <1>8

LEMMA ProcessesStay ==
  ASSUME Registry, Answers, Processes, Delays, [Next]_vars
  PROVE  Processes'
<1>0. Shells \subseteq Executions
  BY DEF Shells
<1>1. CASE UNCHANGED <<proc, history, open, promise, active, logged, ending,
                       late, repeated>>
  BY <1>1 DEF Processes, Ending
<1>2. ASSUME NEW s \in Shells, Spawn(s)
      PROVE  Processes'
  <2>1. /\ promise[s] = "none" /\ promise' = [promise EXCEPT ![s] = "pending"]
        /\ active' = active \cup {s} /\ proc' = [proc EXCEPT ![s] = "running"]
        /\ UNCHANGED <<history, open, logged, ending, late, repeated>>
    BY <1>2 DEF Spawn, Attach
  <2>2. promise'[s] = "pending"
        /\ \A x \in Shells \ {s} : promise'[x] = promise[x]
    BY <1>0, <2>1 DEF Registry
  <2> QED
    BY <2>1, <2>2 DEF Processes, Ending
<1>3. ASSUME NEW s \in Shells, ProcessExits(s) \/ Finalize(s)
      PROVE  Processes'
  <2>1. CASE HandleExit(s)
    BY <1>3, <2>1, ExitHandled DEF ProcessExits, Finalize
  <2>2. CASE /\ proc[s] = "running" /\ proc' = [proc EXCEPT ![s] = "exited"]
             /\ UNCHANGED <<history, open, promise, active, logged, ending,
                            late, repeated>>
    BY <2>2 DEF Processes, Ending
  <2> QED
    BY <1>3, <2>1, <2>2 DEF ProcessExits, Finalize, lifecycleVars
<1>4. ASSUME NEW s \in Shells, DelayTimer(s) \/ PressBackground(s)
      PROVE  Processes'
  <2>1. CASE DelayTimer(s)
    BY <2>1, BackgroundDone DEF DelayTimer, Delays
  <2>2. CASE tool[s] \in {"delaying", "waiting"} /\ PressBackground(s)
    <3>1. MoveToBackground(s) /\ UNCHANGED shellVars
      BY <2>2 DEF PressBackground
    <3>2. /\ UNCHANGED active
          /\ \A x \in Shells : \/ promise'[x] = promise[x]
                               \/ promise[x] = "pending" /\ promise'[x] = "backgrounded"
      BY <1>0, <3>1 DEF MoveToBackground, lifecycleVars, ResolvedWith, Registry
    <3>3. \A x \in Shells : promise'[x] = "none" <=> promise[x] = "none"
      BY <3>2
    <3> QED
      BY <3>1, <3>2, <3>3 DEF Processes, Ending, shellVars
  <2>3. CASE tool[s] = "typed" /\ PressBackground(s)
    <3>1. /\ Background(s) /\ promise[s] # "none"
          /\ repeated' = IF promise[s] # "pending" THEN repeated \cup {s} ELSE repeated
      BY <2>3 DEF PressBackground, Delays, Answered
    <3>2. s \in logged => promise[s] # "pending"
      BY DEF Processes
    <3> QED
      BY <3>1, <3>2, BackgroundDone
  <2> QED
    BY <1>4, <2>1, <2>2, <2>3 DEF PressBackground
<1>5. ASSUME NEW s \in Shells, Settle(s, TRUE),
             s \in backgrounded,
             UNCHANGED <<proc, history, open, logged, ending, late, repeated>>
      PROVE  Processes'
  <2>1. promise[s] = "backgrounded"
    BY <1>0, <1>5 DEF Answers
  <2>2. /\ active' \subseteq active
        /\ \A x \in Shells \ {s} : promise'[x] = promise[x]
        /\ promise'[s] \notin {"none", "pending"}
    BY <1>0, <1>5, <2>1, SettledThen
  <2> QED
    BY <1>5, <2>1, <2>2 DEF Processes, Ending
<1>6. ASSUME NEW s \in Shells, Dismiss(s)
      PROVE  Processes'
  BY <1>5, <1>6 DEF Dismiss
<1>7. ASSUME NEW s \in Shells, Kill(s)
      PROVE  Processes'
  <2>1. /\ s \in backgrounded /\ EndLog(s, "kill")
        /\ UNCHANGED <<proc, history, logged, late, repeated>>
    BY <1>7 DEF Kill
  <2>2. CASE s \notin logged
    <3>1. Settle(s, TRUE) /\ UNCHANGED <<open, ending>>
      BY <1>7, <2>1, <2>2 DEF Kill, EndLog
    <3> QED
      BY <1>5, <2>1, <3>1
  <2>3. CASE s \in logged
    <3>1. UNCHANGED <<promise, active>>
      BY <1>7, <2>3 DEF Kill, lifecycleVars
    <3>2. /\ open' \in [Shells -> Int]
          /\ \A x \in Shells \ {s} :
               open'[x] = open[x] /\ Ending(x)' = Ending(x)
          /\ s \notin late =>
               Ending(s)' /\ (s \notin repeated => open'[s] = 0)
      BY <2>1, <2>3, LogIsEnded
    <3> QED
      BY <2>1, <2>3, <3>1, <3>2 DEF Processes
  <2> QED
    BY <2>2, <2>3
<1>8. ASSUME NEW s \in Shells, LogEnded(s)
      PROVE  Processes'
  <2>1. /\ Ending(s) /\ ending' = ending \ {<<s, "exit">>, <<s, "kill">>}
        /\ logged' = logged \ {s} /\ UNCHANGED <<proc, history, open, late, repeated>>
    BY <1>8 DEF LogEnded
  <2>2. ~Ending(s)' /\ \A x \in Shells \ {s} : Ending(x)' = Ending(x)
    BY <2>1 DEF Ending
  <2>3. /\ active' \subseteq active
        /\ \A x \in Shells \ {s} : promise'[x] = promise[x]
        /\ promise[s] = "none" <=> promise'[s] = "none"
    <3>1. CASE Settle(s, TRUE)
      BY <1>0, <3>1, SettledThen
    <3>2. CASE UNCHANGED lifecycleVars
      BY <3>2 DEF lifecycleVars
    <3> QED
      BY <1>8, <3>1, <3>2 DEF LogEnded
  <2> QED
    BY <2>1, <2>2, <2>3 DEF Processes
<1>9. ASSUME NEW s \in Shells,
             Call(s) \/ SpawnFails(s) \/ DelayOver(s) \/ ToolReturns(s)
             \/ Abort(s)
      PROVE  Processes'
  BY <1>1, <1>9 DEF Call, SpawnFails, DelayOver, ToolReturns, Abort,
     lifecycleVars
<1>10. CASE Lifecycle /\ UNCHANGED shellVars
  <2>1. UNCHANGED <<proc, history, open, logged, ending, late, repeated>>
    BY <1>10 DEF shellVars
  <2>2. \A x \in Shells :
          promise'[x] = promise[x] /\ (x \in active' => x \in active)
    <3>1. ASSUME NEW e \in Virtual \cap Executions, NEW b \in BOOLEAN,
                 Settle(e, b)
          PROVE  \A x \in Shells :
                   promise'[x] = promise[x] /\ (x \in active' => x \in active)
      BY <3>1, SettledThen DEF Shells
    <3>2. ASSUME NEW e \in Executions, Create(e) \/ BackgroundVirtual(e)
          PROVE  \A x \in Shells :
                   promise'[x] = promise[x] /\ (x \in active' => x \in active)
      BY <3>2 DEF Create, Attach, BackgroundVirtual, MoveToBackground,
         ResolvedWith, Shells, Registry
    <3>3. CASE UNCHANGED <<promise, active>>
      BY <3>3
    <3> QED
      BY <1>10, <3>1, <3>2, <3>3 DEF Lifecycle, CompleteVirtual, KillVirtual,
         ExitInfoExpires, OnExit, Unsubscribe
  <2> QED
    BY <2>1, <2>2 DEF Processes, Ending
<1>11. CASE UNCHANGED vars
  BY <1>1, <1>11 DEF vars, lifecycleVars, shellVars
<1> QED
  BY <1>2, <1>3, <1>4, <1>6, <1>7, <1>8, <1>9, <1>10, <1>11
     DEF Next, Tool, Service, User

LEMMA DelaysStay ==
  ASSUME Registry, Processes, Delays, [Next]_vars, Processes'
  PROVE  Delays'
<1> USE DEF Delays
<1>0. Shells \subseteq Executions
  BY DEF Shells
<1>1. ASSUME LifeStep
      PROVE  \A s \in Shells : promise[s] # "none" => promise'[s] # "none"
  <2>1. ASSUME NEW e \in Executions, NEW b \in BOOLEAN, Settle(e, b)
        PROVE  \A s \in Shells : promise[s] # "none" => promise'[s] # "none"
    BY <1>0, <2>1 DEF Settle, ResolvedWith, Registry, lifecycleVars
  <2>2. ASSUME NEW e \in Executions, Attach(e) \/ MoveToBackground(e) \/ ExitInfoExpires(e)
        PROVE  \A s \in Shells : promise[s] # "none" => promise'[s] # "none"
    BY <1>0, <2>2 DEF Attach, MoveToBackground, ExitInfoExpires, ResolvedWith,
       Registry, lifecycleVars
  <2>3. CASE UNCHANGED promise
    BY <2>3
  <2> QED
    BY <1>1, <2>1, <2>2, <2>3 DEF LifeStep, OnExit, Unsubscribe, lifecycleVars
<1>2. \A s \in Shells : promise[s] # "none" => promise'[s] # "none"
  BY <1>1, OnlyMethods
<1>3. CASE UNCHANGED <<tool, timer>> /\ logged' \subseteq logged
  BY <1>2, <1>3
<1>4. ASSUME NEW s \in Shells, Spawn(s)
      PROVE  Delays'
  <2>1. /\ tool[s] = "preparing" /\ promise[s] = "none" /\ UNCHANGED logged
        /\ promise'[s] = "pending"
    BY <1>0, <1>4 DEF Spawn, Attach, Registry
  <2>2. timer[s] = "off" /\ s \notin logged
    BY <2>1 DEF Processes
  <2>3. CASE /\ tool' = [tool EXCEPT ![s] = "delaying"]
             /\ timer' = [timer EXCEPT ![s] = "armed"]
    BY <1>2, <2>1, <2>2, <2>3
  <2>4. ASSUME NEW t \in {"waiting", "typed"}, tool' = [tool EXCEPT ![s] = t],
               UNCHANGED timer
        PROVE  Delays'
    BY <1>2, <2>1, <2>2, <2>4
  <2> QED
    BY <1>4, <2>3, <2>4 DEF Spawn
<1>5. ASSUME NEW s \in Shells, Call(s) \/ SpawnFails(s) \/ DelayOver(s) \/ ToolReturns(s)
      PROVE  Delays'
  <2>1. UNCHANGED <<promise, timer, logged>>
    BY <1>5 DEF Call, SpawnFails, DelayOver, ToolReturns, lifecycleVars
  <2>2. PICK t \in {"returned", "preparing", "waiting"} :
          tool' = [tool EXCEPT ![s] = t] /\ (t = "preparing" => tool[s] = "idle")
    BY <1>5 DEF Call, SpawnFails, DelayOver, ToolReturns
  <2> QED
    BY <2>1, <2>2
<1>6. ASSUME NEW s \in Shells, Service(s)
      PROVE  Delays'
  <2>1. CASE DelayTimer(s)
    <3>1. /\ timer[s] = "armed" /\ timer' = [timer EXCEPT ![s] = "fired"]
          /\ UNCHANGED tool /\ logged' \subseteq logged \cup {s}
      BY <2>1 DEF DelayTimer, Background
    <3> QED
      BY <1>2, <3>1
  <2>2. CASE ProcessExits(s) \/ Finalize(s) \/ LogEnded(s)
    BY <1>3, <2>2 DEF ProcessExits, Finalize, HandleExit, LogEnded
  <2> QED
    BY <1>6, <2>1, <2>2 DEF Service
<1>7. ASSUME NEW s \in Shells, User(s)
      PROVE  Delays'
  <2>1. CASE Abort(s) \/ Dismiss(s) \/ Kill(s)
    BY <1>3, <2>1 DEF Abort, Dismiss, Kill
  <2>2. CASE PressBackground(s) /\ UNCHANGED logged
    BY <1>3, <2>2 DEF PressBackground, shellVars
  <2>3. CASE PressBackground(s) /\ tool[s] = "typed"
    <3>1. UNCHANGED <<tool, timer>> /\ logged' \subseteq logged \cup {s}
      BY <2>3 DEF PressBackground, Background
    <3> QED
      BY <1>2, <2>3, <3>1
  <2> QED
    BY <1>7, <2>1, <2>2, <2>3 DEF User, PressBackground, shellVars
<1>8. CASE UNCHANGED shellVars
  BY <1>3, <1>8 DEF shellVars
<1> QED
  BY <1>4, <1>5, <1>6, <1>7, <1>8 DEF Next, Tool, vars

(* A command that has ended leaves no record that says "running" and no    *)
(* log, however the delay, the key, kill() and its exit meet, unless it    *)
(* was moved to the background after its end; a log only stays open when   *)
(* the user's key, pressed twice, replaced it (cleanupLogStream,           *)
(* handleExit, background).                                                *)
THEOREM CommandsTidyUp == Spec => []NothingOutlives
<1>1. Init => Registry /\ Answers /\ Processes /\ Delays
  BY DEF Init, LifecycleInit, Registry, Answers, Promises, Processes, Delays,
     Shells, Ending
<1>2. Registry /\ Answers /\ Processes /\ Delays /\ [Next]_vars
      => Registry' /\ Answers' /\ Processes' /\ Delays'
  BY OnlyMethods, AnswersStay, ProcessesStay, DelaysStay
<1>3. Processes => NothingOutlives
  BY DEF Processes, NothingOutlives
<1> QED
  BY <1>1, <1>2, <1>3, PTL DEF Spec

-----------------------------------------------------------------------------
(* Types.                                                                  *)

LEMMA LifecycleTypes ==
  ASSUME LifecycleTypeOK, LifeStep
  PROVE  LifecycleTypeOK'
<1> USE DEF LifecycleTypeOK, Promises
<1>1. CASE UNCHANGED lifecycleVars
  BY <1>1 DEF lifecycleVars
<1>2. ASSUME NEW e \in Executions, Attach(e)
      PROVE  LifecycleTypeOK'
  BY <1>2 DEF Attach
<1>3. ASSUME NEW e \in Executions, MoveToBackground(e)
      PROVE  LifecycleTypeOK'
  BY <1>3, <1>1 DEF MoveToBackground, ResolvedWith
<1>4. ASSUME NEW e \in Executions, NEW b \in BOOLEAN, Settle(e, b)
      PROVE  LifecycleTypeOK'
  <2>1. CASE e \notin active
    BY <1>4, <2>1, <1>1 DEF Settle
  <2>2. CASE e \in active
    <3> DEFINE end == IF b THEN "aborted" ELSE "completed"
    <3>1. /\ injections' = injections \/ injections' = [injections EXCEPT ![e] = @ + 1]
          /\ fate' = [fate EXCEPT ![e] = end] /\ promise' = ResolvedWith(e, end)
          /\ heard' = [w \in Watchers |-> IF w \in Told(e) THEN heard[w] + 1 ELSE heard[w]]
          /\ listeners' = {w \in listeners : WatchOf[w] # e}
          /\ resolvers' = resolvers \ {e} /\ active' = active \ {e}
          /\ exitInfo' = exitInfo \cup {e} /\ UNCHANGED <<backgrounded, watch>>
      BY <1>4, <2>2 DEF Settle
    <3>2. end \in {"aborted", "completed"}
      OBVIOUS
    <3> HIDE DEF end
    <3>3. fate' \in [Executions -> {"none", "completed", "aborted"}]
      BY <3>1, <3>2
    <3>4. promise' \in [Executions -> Promises]
      BY <3>1, <3>2 DEF ResolvedWith
    <3>5. heard' \in [Watchers -> Nat]
      BY <3>1
    <3>6. injections' \in [Executions -> Nat]
      BY <3>1
    <3> QED
      BY <3>1, <3>3, <3>4, <3>5, <3>6
  <2> QED
    BY <2>1, <2>2
<1>5. ASSUME NEW e \in Executions, ExitInfoExpires(e)
      PROVE  LifecycleTypeOK'
  BY <1>5 DEF ExitInfoExpires
<1>6. ASSUME NEW w \in Watchers, OnExit(w)
      PROVE  LifecycleTypeOK'
  BY <1>6 DEF OnExit
<1>7. ASSUME NEW w \in Watchers, Unsubscribe(w)
      PROVE  LifecycleTypeOK'
  BY <1>7 DEF Unsubscribe
<1> QED
  BY <1>1, <1>2, <1>3, <1>4, <1>5, <1>6, <1>7 DEF LifeStep

(* A stream that is not told to end counts as open.                        *)
StreamsCounted == \A s \in logged : Ending(s) \/ open[s] > 0

CommandTypeOK ==
  /\ proc \in [Shells -> {"none", "running", "exited", "gone"}]
  /\ ptys \subseteq Shells
  /\ aborted \subseteq Shells /\ handled \subseteq Shells /\ doomed \subseteq Shells
  /\ tool \in [Shells -> {"idle", "preparing", "delaying", "waiting", "typed",
                         "returned"}]
  /\ timer \in [Shells -> {"off", "armed", "fired"}]
  /\ history \in [Shells -> {"none", "running", "exited"}]
  /\ late \subseteq Shells /\ repeated \subseteq Shells

LogTypeOK ==
  /\ logged \subseteq Shells /\ open \in [Shells -> Nat]
  /\ ending \subseteq Shells \X {"exit", "kill"}
  /\ StreamsCounted

LEMMA LogEndTypes ==
  ASSUME LogTypeOK, NEW s \in Shells, NEW who \in {"exit", "kill"},
         EndLog(s, who), UNCHANGED logged
  PROVE  LogTypeOK'
<1> USE DEF LogTypeOK, StreamsCounted, Ending
<1>1. CASE s \notin logged
  BY <1>1 DEF EndLog
<1>2. CASE s \in logged
  <2>1. /\ ending' = ending \cup {<<s, who>>}
        /\ open' = [open EXCEPT ![s] = IF Ending(s) THEN @ ELSE @ - 1]
    BY <1>2 DEF EndLog
  <2>2. open' \in [Shells -> Nat]
    BY <1>2, <2>1
  <2>3. \A x \in logged' : Ending(x)' \/ open'[x] > 0
    <3>1. Ending(s)'
      BY <2>1
    <3>2. \A x \in logged : x # s => open'[x] = open[x] /\ (Ending(x) => Ending(x)')
      BY <2>1
    <3> QED
      BY <3>1, <3>2
  <2>4. ending' \subseteq Shells \X {"exit", "kill"}
    BY <2>1
  <2> QED
    BY <2>2, <2>3, <2>4
<1> QED
  BY <1>1, <1>2

LEMMA BackgroundTypes ==
  ASSUME LogTypeOK, CommandTypeOK, NEW s \in Shells, Background(s)
  PROVE  LogTypeOK' /\ history' \in [Shells -> {"none", "running", "exited"}]
         /\ late' \subseteq Shells
<1>1. /\ history' = [history EXCEPT ![s] = "running"]
      /\ late' = late \/ late' = late \cup {s}
      /\ UNCHANGED ending
      /\ \/ logged' = logged \cup {s} /\ open' = [open EXCEPT ![s] = @ + 1]
         \/ UNCHANGED <<logged, open>>
  BY DEF Background
<1>2. CASE UNCHANGED <<logged, open>>
  BY <1>1, <1>2 DEF LogTypeOK, CommandTypeOK, StreamsCounted, Ending
<1>3. CASE logged' = logged \cup {s} /\ open' = [open EXCEPT ![s] = @ + 1]
  BY <1>1, <1>3 DEF LogTypeOK, CommandTypeOK, StreamsCounted, Ending
<1> QED
  BY <1>1, <1>2, <1>3

LEMMA ShellTypesStay ==
  ASSUME CommandTypeOK, LogTypeOK, [Next]_vars
  PROVE  CommandTypeOK' /\ LogTypeOK'
<1>1. ASSUME UNCHANGED <<logged, open, ending>> PROVE LogTypeOK'
  BY <1>1 DEF LogTypeOK, StreamsCounted, Ending
<1>2. ASSUME NEW s \in Shells, Tool(s) \/ Abort(s)
      PROVE  CommandTypeOK' /\ LogTypeOK'
  <2>1. LogTypeOK'
    BY <1>1, <1>2 DEF Tool, Call, Spawn, SpawnFails, DelayOver, ToolReturns, Abort
  <2>2. CommandTypeOK'
    BY <1>2 DEF CommandTypeOK, Tool, Call, Spawn, SpawnFails, DelayOver, ToolReturns, Abort
  <2> QED
    BY <2>1, <2>2
<1>3. ASSUME NEW s \in Shells, HandleExit(s), UNCHANGED <<ptys, aborted, doomed, tool, timer, late, repeated>>
      PROVE  CommandTypeOK' /\ LogTypeOK'
  <2>1. /\ proc' = [proc EXCEPT ![s] = "gone"] /\ handled' = handled \ {s}
        /\ history' = Exited(s) /\ EndLog(s, "exit") /\ UNCHANGED logged
    BY <1>3 DEF HandleExit
  <2>2. CommandTypeOK'
    BY <1>3, <2>1 DEF CommandTypeOK, Exited
  <2>3. LogTypeOK'
    BY <2>1, LogEndTypes
  <2> QED
    BY <2>2, <2>3
<1>4. ASSUME NEW s \in Shells, Background(s), UNCHANGED tool,
             repeated' \subseteq Shells,
             UNCHANGED timer \/ timer' = [timer EXCEPT ![s] = "fired"]
      PROVE  CommandTypeOK' /\ LogTypeOK'
  <2>1. /\ LogTypeOK' /\ history' \in [Shells -> {"none", "running", "exited"}]
        /\ late' \subseteq Shells
    BY <1>4, BackgroundTypes
  <2>2. UNCHANGED <<proc, ptys, aborted, handled, doomed>>
    BY <1>4 DEF Background
  <2> QED
    BY <1>4, <2>1, <2>2 DEF CommandTypeOK
<1>5. ASSUME NEW s \in Shells, Service(s)
      PROVE  CommandTypeOK' /\ LogTypeOK'
  <2>1. CASE ProcessExits(s) /\ s \in ptys \ aborted
    <3>1. LogTypeOK'
      BY <1>1, <2>1 DEF ProcessExits
    <3> QED
      BY <2>1, <3>1 DEF ProcessExits, CommandTypeOK
  <2>2. CASE ProcessExits(s) /\ s \notin ptys \ aborted
    BY <1>3, <2>2 DEF ProcessExits
  <2>3. CASE Finalize(s)
    BY <1>3, <2>3 DEF Finalize
  <2>4. CASE DelayTimer(s)
    BY <1>4, <2>4 DEF DelayTimer, CommandTypeOK
  <2>5. CASE LogEnded(s)
    <3>1. /\ ending' = ending \ {<<s, "exit">>, <<s, "kill">>}
          /\ logged' = logged \ {s} /\ UNCHANGED open
          /\ doomed' = doomed \cup {s} \/ UNCHANGED doomed
          /\ UNCHANGED <<proc, ptys, aborted, handled, tool, timer, history, late, repeated>>
      BY <2>5 DEF LogEnded
    <3>2. \A x \in logged' : Ending(x)' = Ending(x)
      BY <3>1 DEF Ending
    <3>3. LogTypeOK'
      BY <3>1, <3>2 DEF LogTypeOK, StreamsCounted
    <3> QED
      BY <3>1, <3>3 DEF CommandTypeOK
  <2> QED
    BY <1>5, <2>1, <2>2, <2>3, <2>4, <2>5 DEF Service
<1>6. ASSUME NEW s \in Shells, PressBackground(s)
      PROVE  CommandTypeOK' /\ LogTypeOK'
  <2>1. CASE UNCHANGED shellVars
    BY <1>1, <2>1 DEF shellVars, CommandTypeOK
  <2>2. CASE Background(s) /\ UNCHANGED <<tool, timer>>
             /\ repeated' \in {repeated, repeated \cup {s}}
    BY <1>4, <2>2 DEF CommandTypeOK
  <2> QED
    BY <1>6, <2>1, <2>2 DEF PressBackground
<1>7. ASSUME NEW s \in Shells, Dismiss(s)
      PROVE  CommandTypeOK' /\ LogTypeOK'
  BY <1>1, <1>7 DEF Dismiss, CommandTypeOK
<1>8. ASSUME NEW s \in Shells, Kill(s)
      PROVE  CommandTypeOK' /\ LogTypeOK'
  <2>1. /\ EndLog(s, "kill") /\ UNCHANGED logged
        /\ doomed' = doomed \cup {s} \/ UNCHANGED doomed
        /\ UNCHANGED <<proc, ptys, aborted, handled, tool, timer, history, late, repeated>>
    BY <1>8 DEF Kill
  <2>2. LogTypeOK'
    BY <2>1, LogEndTypes
  <2> QED
    BY <2>1, <2>2 DEF CommandTypeOK
<1>9. CASE UNCHANGED shellVars
  BY <1>1, <1>9 DEF shellVars, CommandTypeOK
<1> QED
  BY <1>2, <1>5, <1>6, <1>7, <1>8, <1>9 DEF Next, User, vars

(* Every variable keeps its type: ending the log of a command that has     *)
(* several open streams never counts below zero (cleanupLogStream).        *)
THEOREM ShellTypes == Spec => []TypeOK
<1> DEFINE Inv == LifecycleTypeOK /\ CommandTypeOK /\ LogTypeOK
<1>1. Init => Inv
  <2> SUFFICES ASSUME Init PROVE Inv
    OBVIOUS
  <2>1. LifecycleTypeOK
    BY DEF Init, LifecycleInit, LifecycleTypeOK, Promises
  <2>2. CommandTypeOK
    BY DEF Init, CommandTypeOK
  <2>3. LogTypeOK
    BY DEF Init, LogTypeOK, StreamsCounted
  <2> QED
    BY <2>1, <2>2, <2>3
<1>2. Inv /\ [Next]_vars => Inv'
  BY OnlyMethods, LifecycleTypes, ShellTypesStay
<1>3. Inv => TypeOK
  BY DEF TypeOK, CommandTypeOK, LogTypeOK
<1> QED
  BY <1>1, <1>2, <1>3, PTL DEF Spec
=============================================================================
