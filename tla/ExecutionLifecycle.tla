------------------------- MODULE ExecutionLifecycle -------------------------
(***************************************************************************)
(* ExecutionLifecycleService: the registry of what is being executed, of   *)
(* the promises of those who wait for it, and of who listens for its end.  *)
(* An operator is one method, called synchronously by the shell service,   *)
(* by tools and by the interface; a call that finds no execution does      *)
(* nothing.  Ids are those of processes or are counted up; here an id      *)
(* names one execution.                                                    *)
(***************************************************************************)
EXTENDS Naturals

CONSTANTS
  Executions,   \* everything that is ever executed
  Virtual,      \* executions that are not processes (agents, extraction)
  Injecting,    \* executions with a format and a behaviour other than silent
  Watchers,     \* callbacks given to onExit
  WatchOf       \* WatchOf[w]: the execution that w asks about

ASSUME LifecycleAssumption ==
  /\ Virtual \subseteq Executions
  /\ WatchOf \in [Watchers -> Executions]

VARIABLES
  active,        \* activeExecutions
  backgrounded,  \* executions whose record has the flag
  resolvers,     \* activeResolvers: executions whose promise can be resolved
  promise,       \* promise[e]: what the starter has got
  listeners,     \* activeListeners: watchers that will hear the exit event
  exitInfo,      \* exitedExecutionInfo
  injections,    \* injections[e]: injected completions of e
  fate,          \* history: how e was settled
  watch,         \* watch[w]: what has become of the request of w
  heard          \* heard[w]: calls of the callback

lifecycleVars == <<active, backgrounded, resolvers, promise, listeners,
                   exitInfo, injections, fate, watch, heard>>

Promises == {"none", "pending", "backgrounded", "completed", "aborted"}

LifecycleTypeOK ==
  /\ active \subseteq Executions
  /\ backgrounded \subseteq Executions
  /\ resolvers \subseteq Executions
  /\ promise \in [Executions -> Promises]
  /\ listeners \subseteq Watchers
  /\ exitInfo \subseteq Executions
  /\ injections \in [Executions -> Nat]
  /\ fate \in [Executions -> {"none", "completed", "aborted"}]
  /\ watch \in [Watchers -> {"unasked", "early", "late", "withdrawn"}]
  /\ heard \in [Watchers -> Nat]

LifecycleInit ==
  /\ active = {} /\ backgrounded = {} /\ resolvers = {}
  /\ promise = [e \in Executions |-> "none"]
  /\ listeners = {} /\ exitInfo = {}
  /\ injections = [e \in Executions |-> 0]
  /\ fate = [e \in Executions |-> "none"]
  /\ watch = [w \in Watchers |-> "unasked"]
  /\ heard = [w \in Watchers |-> 0]

Attach(e) ==
  /\ e \notin active \cup resolvers
  /\ promise[e] = "none"
  /\ active' = active \cup {e}
  /\ resolvers' = resolvers \cup {e}
  /\ promise' = [promise EXCEPT ![e] = "pending"]
  /\ exitInfo' = exitInfo \ {e}
  /\ UNCHANGED <<backgrounded, listeners, injections, fate, watch, heard>>

-----------------------------------------------------------------------------

(* A resolver resolves its promise, and only its first call counts.        *)
ResolvedWith(e, answer) ==
  IF e \in resolvers /\ promise[e] = "pending"
    THEN [promise EXCEPT ![e] = answer] ELSE promise

(* Mutant: the exit event goes out after the listeners were dropped.       *)
ToldNobody(e) == {}

(* The watchers that hear the exit event of e.                             *)
Told(e) == {w \in listeners : WatchOf[w] = e}

(* Mutant: the reason of the end is not looked at.                         *)
InjectsKilledToo(e, aborted) == e \in backgrounded /\ e \in Injecting

(* Completions in the background reach the conversation unless aborted.    *)
Injects(e, aborted) == e \in backgrounded /\ ~aborted /\ e \in Injecting

Settle(e, aborted) ==
  LET end == IF aborted THEN "aborted" ELSE "completed" IN
  IF e \notin active THEN UNCHANGED lifecycleVars
  ELSE /\ injections' = IF Injects(e, aborted)
                          THEN [injections EXCEPT ![e] = @ + 1] ELSE injections
       /\ fate' = [fate EXCEPT ![e] = end]
       /\ promise' = ResolvedWith(e, end)
       /\ resolvers' = resolvers \ {e}
       /\ heard' = [w \in Watchers |->
                      IF w \in Told(e) THEN heard[w] + 1 ELSE heard[w]]
       /\ listeners' = {w \in listeners : WatchOf[w] # e}
       /\ active' = active \ {e}
       /\ exitInfo' = exitInfo \cup {e}
       /\ UNCHANGED <<backgrounded, watch>>

CanBackground(e) == e \in resolvers /\ e \in active

MoveToBackground(e) ==
  IF ~CanBackground(e) THEN UNCHANGED lifecycleVars
  ELSE /\ promise' = ResolvedWith(e, "backgrounded")
       /\ resolvers' = resolvers \ {e}
       /\ backgrounded' = backgrounded \cup {e}
       /\ UNCHANGED <<active, listeners, exitInfo, injections, fate, watch, heard>>

-----------------------------------------------------------------------------

OnExit(w) ==
  LET e == WatchOf[w] IN
  /\ watch[w] = "unasked"
  /\ IF e \in active
       THEN /\ watch' = [watch EXCEPT ![w] = "early"]
            /\ listeners' = listeners \cup {w}
            /\ UNCHANGED heard
       ELSE /\ watch' = [watch EXCEPT ![w] = "late"]
            /\ heard' = IF e \in exitInfo
                          THEN [heard EXCEPT ![w] = @ + 1] ELSE heard
            /\ UNCHANGED listeners
  /\ UNCHANGED <<active, backgrounded, resolvers, promise, exitInfo, injections, fate>>

Unsubscribe(w) ==
  /\ w \in listeners
  /\ listeners' = listeners \ {w}
  /\ watch' = [watch EXCEPT ![w] = "withdrawn"]
  /\ UNCHANGED <<active, backgrounded, resolvers, promise, exitInfo,
                 injections, fate, heard>>

(* The timer of storeExitInfo.                                             *)
ExitInfoExpires(e) ==
  /\ e \in exitInfo
  /\ exitInfo' = exitInfo \ {e}
  /\ UNCHANGED <<active, backgrounded, resolvers, promise, listeners,
                 injections, fate, watch, heard>>

(* A virtual execution is created, moved to the background, completes, or  *)
(* is killed from the interface.                                           *)
Create(e) == e \in Virtual /\ Attach(e)

BackgroundVirtual(e) == e \in Virtual /\ CanBackground(e) /\ MoveToBackground(e)

CompleteVirtual(e) == e \in Virtual \cap active /\ Settle(e, FALSE)

KillVirtual(e) == e \in Virtual \cap active /\ Settle(e, TRUE)

Lifecycle ==
  \/ \E e \in Executions :
       \/ Create(e) \/ BackgroundVirtual(e) \/ CompleteVirtual(e) \/ KillVirtual(e)
       \/ ExitInfoExpires(e)
  \/ \E w \in Watchers : OnExit(w) \/ Unsubscribe(w)

=============================================================================
