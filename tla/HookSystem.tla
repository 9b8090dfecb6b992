----------------------------- MODULE HookSystem -----------------------------
(***************************************************************************)
(* The hook system: the registry of hooks, the plan of a firing, its run   *)
(* in sequence or in parallel with timeouts, and its verdict.  One firing  *)
(* at a time: firings share nothing but the registry.  Messages, warnings, *)
(* telemetry and the file of trusted hooks (warnings only) are left out.   *)
(***************************************************************************)
EXTENDS HookAggregator, Subsequences

CONSTANTS
  Configured,     \* the hooks of the settings and extensions, as configured
  SourceOf,       \* SourceOf[h]: "runtime", "project" or "extension"
  Functions,      \* hooks that are functions; the others are commands
  KeyOf,          \* KeyOf[h]: its name and command; no name has two commands
  EventsOf,       \* EventsOf[h]: the events it is configured for
  TargetsOf,      \* TargetsOf[h]: the tools or triggers its matcher matches
  Serial,         \* hooks whose definition says sequential
  DisabledKeys,   \* config.getDisabledHooks(), as of the start
  Stubborn,       \* commands that ignore SIGTERM or leave their pipes open
  Occasions,      \* what hooks are fired for: records of event and target
  SaysTo          \* SaysTo[event]: the answers that hooks give to an event

(* A hook that is configured twice is two hooks with one key.              *)
ASSUME HookAssumption ==
  /\ Configured \in Seq(Hooks) /\ IsInjective(Configured)
  /\ Functions \subseteq Hooks /\ Serial \subseteq Hooks
  /\ SourceOf \in [Hooks -> {"runtime", "project", "extension"}]
  /\ \A i \in DOMAIN Configured : SourceOf[Configured[i]] # "runtime"
  /\ Stubborn \subseteq Hooks \ Functions
  /\ \A o \in Occasions : SaysTo[o.event] \subseteq Answers
  /\ NoHook \notin Hooks

VARIABLES
  entries,    \* the registered hooks, in the order of registration
  enabled,    \* those that are enabled
  trusted,    \* whether the folder is trusted
  occasion,   \* what the hooks are, or were last, fired for
  plan,       \* its hooks
  progress,   \* progress[h]: how far h is in this firing
  timedOut,   \* commands whose timer has fired
  killed,     \* child.killed: commands that were sent a signal
  forcing,    \* commands whose second timer runs
  spoken,     \* hooks of this firing that gave an answer
  succeeded,  \* hooks of this firing that succeeded
  answer,     \* answer[h]: what it answered
  input,      \* the hooks whose fields were put into the input, in order
  verdict     \* what the last firing came to

registryVars == <<entries, enabled, trusted>>
processVars  == <<timedOut, killed, forcing>>
resultVars   == <<progress, spoken, succeeded, answer, input, verdict>>
vars == <<registryVars, occasion, plan, processVars, resultVars>>

NoOccasion == [event |-> "none", target |-> "none"]

Pending == {h \in Hooks : progress[h] \in {"waits", "runs", "exited"}}

TypeOK ==
  /\ entries \in Seq(Hooks) /\ plan \in Seq(Hooks) /\ input \in Seq(Hooks)
  /\ enabled \subseteq Hooks /\ trusted \in BOOLEAN
  /\ occasion \in Occasions \cup {NoOccasion}
  /\ progress \in [Hooks -> {"none", "waits", "runs", "exited", "ended"}]
  /\ timedOut \subseteq Hooks /\ killed \subseteq Hooks /\ forcing \subseteq Hooks
  /\ spoken \subseteq Hooks /\ succeeded \subseteq Hooks
  /\ answer \in [Hooks -> Answers] /\ verdict \in Verdicts

-----------------------------------------------------------------------------
(* The registry.                                                           *)

Loaded == Filtered(Configured, {h \in Hooks : SourceOf[h] = "project" => trusted})

EnabledFirst(loaded) == {h \in Range(loaded) : KeyOf[h] \notin DisabledKeys}

Init ==
  /\ trusted \in BOOLEAN
  /\ entries = Loaded
  /\ enabled = EnabledFirst(entries)
  /\ occasion = NoOccasion /\ plan = <<>>
  /\ progress = [h \in Hooks |-> "none"]
  /\ timedOut = {} /\ killed = {} /\ forcing = {}
  /\ spoken = {} /\ succeeded = {} /\ answer = [h \in Hooks |-> Silent]
  /\ input = <<>> /\ verdict = NoVerdict

IsRuntime(h) == SourceOf[h] = "runtime"

Register(h) ==
  /\ IsRuntime(h) /\ h \notin Range(entries)
  /\ entries' = Append(entries, h)
  /\ enabled' = enabled \cup {h}
  /\ UNCHANGED <<trusted, occasion, plan, processVars, resultVars>>

(* Extensions were started or stopped: what is configured is loaded again, *)
(* with the list of disabled hooks of the start.                           *)
Initialize ==
  LET loaded == Loaded
  IN  /\ entries' = Filtered(entries, {h \in Hooks : IsRuntime(h)}) \o loaded
      /\ enabled' = {h \in enabled : IsRuntime(h)} \cup EnabledFirst(loaded)
      /\ UNCHANGED <<trusted, occasion, plan, processVars, resultVars>>

(* /hooks enable and /hooks disable.                                       *)
SetHookEnabled(key, on) ==
  LET named == {h \in Range(entries) : KeyOf[h] = key}
  IN  /\ enabled' = IF on THEN enabled \cup named ELSE enabled \ named
      /\ UNCHANGED <<entries, trusted, occasion, plan, processVars, resultVars>>

(* The IDE reports another trust of the folder.                            *)
TrustChanges ==
  /\ trusted' = ~trusted
  /\ UNCHANGED <<entries, enabled, occasion, plan, processVars, resultVars>>

-----------------------------------------------------------------------------
(* The plan.                                                               *)

From(source) == Filtered(entries, {h \in enabled : SourceOf[h] = source})

HooksForEvent == From("runtime") \o From("project") \o From("extension")

(* The first of the matching hooks with the same key.                      *)
Plan(o) ==
  LET matching == Filtered(HooksForEvent,
        {h \in Hooks : o.event \in EventsOf[h] /\ o.target \in TargetsOf[h]})
      firsts == {i \in DOMAIN matching :
                   \A j \in 1..(i - 1) : KeyOf[matching[j]] # KeyOf[matching[i]]}
  IN  Filtered(matching, {matching[i] : i \in firsts})

Sequential(p) == Range(p) \cap Serial # {}

-----------------------------------------------------------------------------
(* The run.  Between the end of a hook and the start of the next one, or   *)
(* the verdict, nothing else runs, so that they are one step.              *)

(* The second check of trust, when a hook starts.                          *)
Refused(h) == SourceOf[h] = "project" /\ ~trusted

(* In a sequence the waiting hooks up to the first that is not refused     *)
(* take their turn, otherwise all do.                                      *)
Turn(p, at) ==
  LET waiting == {i \in DOMAIN p : at[p[i]] = "waits"}
  IN  {p[i] : i \in {k \in waiting :
                      Sequential(p) => \A j \in waiting : j < k => Refused(p[j])}}

(* The hooks of p go on when at is how far they are, and the answers of    *)
(* those in said are told.                                                 *)
GoOn(o, p, at, said, told) ==
  LET after == [h \in Hooks |-> IF h \notin Turn(p, at) THEN at[h]
                                ELSE IF Refused(h) THEN "ended" ELSE "runs"]
  IN  /\ progress' = after
      /\ verdict' = IF \A h \in Range(p) : after[h] = "ended"
                      THEN Aggregated(o.event, p, said, told) ELSE NoVerdict

FireEvent(o) ==
  /\ Pending = {}
  /\ occasion' = o
  /\ plan' = Plan(o)
  /\ spoken' = {} /\ succeeded' = {} /\ answer' = [h \in Hooks |-> Silent]
  /\ input' = <<>> /\ timedOut' = {} /\ killed' = {} /\ forcing' = {}
  /\ GoOn(o, plan', [h \in Hooks |-> IF h \in Range(plan') THEN "waits" ELSE "none"],
          {}, answer')
  /\ UNCHANGED registryVars

(* Mutant: the fields of a failed hook are put into the input, too.        *)
AppliedAnyway(h, success, a) ==
  IF /\ Sequential(plan) /\ a.edits
     /\ occasion.event \in {"BeforeAgent", "BeforeModel", "BeforeTool"}
    THEN Append(input, h) ELSE input

(* What a successful hook of a sequence adds to the input of the next.     *)
Applied(h, success, a) ==
  IF /\ Sequential(plan) /\ success /\ a.edits
     /\ occasion.event \in {"BeforeAgent", "BeforeModel", "BeforeTool"}
    THEN Append(input, h) ELSE input

(* Hook h ends, with the answers of the set said, which has one or none.   *)
Ends(h, success, said) ==
  LET told == IF said = {} THEN answer
              ELSE [answer EXCEPT ![h] = CHOOSE a \in said : TRUE]
      all  == IF said = {} THEN spoken ELSE spoken \cup {h}
  IN  /\ answer' = told
      /\ spoken' = all
      /\ succeeded' = IF success THEN succeeded \cup {h} ELSE succeeded
      /\ input' = IF said = {} THEN input ELSE Applied(h, success, told[h])
      /\ GoOn(occasion, plan, [progress EXCEPT ![h] = "ended"], all, told)
      /\ forcing' = forcing \ {h}   \* the second timer finds no process
      /\ UNCHANGED <<registryVars, occasion, plan, timedOut, killed>>

Said == {{a} : a \in SaysTo[occasion.event]}

-----------------------------------------------------------------------------
(* Commands.                                                               *)

IsCommand(h) == h \notin Functions

(* The process cannot be spawned.                                          *)
CannotSpawn(h) == IsCommand(h) /\ progress[h] = "runs" /\ h \notin killed /\ Ends(h, FALSE, {})

(* The process exits; what it started may still hold its pipes.            *)
Exits(h) ==
  /\ IsCommand(h) /\ progress[h] = "runs"
  /\ progress' = [progress EXCEPT ![h] = "exited"]
  /\ UNCHANGED <<registryVars, occasion, plan, processVars, spoken, succeeded,
                 answer, input, verdict>>

(* Its pipes are closed: the exit code and the output become the result.   *)
(* JSON counts whatever the code is, no output or JSON that is no object   *)
(* says nothing; an end by a signal is no code.                            *)
Closes(h) ==
  /\ IsCommand(h) /\ progress[h] = "exited"
  /\ IF h \in timedOut THEN Ends(h, FALSE, {})
     ELSE \E code \in {"ok", "error", "block", "signal"} :
            \E said \in {{}, {PlainText(code)}} \cup Said :
              Ends(h, code = "ok", said)

(* The timer of h fires: SIGTERM, which finds the process or not.          *)
TimesOut(h) ==
  /\ IsCommand(h) /\ progress[h] \in {"runs", "exited"} /\ h \notin timedOut
  /\ timedOut' = timedOut \cup {h}
  /\ killed' = IF progress[h] = "runs" THEN killed \cup {h} ELSE killed
  /\ forcing' = forcing \cup {h}
  /\ UNCHANGED <<registryVars, occasion, plan, resultVars>>

(* Five seconds later: SIGKILL, but only when no signal was sent before.   *)
ForceKill(h) ==
  /\ h \in forcing
  /\ forcing' = forcing \ {h}
  /\ progress' = [progress EXCEPT ![h] =
       IF h \notin killed /\ @ = "runs" THEN "exited" ELSE @]
  /\ UNCHANGED <<registryVars, occasion, plan, timedOut, killed, spoken, succeeded,
                 answer, input, verdict>>

-----------------------------------------------------------------------------
(* Functions.  One that has timed out may go on; nobody listens to it.     *)

Runs(h) == h \in Functions /\ progress[h] = "runs"

Returns(h) == Runs(h) /\ \E said \in {{}} \cup Said : Ends(h, TRUE, said)

Throws(h) == Runs(h) /\ Ends(h, FALSE, {})

(* Mutant: the timeout only aborts the signal that the function was given. *)
NotRaced(h) == FALSE

(* The timeout wins the race.                                              *)
Raced(h) == Runs(h) /\ Ends(h, FALSE, {})

-----------------------------------------------------------------------------

Registry ==
  \/ \E h \in Hooks : Register(h)
  \/ Initialize
  \/ \E key \in {KeyOf[h] : h \in Hooks}, on \in BOOLEAN : SetHookEnabled(key, on)
  \/ TrustChanges

Runner(h) ==
  \/ CannotSpawn(h) \/ Exits(h) \/ Closes(h) \/ TimesOut(h) \/ ForceKill(h)
  \/ Returns(h) \/ Throws(h) \/ Raced(h)

Next ==
  \/ Registry
  \/ \E o \in Occasions : FireEvent(o)
  \/ \E h \in Hooks : Runner(h)

Spec == Init /\ [][Next]_vars

(* Timers fire.  A command that is not stubborn exits when it is told to,  *)
(* and its pipes are closed when it has exited.  Nothing makes a hook end  *)
(* by itself.                                                              *)
Fairness == \A h \in Hooks :
  /\ WF_vars(TimesOut(h)) /\ WF_vars(ForceKill(h)) /\ WF_vars(Raced(h))
  /\ h \notin Stubborn => WF_vars(h \in killed /\ Exits(h)) /\ WF_vars(Closes(h))

FairSpec == Spec /\ Fairness
=============================================================================
