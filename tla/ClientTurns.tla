---------------------------- MODULE ClientTurns ----------------------------
(***************************************************************************)
(* The turns of a prompt: DeepSeekClient.sendMessageStream() sends it to   *)
(* the chat, watches the events for loops, and calls itself when the model *)
(* is to go on; the consumer of the events runs the tools that the model   *)
(* calls and sends their results as the next message.  The consumer is the *)
(* user interface, an AgentSession, or the A2A server, which processes a   *)
(* second message while the first is under way.                            *)
(***************************************************************************)
EXTENDS Chat

CONSTANTS
  Main,       \* the sender that runs tools; the others are side messages
  MaxTurns,   \* turns of a prompt of Main (MAX_TURNS)
  SideTurns,  \* bound: of the others
  MaxPrompts  \* bound: prompts

ASSUME TurnsAssumption ==
  Main \in Senders /\ MaxTurns \in Nat /\ SideTurns \in 0..MaxTurns /\ MaxPrompts \in Nat

TurnsOf(s) == IF s = Main THEN MaxTurns ELSE SideTurns

VARIABLES
  consumer,  \* who consumes the events of Main
  run,       \* where sendMessageStream is
  bound,     \* boundedTurns
  again,     \* isInvalidStreamRetry
  pending,   \* pendingToolCalls of the turn
  asked,     \* toolCallRequests that the consumer has collected
  aborted,
  lastPrompt,       \* whose prompt the loop detector is set to
  detected, count,  \* loopDetected, detectedCount
  prompts,   \* history: prompts so far
  dropped    \* history: calls whose results are lost

clientVars == <<consumer, run, bound, again, pending, asked, aborted,
                lastPrompt, detected, count, prompts, dropped>>
vars == <<chatVars, clientVars>>

TypeOK ==
  /\ ChatTypeOK
  /\ consumer \in {"ui", "session", "a2a"}
  /\ run \in [Senders -> {"idle", "entering", "routing", "sending", "tools"}]
  /\ bound \in [Senders -> 0..MaxTurns] /\ again \in [Senders -> BOOLEAN]
  /\ pending \in [Senders -> SUBSET Parts] /\ asked \in [Senders -> SUBSET Parts]
  /\ aborted \subseteq Senders /\ lastPrompt \in Senders \cup {Nobody}
  /\ detected \in BOOLEAN /\ count \in 0..2
  /\ prompts \in 0..MaxPrompts /\ dropped \subseteq Parts

Init ==
  /\ ChatInit
  /\ consumer \in {"ui", "session", "a2a"}
  /\ run = [s \in Senders |-> "idle"]
  /\ bound = [s \in Senders |-> 0] /\ again = [s \in Senders |-> FALSE]
  /\ pending = [s \in Senders |-> {}] /\ asked = [s \in Senders |-> {}]
  /\ aborted = {} /\ lastPrompt = Nobody /\ detected = FALSE /\ count = 0
  /\ prompts = 0 /\ dropped = {}

Goes(s, to) == run' = [run EXCEPT ![s] = to]
loopVars == <<lastPrompt, detected, count>>

-----------------------------------------------------------------------------
(* Calls of sendMessageStream and their end.                               *)

(* sendMessageStream for a request; a call of its own has one turn less.   *)
Request(s, kind, parts, turns, retry) ==
  /\ Goes(s, "entering")
  /\ outbox' = [outbox EXCEPT ![s] = Message(s, kind, parts)]
  /\ bound' = [bound EXCEPT ![s] = turns] /\ again' = [again EXCEPT ![s] = retry]

Prompt(s) ==
  /\ run[s] = "idle" /\ prompts < MaxPrompts /\ (s # Main => consumer = "a2a")
  /\ Request(s, "prompt", <<>>, TurnsOf(s), FALSE)
  /\ prompts' = prompts + 1
  /\ aborted' = aborted \ {s}
  /\ lastPrompt' = IF lastPrompt = s THEN Nobody ELSE lastPrompt
  /\ UNCHANGED <<streamVars, consumer, pending, asked, detected, count, dropped>>

LessBound(s) == bound[s] - 1

(* The results in the request, which are lost if it is not sent.           *)
Unsent(s) == CallsOf(outbox[s].parts)

Recurse(s, kind, retry, lost) ==
  /\ Request(s, kind, <<>>, LessBound(s), retry)
  /\ pending' = [pending EXCEPT ![s] = {}]
  /\ dropped' = dropped \cup lost /\ UNCHANGED asked

(* Whether the consumer runs the tools called so far when the turns end.   *)
RunsTools(s, how) ==
  /\ s = Main /\ asked[s] # {}
  /\ consumer = "ui" \/ s \notin aborted
  /\ consumer = "session" => how \notin {"error", "invalid"}

(* The generator has ended.                                                *)
Over(s, how, lost) ==
  /\ bound' = [bound EXCEPT ![s] = 0] /\ again' = [again EXCEPT ![s] = FALSE]
  /\ outbox' = [outbox EXCEPT ![s] = Message(s, "prompt", <<>>)]
  /\ pending' = [pending EXCEPT ![s] = {}]
  /\ IF RunsTools(s, how)
     THEN Goes(s, "tools") /\ UNCHANGED asked /\ dropped' = dropped \cup lost
     ELSE /\ Goes(s, "idle") /\ dropped' = dropped \cup asked[s] \cup lost
          /\ asked' = [asked EXCEPT ![s] = {}]

-----------------------------------------------------------------------------
(* A turn: processTurn.                                                    *)

LastHasCall == history # <<>> /\ Last(history).kind = "answer"
               /\ CallsOf(Last(history).parts) # {}

(* Mutant: the context of the IDE is added at once.                        *)
ContextAnytime(s) == Append(history, Message(s, "context", <<>>))

(* The context of the IDE is added if the model does not wait for results. *)
WithContext(s) ==
  IF LastHasCall THEN history ELSE Append(history, Message(s, "context", <<>>))

(* The A2A server is not used from an IDE.  Bound: one context.            *)
Contexts(s) ==
  IF consumer = "a2a" \/ \E i \in DOMAIN history : history[i].kind = "context"
  THEN {} ELSE {WithContext(s)}

(* A new prompt resets the loop detector.                                  *)
ResetDetector(s) ==
  IF lastPrompt = s THEN UNCHANGED loopVars
  ELSE lastPrompt' = s /\ detected' = FALSE /\ count' = 0

(* The turn ends at once if there are no turns left, or no room for the    *)
(* request.                                                                *)
BeginTurn(s) ==
  /\ run[s] = "entering" /\ ResetDetector(s)
  /\ \/ Over(s, "left", Unsent(s)) /\ UNCHANGED history
     \/ /\ bound[s] > 0
        /\ Goes(s, "routing") /\ history' \in {history} \cup Contexts(s)
        /\ UNCHANGED <<outbox, bound, again, pending, asked, dropped>>
  /\ UNCHANGED <<tail, behind, phase, request, attempt, got, finish,
                 result, calls, consumer, aborted, prompts>>

CountKept(n) == n

(* The n-th detection of a loop: the first is told to the model, if there  *)
(* are turns left, the second ends the prompt.                             *)
OnLoop(s, n, lost) ==
  /\ UNCHANGED lastPrompt
  /\ IF n > 1 \/ bound[s] <= 1
     THEN Over(s, "left", lost) /\ detected' = TRUE /\ count' = n
     ELSE /\ Recurse(s, "feedback", again[s], lost)
          /\ detected' = FALSE /\ count' = CountKept(n)

(* turnStarted: a loop was detected before, or a model finds one after     *)
(* some turns.  The request is not sent.                                   *)
LoopAtStart(s) ==
  /\ run[s] = "routing" /\ (outbox[s].kind # "prompt" \/ detected)
  /\ OnLoop(s, IF detected THEN count ELSE count + 1, Unsent(s))
  /\ UNCHANGED <<streamVars, consumer, aborted, prompts>>

SendMessage(s) ==
  /\ run[s] = "routing" /\ ~detected
  /\ Send(s) /\ Goes(s, "sending")
  /\ UNCHANGED <<outbox, consumer, bound, again, pending, asked, aborted, loopVars,
                 prompts, dropped>>

-----------------------------------------------------------------------------
(* The events of a stream.                                                 *)

(* The consumer is given the part that is recorded, or the text that an    *)
(* AfterModel hook puts in its place: a call replaced so is recorded, but  *)
(* nobody runs it.                                                         *)
SeePart(s) ==
  /\ s \notin aborted
  /\ \E part \in Parts : \E seen \in {0, part} :
       /\ Part(s, part)
       /\ pending' = [pending EXCEPT ![s] = @ \cup ({seen} \ {0})]
       /\ asked' = [asked EXCEPT ![s] = @ \cup ({seen} \ {0})]
       /\ dropped' = dropped \cup ({part} \ {0, seen})
  /\ UNCHANGED <<outbox, consumer, run, bound, again, aborted, loopVars, prompts>>

(* A part that repeats others is not given to the consumer.                *)
SeeLoop(s) ==
  /\ s \notin aborted /\ Leave(s)
  /\ OnLoop(s, IF detected THEN count ELSE count + 1, {})
  /\ UNCHANGED <<consumer, aborted, prompts>>

SeeFinish(s) ==
  /\ s \notin aborted /\ (consumer = "session" => asked[s] # {})
  /\ Finishes(s)
  /\ UNCHANGED <<outbox, clientVars>>

(* An AgentSession ends its stream with the event Finished, if the model   *)
(* called no tool.                                                         *)
SessionFinishes(s) ==
  /\ s \notin aborted /\ consumer = "session" /\ asked[s] = {}
  /\ Leave(s) /\ Over(s, "finished", {})
  /\ UNCHANGED <<consumer, aborted, loopVars, prompts>>

SeeAbort(s) ==
  /\ s \in aborted /\ Leave(s) /\ Over(s, "left", {})
  /\ UNCHANGED <<consumer, aborted, loopVars, prompts>>

Stream(s) ==
  /\ \/ Connect(s) \/ Complete(s) \/ Invalid(s) \/ Break(s) \/ Retry(s)
     \/ Fail(s) \/ HookEnds(s)
  /\ UNCHANGED <<outbox, clientVars>>

Streamed(s, how) ==
  /\ run[s] = "sending" /\ phase[s] = "idle" /\ result[s] \in how
  /\ result' = [result EXCEPT ![s] = "none"]
  /\ UNCHANGED <<history, tail, behind, phase, request, attempt, got, finish,
                 calls>>

(* An invalid answer: the model is asked to continue, once.                *)
GoOnAfterInvalid(s) ==
  /\ Streamed(s, {"invalid"}) /\ s \notin aborted /\ ~again[s] /\ consumer # "session"
  /\ Recurse(s, "continue", TRUE, {})
  /\ UNCHANGED <<consumer, aborted, loopVars, prompts>>

(* checkNextSpeaker: the model goes on after results, and perhaps after an *)
(* answer of its own.  The A2A server skips the check.                     *)
SpeaksNext(s) ==
  /\ Streamed(s, {"done", "blocked", "invalid"}) /\ s \notin aborted /\ pending[s] = {}
  /\ consumer # "a2a" /\ (result[s] = "invalid" => consumer # "session")
  /\ Last(history).kind \in {"responses", "answer"}
  /\ Recurse(s, "continue", FALSE, {})
  /\ UNCHANGED <<consumer, aborted, loopVars, prompts>>

StopAfterStream(s) ==
  /\ Streamed(s, Results \ {"none"}) /\ Over(s, result[s], {})
  /\ UNCHANGED <<consumer, aborted, loopVars, prompts>>

-----------------------------------------------------------------------------
(* The consumer runs the tools.                                            *)

Responses(s) == Message(s, "responses", SetToSeq(asked[s]))

(* Their results are the next message.                                     *)
Respond(s) ==
  /\ run[s] = "tools" /\ s \notin aborted
  /\ Request(s, "responses", SetToSeq(asked[s]), MaxTurns, FALSE)
  /\ asked' = [asked EXCEPT ![s] = {}]
  /\ UNCHANGED <<streamVars, consumer, pending, aborted, loopVars, prompts, dropped>>

(* All were cancelled: that is only recorded.                              *)
RecordCancelled(s) ==
  /\ run[s] = "tools" /\ consumer # "session"
  /\ Goes(s, "idle") /\ history' = Append(history, Responses(s))
  /\ asked' = [asked EXCEPT ![s] = {}]
  /\ UNCHANGED <<tail, behind, outbox, phase, request, attempt, got, finish,
                 result, calls, consumer, bound, again, pending, aborted, loopVars,
                 prompts, dropped>>

(* A tool stops the agent, the model was switched, or the session or the   *)
(* task is aborted: the results are dropped.                               *)
DropResults(s) ==
  /\ run[s] = "tools"
  /\ Goes(s, "idle") /\ dropped' = dropped \cup asked[s]
  /\ asked' = [asked EXCEPT ![s] = {}]
  /\ UNCHANGED <<chatVars, consumer, bound, again, pending, aborted, loopVars,
                 prompts>>

Abort(s) ==
  /\ run[s] # "idle" /\ aborted' = aborted \cup {s}
  /\ UNCHANGED <<chatVars, consumer, run, bound, again, pending, asked, loopVars,
                 prompts, dropped>>

(* The network, the tools and the CLI itself do not stop.                  *)
Progress(s) ==
  \/ BeginTurn(s) \/ LoopAtStart(s) \/ SendMessage(s)
  \/ SeePart(s) \/ SeeLoop(s) \/ SeeFinish(s) \/ SessionFinishes(s) \/ SeeAbort(s)
  \/ Stream(s) \/ GoOnAfterInvalid(s) \/ SpeaksNext(s) \/ StopAfterStream(s)
  \/ Respond(s) \/ RecordCancelled(s) \/ DropResults(s)

Next == \E s \in Senders : Prompt(s) \/ Progress(s) \/ Abort(s)

Spec == Init /\ [][Next]_vars /\ \A s \in Senders : WF_vars(Progress(s))

=============================================================================
