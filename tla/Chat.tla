-------------------------------- MODULE Chat --------------------------------
(***************************************************************************)
(* The chat with the model, DeepSeekChat.  A message waits for the stream  *)
(* of the message before it, is added to the history, and is sent with all *)
(* the history so far; the parts of the answer are shown as they arrive    *)
(* and recorded at the end of a valid stream.  A stream that breaks or     *)
(* ends with invalid content is tried again.  What happens until a stream  *)
(* begins is the subject of ModelCalls.                                    *)
(***************************************************************************)
EXTENDS Naturals, SequencesExt

CONSTANTS
  Senders,      \* those who send messages through one chat
  Nobody,
  MaxAttempts,  \* of a message (MID_STREAM_RETRY_OPTIONS)
  MaxParts,     \* bound: parts of an answer
  MaxCalls      \* bound: tool calls, each with an id of its own

ASSUME ChatAssumption ==
  /\ IsFiniteSet(Senders) /\ Nobody \notin Senders
  /\ MaxAttempts \in Nat \ {0} /\ MaxParts \in Nat /\ MaxCalls \in Nat

VARIABLES
  history,  \* the entries of the conversation
  tail,     \* whose stream sendPromise stands for
  behind,   \* behind[s]: whose stream s waits for
  outbox,   \* the message being prepared or sent
  phase,    \* of the stream
  request,  \* the length of the history that was sent
  attempt,
  got,      \* parts of the answer so far
  finish,   \* whether it has a good finishReason
  result,   \* how the stream ended, until the sender has seen it
  calls     \* tool calls so far

streamVars == <<history, tail, behind, phase, request, attempt, got, finish, result, calls>>
chatVars == <<outbox, streamVars>>

Kinds == {"prompt", "responses", "continue", "feedback", "context", "answer"}
Parts == 0..MaxCalls  \* text, or a tool call
Entries == [by : Senders, kind : Kinds, parts : Seq(Parts), after : Nat]
Message(s, kind, parts) == [by |-> s, kind |-> kind, parts |-> parts, after |-> 0]

Results == {"none", "done", "invalid", "error", "blocked"}

ChatTypeOK ==
  /\ history \in Seq(Entries) /\ tail \in Senders \cup {Nobody}
  /\ behind \in [Senders -> Senders \cup {Nobody}]
  /\ outbox \in [Senders -> Entries]
  /\ phase \in [Senders -> {"idle", "queued", "connecting", "streaming", "pausing"}]
  /\ request \in [Senders -> Nat] /\ attempt \in [Senders -> 0..MaxAttempts]
  /\ got \in [Senders -> Seq(Parts)]
  /\ finish \in [Senders -> BOOLEAN]
  /\ result \in [Senders -> Results] /\ calls \in 0..MaxCalls

ChatInit ==
  /\ history = <<>> /\ tail = Nobody /\ behind = [s \in Senders |-> Nobody]
  /\ outbox = [s \in Senders |-> Message(s, "prompt", <<>>)]
  /\ phase = [s \in Senders |-> "idle"] /\ request = [s \in Senders |-> 0]
  /\ attempt = [s \in Senders |-> 0] /\ calls = 0
  /\ got = [s \in Senders |-> <<>>]
  /\ finish = [s \in Senders |-> FALSE] /\ result = [s \in Senders |-> "none"]

CallsOf(parts) == Range(parts) \ {0}

-----------------------------------------------------------------------------
(* One stream after the other: sendMessageStream.                          *)

(* Mutant: nobody waits.                                                   *)
NobodyAhead == TRUE

Free == tail = Nobody

(* The message of s is recorded and sent, or waits for its turn.           *)
Send(s) ==
  /\ attempt' = [attempt EXCEPT ![s] = 1]
  /\ IF Free
     THEN /\ history' = Append(history, outbox[s])
          /\ request' = [request EXCEPT ![s] = Len(history) + 1]
          /\ phase' = [phase EXCEPT ![s] = "connecting"]
          /\ tail' = s /\ UNCHANGED behind
     ELSE /\ behind' = [behind EXCEPT ![s] = tail]
          /\ phase' = [phase EXCEPT ![s] = "queued"]
          /\ UNCHANGED <<history, request, tail>>
  /\ UNCHANGED <<got, finish, result, calls>>

(* Mutant: the stream of a consumer that goes away is not released.        *)
FreedUnlessLeft(s, how) ==
  IF how = "none" THEN {} ELSE {w \in Senders : behind[w] = s}

(* Those who wait for the stream of s.                                     *)
Freed(s, how) == {w \in Senders : behind[w] = s}

(* The stream of s is over, with the answer recorded; all who wait for it  *)
(* send their messages before anything else happens.                       *)
End(s, how, answer) ==
  \E next \in SetToSeqs(Freed(s, how)) :
    LET recorded == history \o answer
    IN  /\ history' = recorded \o [i \in DOMAIN next |-> outbox[next[i]]]
        /\ phase' = [w \in Senders |-> IF w = s THEN "idle"
                     ELSE IF w \in Range(next) THEN "connecting" ELSE phase[w]]
        /\ request' = [w \in Senders |-> IF w \in Range(next)
                         THEN Len(recorded) + (CHOOSE i \in DOMAIN next : next[i] = w)
                         ELSE IF w = s THEN 0 ELSE request[w]]
        /\ behind' = [w \in Senders |-> IF w \in Range(next) THEN Nobody ELSE behind[w]]
        /\ tail' = IF next # <<>> THEN Last(next) ELSE IF tail = s THEN Nobody ELSE tail
        /\ result' = [result EXCEPT ![s] = how]
        /\ got' = [got EXCEPT ![s] = <<>>] /\ finish' = [finish EXCEPT ![s] = FALSE]
        /\ attempt' = [attempt EXCEPT ![s] = 0]
        /\ UNCHANGED <<calls>>

-----------------------------------------------------------------------------
(* The stream of an answer: streamWithRetries, processStreamResponse.      *)

Connect(s) ==
  /\ phase[s] = "connecting" /\ phase' = [phase EXCEPT ![s] = "streaming"]
  /\ UNCHANGED <<history, tail, behind, request, attempt, got, finish, result, calls>>

(* Parts of a text that follow each other are one part.                    *)
Part(s, part) ==
  /\ phase[s] = "streaming" /\ Len(got[s]) < MaxParts
  /\ part \in {0, calls + 1} /\ ~(part = 0 /\ IsSuffix(<<0>>, got[s]))
  /\ got' = [got EXCEPT ![s] = Append(@, part)]
  /\ calls' = IF part = 0 THEN calls ELSE part
  /\ UNCHANGED <<history, tail, behind, phase, request, attempt, finish, result>>

Finishes(s) ==
  /\ phase[s] = "streaming" /\ ~finish[s]
  /\ finish' = [finish EXCEPT ![s] = TRUE]
  /\ UNCHANGED <<history, tail, behind, phase, request, attempt, got, result,
                 calls>>

(* A tool call, or text and a good reason to finish.                       *)
Valid(s) ==
  \/ CallsOf(got[s]) # {}
  \/ 0 \in Range(got[s]) /\ finish[s]

Answer(s) == [by |-> s, kind |-> "answer", parts |-> got[s], after |-> request[s]]

(* The stream ends.                                                        *)
Complete(s) == phase[s] = "streaming" /\ Valid(s) /\ End(s, "done", <<Answer(s)>>)

Pause(s) ==
  /\ phase' = [phase EXCEPT ![s] = "pausing"]
  /\ got' = [got EXCEPT ![s] = <<>>] /\ finish' = [finish EXCEPT ![s] = FALSE]
  /\ UNCHANGED <<history, tail, behind, request, attempt, result, calls>>

(* It ended too early or with invalid content.                             *)
Invalid(s) ==
  /\ phase[s] = "streaming" /\ ~Valid(s)
  /\ IF attempt[s] < MaxAttempts THEN Pause(s) ELSE End(s, "invalid", <<>>)

(* It breaks, by an error that may go away or another.                     *)
Break(s) ==
  /\ phase[s] = "streaming"
  /\ \/ attempt[s] < MaxAttempts /\ Pause(s)
     \/ End(s, "error", <<>>)

(* RETRY: the consumers keep what the failed attempt gave them.            *)
Retry(s) ==
  /\ phase[s] = "pausing" /\ phase' = [phase EXCEPT ![s] = "connecting"]
  /\ attempt' = [attempt EXCEPT ![s] = @ + 1]
  /\ UNCHANGED <<history, tail, behind, request, got, finish, result, calls>>

(* No stream could be had, or a hook stops or blocks the answer.           *)
Fail(s) == phase[s] = "connecting" /\ End(s, "error", <<>>)
HookEnds(s) ==
  /\ phase[s] \in {"connecting", "streaming"}
  /\ \E how \in {"error", "blocked"} : End(s, how, <<>>)

(* The consumer takes no more events.                                      *)
Leave(s) == phase[s] = "streaming" /\ End(s, "none", <<>>)

=============================================================================
