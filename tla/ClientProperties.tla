-------------------------- MODULE ClientProperties --------------------------
(* What is promised of a conversation.                                     *)
EXTENDS ClientTurns

Answers == {i \in DOMAIN history : history[i].kind = "answer"}
WithCalls == {i \in Answers : CallsOf(history[i].parts) # {}}

(* An answer is to the conversation recorded before it: since its request, *)
(* no message of another sender was sent and no other answer was recorded  *)
(* (sendPromise).  Context and results of cancelled tools, which are added *)
(* by hand, may stand in between.                                          *)
AnswersItsHistory ==
  \A i \in Answers :
    /\ \A j \in history[i].after + 1 .. i - 1 : history[j].kind \in {"context", "responses"}
    /\ \E j \in 1..history[i].after : history[j].by = history[i].by

(* In what one sender says, tool calls of the model are followed by their  *)
(* results, unless the consumer has dropped them or was never shown a call *)
(* for a hook, and no context is put in between by anyone (processTurn,    *)
(* hasPendingToolCall).                                                    *)
CallsAreAnswered ==
  \A i \in WithCalls : i < Len(history) =>
    LET answered == CallsOf(history[i].parts)
        said(j) == {k \in i + 1 .. j : history[k].by = history[i].by}
    IN  /\ history[i + 1].kind # "context"
        /\ \/ answered \cap dropped # {}
           \/ \A j \in i + 1 .. Len(history) : said(j) = {j} =>
                history[j].kind = "responses" /\ answered \subseteq Range(history[j].parts)

(* Every prompt ends: whatever breaks, loops, is aborted or goes on by     *)
(* itself, the sender gets the floor again and nobody waits for ever for   *)
(* the stream of another.                                                  *)
EveryPromptEnds == \A s \in Senders : run[s] # "idle" ~> run[s] = "idle"
=============================================================================
