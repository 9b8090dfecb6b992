----------------------------- MODULE MessageBus -----------------------------
(***************************************************************************)
(* MessageBus as tools use it to ask for a decision: a tool subscribes to  *)
(* responses, publishes a confirmation request with an id of its own, and  *)
(* takes the response with that id, the abort of its call or a timeout,    *)
(* whichever comes first.  The bus has the policy engine check the request *)
(* and responds; a question to the user comes back as a response as well,  *)
(* from the bus or from the scheduler that listens to requests.            *)
(***************************************************************************)
EXTENDS PolicyEngine

CONSTANT Requests   \* decisions that tools ask for

ASSUME BusAssumption == "confirmation" \notin Requests

VARIABLES
  asked,     \* requests that tools have made
  check,     \* check[r]: what the running check of r may answer
  handlers,  \* requests whose response handler is subscribed
  answer     \* answer[r]: what the tool was told

busVars == <<asked, check, handlers, answer>>

BusTypeOK ==
  /\ asked \subseteq Requests
  /\ check \in [Requests -> SUBSET Decisions]
  /\ handlers \subseteq Requests
  /\ answer \in [Requests -> Decisions \cup {"none"}]

BusInit ==
  /\ asked = {}
  /\ check = [r \in Requests |-> {}]
  /\ handlers = {}
  /\ answer = [r \in Requests |-> "none"]

(* A tool whose call was aborted already does not ask.  The rules are read *)
(* when the request is published; the safety checkers take their time.     *)
Ask(r, c) ==
  /\ r \notin asked
  /\ asked' = asked \cup {r}
  /\ \/ /\ answer' = [answer EXCEPT ![r] = "deny"]
        /\ UNCHANGED <<check, handlers>>
     \/ /\ handlers' = handlers \cup {r}
        /\ check' = [check EXCEPT ![r] = Checks(rules, mode, c)]
        /\ UNCHANGED answer

(* The handlers that take a response with this id.                         *)
Addressed(id) == {r \in handlers : r = id}

Settle(S, d) ==
  /\ answer' = [q \in Requests |-> IF q \in S THEN d ELSE answer[q]]
  /\ handlers' = handlers \ S

Checked(r) ==
  /\ check[r] # {}
  /\ \E d \in check[r] : Settle(Addressed(r), d)
  /\ check' = [check EXCEPT ![r] = {}]
  /\ UNCHANGED asked

(* A check that throws ends in an error event, and nobody responds.        *)
CheckFails(r) ==
  /\ check[r] # {}
  /\ check' = [check EXCEPT ![r] = {}]
  /\ UNCHANGED <<asked, handlers, answer>>

(* The user answers a confirmation of the scheduler, on the same channel.  *)
UserResponds ==
  /\ \E d \in {"allow", "deny"} : Settle(Addressed("confirmation"), d)
  /\ UNCHANGED <<asked, check>>

(* Mutant: the timer only unsubscribes.                                    *)
GivesUp(r) == r \in handlers /\ handlers' = handlers \ {r} /\ UNCHANGED answer

TimesOut(r) == r \in handlers /\ Settle({r}, "ask")

Timeout(r) == TimesOut(r) /\ UNCHANGED <<asked, check>>

Abort(r) == r \in handlers /\ Settle({r}, "deny") /\ UNCHANGED <<asked, check>>

Bus ==
  \/ UserResponds
  \/ \E r \in Requests :
       \/ \E c \in Calls : Ask(r, c)
       \/ Checked(r) \/ CheckFails(r) \/ Timeout(r) \/ Abort(r)

=============================================================================
