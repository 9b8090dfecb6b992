----------------------------- MODULE ModelCalls -----------------------------
(***************************************************************************)
(* Requests to the models: each call runs in retryWithBackoff(), which     *)
(* repeats it with growing delays and asks handleFallback() when a model   *)
(* keeps failing; the CLI's handler asks the user in a dialog.  Calls of   *)
(* the chat and utility calls run at the same time and share the active    *)
(* model, the health of the models and the dialogs.                        *)
(***************************************************************************)
EXTENDS ModelAvailability

CONSTANTS
  Calls,        \* the calls
  Chats,        \* those made by the chat; the others are utility calls
  MaxAttempts,  \* attempts before a fallback
  MaxConsents,  \* bound: times that the user lets a call go on
  MaxSwitches   \* bound: times that the user switches the model

ASSUME CallsAssumption ==
  /\ Chats \subseteq Calls /\ MaxAttempts \in Nat \ {0}
  /\ MaxConsents \in Nat /\ MaxSwitches \in Nat

VARIABLES
  phase,       \* where a call is
  attempt,     \* attempts since the last reset
  model,       \* lastModelToUse, currentModel
  seen,        \* initialActiveModel
  aborted,     \* the signals that are aborted
  failure,     \* the failure a dialog is about
  offer,       \* the offer of that dialog
  agreed,      \* history: the model that the user has just agreed to
  low,         \* errorVerbosity is "low", the default, and not "full"
  dialog,      \* isDialogPending
  validation,  \* isValidationPending
  consents, switches  \* history: counted for the bounds

callVars == <<phase, attempt, model, seen, failure, offer, agreed>>
userVars == <<dialog, validation, consents, switches>>
vars == <<availabilityVars, callVars, aborted, low, userVars>>

Over == {"returned", "failed"}
Phases == {"idle", "ready", "attempting", "waiting", "asking", "verifying"} \cup Over

TypeOK ==
  /\ AvailabilityTypeOK
  /\ phase \in [Calls -> Phases]
  /\ attempt \in [Calls -> 0..MaxAttempts]
  /\ model \in [Calls -> Models] /\ seen \in [Calls -> Names]
  /\ aborted \subseteq Calls
  /\ failure \in [Calls -> Failures]
  /\ offer \in [Calls -> [to : Names, silent : BOOLEAN, free : BOOLEAN, known : BOOLEAN]]
  /\ agreed \in [Calls -> Names]
  /\ low \in BOOLEAN /\ dialog \in BOOLEAN /\ validation \in BOOLEAN
  /\ consents \in 0..MaxConsents /\ switches \in 0..MaxSwitches

Init ==
  /\ AvailabilityInit
  /\ phase = [c \in Calls |-> "idle"] /\ attempt = [c \in Calls |-> 0]
  /\ model \in [Calls -> Models] /\ seen = [c \in Calls |-> active]
  /\ \A c \in Calls : model[c] = IF c \in Chats THEN Resolved(active) ELSE Lite
  /\ aborted = {} /\ low \in BOOLEAN
  /\ failure = [c \in Calls |-> "unknown"] /\ offer = [c \in Calls |-> NoOffer]
  /\ agreed = [c \in Calls |-> AutoAlias]
  /\ dialog = FALSE /\ validation = FALSE /\ consents = 0 /\ switches = 0

Goes(c, to) == phase' = [phase EXCEPT ![c] = to]

-----------------------------------------------------------------------------
(* The loop of retryWithBackoff.                                           *)

(* A chat uses the model that the router chose for this turn or an earlier *)
(* one of the prompt.  It did before this: the active model may have been  *)
(* another, so that it can be any.  A utility call uses the lite one.      *)
Start(c) ==
  /\ phase[c] = "idle"
  /\ Goes(c, "ready")
  /\ \E m \in IF c \in Chats THEN Models ELSE {model[c]} :
       model' = [model EXCEPT ![c] = m]
  /\ seen' = [seen EXCEPT ![c] = active]
  /\ UNCHANGED <<availabilityVars, attempt, failure, offer, agreed, aborted, low,
                 userVars>>

(* Only the chat gives its signal to retryWithBackoff.                     *)
Heeds(c) == c \in Chats /\ c \in aborted

(* The model of the next attempt: the active one, if it has changed.       *)
ModelFor(c) == IF active = seen[c] THEN model[c] ELSE Resolved(active)

Attempt(c) ==
  /\ phase[c] = "ready" /\ attempt[c] < MaxAttempts /\ ~Heeds(c)
  /\ Goes(c, "attempting")
  /\ attempt' = [attempt EXCEPT ![c] = @ + 1]
  /\ model' = [model EXCEPT ![c] = ModelFor(c)]
  /\ seen' = [seen EXCEPT ![c] = IF c \in Chats THEN @ ELSE active]
  /\ agreed' = [agreed EXCEPT ![c] = AutoAlias]
  /\ UNCHANGED <<availabilityVars, failure, offer, aborted, low, userVars>>

(* "Retry attempts exhausted", or aborted before an attempt or a delay ends. *)
GiveUp(c) ==
  /\ \/ phase[c] = "ready" /\ (attempt[c] = MaxAttempts \/ Heeds(c))
     \/ phase[c] = "waiting" /\ Heeds(c)
  /\ Goes(c, "failed")
  /\ UNCHANGED <<availabilityVars, attempt, model, seen, failure, offer, agreed,
                 aborted, low, userVars>>

Wake(c) ==
  /\ phase[c] = "waiting"
  /\ Goes(c, "ready")
  /\ UNCHANGED <<availabilityVars, attempt, model, seen, failure, offer, agreed,
                 aborted, low, userVars>>

Succeed(c) ==
  /\ phase[c] = "attempting"
  /\ Goes(c, "returned")
  /\ MarkHealthy(model[c])
  /\ UNCHANGED <<active, attempt, model, seen, failure, offer, agreed, aborted, low, userVars>>

(* Mutant: an attempt with invalid content does not count.                 *)
Uncounted(c) == attempt' = [attempt EXCEPT ![c] = @ - 1]

CountedAgain(c) == UNCHANGED attempt

(* shouldRetryOnContent, of utility calls: wait, also after the last.      *)
InvalidContent(c) ==
  /\ phase[c] = "attempting" /\ c \notin Chats
  /\ Goes(c, "waiting")
  /\ CountedAgain(c)
  /\ UNCHANGED <<availabilityVars, model, seen, failure, offer, agreed, aborted, low, userVars>>

(* An error that is not repeated, the abort of the request, or the need to *)
(* verify the account while the user is already asked to.                  *)
FailForGood(c) ==
  /\ phase[c] = "attempting"
  /\ Goes(c, "failed")
  /\ UNCHANGED <<availabilityVars, attempt, model, seen, failure, offer, agreed,
                 aborted, low, userVars>>

(* A temporary error before the last attempt: quota, server or network.    *)
FailForNow(c) ==
  /\ phase[c] = "attempting" /\ ~Heeds(c) /\ attempt[c] < MaxAttempts
  /\ Goes(c, "waiting")
  /\ UNCHANGED <<availabilityVars, attempt, model, seen, failure, offer, agreed,
                 aborted, low, userVars>>

-----------------------------------------------------------------------------
(* Fallback to another model.                                              *)

(* The call goes on with all its attempts.                                 *)
Again(c) == Goes(c, "ready") /\ attempt' = [attempt EXCEPT ![c] = 0]

(* handleFallback for a persistent failure: at once for a terminal one, at *)
(* the last attempt for a temporary one.                                   *)
Falls(c, f) ==
  /\ phase[c] = "attempting" /\ ~Heeds(c)
  /\ f \in {"transient", "unknown"} => attempt[c] = MaxAttempts

(* The policy of the model to use is silent: the CLI switches to it.       *)
FallSilently(c, f) ==
  /\ Falls(c, f) /\ Offer(model[c]).silent
  /\ Again(c) /\ SwitchTo(Offer(model[c]).to)
  /\ UNCHANGED <<model, seen, failure, offer, agreed, aborted, low, userVars>>

(* The handler lets temporary failures be repeated without a dialog.       *)
RetriesUnasked(f) == low /\ f \in {"transient", "unknown"}

RepeatUnasked(c, f) ==
  /\ Falls(c, f) /\ RetriesUnasked(f)
  /\ Offer(model[c]) # NoOffer /\ ~Offer(model[c]).silent
  /\ Again(c) /\ MarkFailed(model[c], f, Offer(model[c]).known)
  /\ agreed' = [agreed EXCEPT ![c] = Offer(model[c]).to]
  /\ UNCHANGED <<active, model, seen, failure, offer, aborted, low, userVars>>

(* Mutant: a dialog opens whether or not there is one.                     *)
AlwaysFree == TRUE

DialogFree == ~dialog

AskUser(c, f) ==
  /\ Falls(c, f) /\ ~RetriesUnasked(f) /\ DialogFree
  /\ Offer(model[c]) # NoOffer /\ ~Offer(model[c]).silent
  /\ Goes(c, "asking") /\ dialog' = TRUE
  /\ failure' = [failure EXCEPT ![c] = f]
  /\ offer' = [offer EXCEPT ![c] = Offer(model[c])]
  /\ UNCHANGED <<availabilityVars, attempt, model, seen, agreed, aborted, low,
                 validation, consents, switches>>

(* Nothing to offer, or another dialog is open: the error is thrown.       *)
NoFallback(c, f) ==
  /\ Falls(c, f)
  /\ \/ Offer(model[c]) = NoOffer
     \/ ~Offer(model[c]).silent /\ ~RetriesUnasked(f) /\ ~DialogFree
  /\ Goes(c, "failed")
  /\ UNCHANGED <<availabilityVars, attempt, model, seen, failure, offer, agreed,
                 aborted, low, userVars>>

(* Mutant: a dialog answered with "stop" stays pending.                    *)
ClosedByRetry(intent) == dialog' = (intent = "stop")

Closed(intent) == dialog' = FALSE

(* The user answers: switch for good, go on once, or stop (now, later, or  *)
(* to upgrade).                                                            *)
Choose(c, intent) ==
  /\ phase[c] = "asking" /\ Closed(intent)
  /\ CASE intent = "retry_always" -> Again(c) /\ SwitchTo(offer[c].to)
       [] intent = "retry_once" -> /\ Again(c) /\ MarkFailed(model[c], failure[c], offer[c].known)
                                   /\ UNCHANGED active
       [] intent = "stop" -> Goes(c, "failed") /\ UNCHANGED <<attempt, availabilityVars>>
  /\ IF intent = "stop" THEN UNCHANGED <<consents, agreed>>
     ELSE /\ consents < MaxConsents /\ consents' = consents + 1
          /\ agreed' = [agreed EXCEPT ![c] = offer[c].to]
  /\ offer' = [offer EXCEPT ![c] = NoOffer]
  /\ failure' = [failure EXCEPT ![c] = "unknown"]
  /\ UNCHANGED <<model, seen, aborted, low, validation, switches>>

(* ValidationRequiredError: the chat asks the user to verify the account.  *)
AskToVerify(c) ==
  /\ phase[c] = "attempting" /\ ~Heeds(c) /\ c \in Chats /\ ~validation
  /\ Goes(c, "verifying") /\ validation' = TRUE
  /\ UNCHANGED <<availabilityVars, attempt, model, seen, failure, offer, agreed,
                 aborted, low, dialog, consents, switches>>

Verify(c) ==
  /\ phase[c] = "verifying" /\ validation' = FALSE
  /\ \/ consents < MaxConsents /\ consents' = consents + 1 /\ Again(c)
     \/ Goes(c, "failed") /\ UNCHANGED <<attempt, consents>>
  /\ UNCHANGED <<availabilityVars, model, seen, failure, offer, agreed, aborted, low,
                 dialog, switches>>

-----------------------------------------------------------------------------

(* The abort of a utility call only makes its request fail.                *)
Abort(c) ==
  /\ c \in Chats /\ phase[c] \notin Over \cup {"idle"} /\ aborted' = aborted \cup {c}
  /\ UNCHANGED <<availabilityVars, callVars, low, userVars>>

(* The user chooses a model with a command.                                *)
Switch(name) ==
  /\ switches < MaxSwitches /\ switches' = switches + 1
  /\ SwitchTo(name)
  /\ agreed' = [c \in Calls |-> AutoAlias]
  /\ UNCHANGED <<phase, attempt, model, seen, failure, offer, aborted, low, dialog,
                 validation, consents>>

Fall(c, f) == FallSilently(c, f) \/ RepeatUnasked(c, f) \/ AskUser(c, f) \/ NoFallback(c, f)

(* A request ends in some way, and the user answers every dialog.          *)
Progress(c) ==
  \/ Attempt(c) \/ GiveUp(c) \/ Wake(c)
  \/ Succeed(c) \/ InvalidContent(c) \/ FailForGood(c) \/ FailForNow(c) \/ AskToVerify(c)
  \/ \E f \in Failures : Fall(c, f)
  \/ \E intent \in {"retry_always", "retry_once", "stop"} : Choose(c, intent)
  \/ Verify(c)

Next ==
  \/ \E c \in Calls : Start(c) \/ Progress(c) \/ Abort(c)
  \/ \E name \in Names : Switch(name)

Spec == Init /\ [][Next]_vars /\ \A c \in Calls : WF_vars(Progress(c))

=============================================================================
