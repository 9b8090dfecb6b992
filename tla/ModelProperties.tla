-------------------------- MODULE ModelProperties --------------------------
(* What is promised of the calls to the models.                            *)
EXTENDS ModelCalls

(* The dialog is pending exactly while one call waits for its answer:      *)
(* never two dialogs, and no answered one that keeps later calls from      *)
(* asking (isDialogPending).                                               *)
DialogIsOne ==
  /\ dialog = (\E c \in Calls : phase[c] = "asking")
  /\ \A c, d \in Calls : phase[c] = "asking" /\ phase[d] = "asking" => c = d

(* However long a dialog stays open while other calls go on, the model it  *)
(* offers has not been given up since, unless no candidate was free when   *)
(* the question was asked (handleFallback, selectFirstAvailable).  With    *)
(* the low verbosity another call may have been repeated unasked after a   *)
(* failure of that model, if the catalog makes temporary failures terminal.*)
OfferStaysGood ==
  \A c \in Calls : phase[c] = "asking" /\ offer[c].free =>
    \/ Available(offer[c].to)
    \/ low /\ \E f \in {"transient", "unknown"} : Transition[f] = "terminal"

(* The active model changes only to what the user names in a command or is *)
(* asked about and agrees to.  Silently it changes only when it is the     *)
(* model of the utility calls itself (the silent chain of the catalog): a  *)
(* failing utility call never switches the model of the chat unasked.      *)
SwitchNeedsConsent ==
  [][active' # active =>
       \/ switches' # switches
       \/ \E c \in Calls : phase[c] = "asking" /\ agreed'[c] = active' /\ offer[c].to = active'
       \/ Resolved(active) = Lite]_vars

(* With all errors shown, every call returns or throws, if the user        *)
(* answers every dialog and does not let the call go on without end.       *)
EveryCallEnds == \A c \in Calls : phase[c] # "idle" /\ ~low ~> phase[c] \in Over
=============================================================================
