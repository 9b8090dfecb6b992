------------------------- MODULE ModelAvailability -------------------------
(***************************************************************************)
(* Which models may be used: the health that ModelAvailabilityService      *)
(* keeps, the chain of policies that a model belongs to, and the model     *)
(* that handleFallback() offers when one has failed.  Chains come from the *)
(* catalog; a model in no chain is a chain of its own.                     *)
(***************************************************************************)
EXTENDS Naturals, SequencesExt

CONSTANTS
  Models,      \* models that requests can be sent to
  AutoAlias,   \* the name that leaves the choice to the CLI
  Lite,        \* the model of the chain for internal utility calls
  Preview,     \* models that select the main chain by their own name
  MainChain,   \* policies of the main chain
  LiteChain,   \* policies of the chain for utility calls
  Transition   \* stateTransitions: what a failure makes of a model

Failures == {"terminal", "not_found", "transient", "unknown"}
Policies == [model : Models, silent : BOOLEAN, lastResort : BOOLEAN]
Names == Models \cup {AutoAlias}

ASSUME AvailabilityAssumption ==
  /\ AutoAlias \notin Models /\ Lite \in Models /\ Preview \subseteq Models
  /\ MainChain \in Seq(Policies) /\ LiteChain \in Seq(Policies)
  /\ MainChain # <<>> /\ LiteChain # <<>>
  /\ Transition \in [Failures -> {"terminal", "sticky_retry"}]

(* The catalog: only the chain for utility calls is silent.                *)
ASSUME CatalogAssumption == \A i \in DOMAIN MainChain : ~MainChain[i].silent

VARIABLES
  active,   \* the configured model, which is the active one as well
  health    \* health[m]: what is known of model m

availabilityVars == <<active, health>>

AvailabilityTypeOK ==
  /\ active \in Names
  /\ health \in [Models -> {"healthy", "terminal", "sticky_retry"}]

AvailabilityInit == active \in Names /\ health = [m \in Models |-> "healthy"]

-----------------------------------------------------------------------------
(* Chains.                                                                 *)

Only(m) == <<[model |-> m, silent |-> FALSE, lastResort |-> TRUE]>>
ModelsOf(chain) == {chain[i].model : i \in DOMAIN chain}
Index(chain, m) == CHOOSE i \in DOMAIN chain : chain[i].model = m

Resolved(name) == IF name = AutoAlias THEN MainChain[1].model ELSE name

(* The policies for a model: its chain from the model on.                  *)
ChainOf(name) ==
  LET model == Resolved(name)
      template == IF model = Lite THEN LiteChain
                  ELSE IF AutoAlias \in {name, active} \/ model \in Preview
                  THEN MainChain ELSE Only(model)
  IN  IF model \in ModelsOf(template)
      THEN SubSeq(template, Index(template, model), Len(template))
      ELSE Only(model)

(* Mutant: the chain is the one of the failed model.                       *)
CandidatesOfFailed(failed) == Tail(ChainOf(failed))

(* The policies that may follow a failed model: all, if the chain of the   *)
(* active model has no such model.                                         *)
Candidates(failed) ==
  LET chain == ChainOf(active)
  IN  IF failed \in ModelsOf(chain)
      THEN SubSeq(chain, Index(chain, failed) + 1, Len(chain)) ELSE chain

Available(m) == health[m] # "terminal"

(* Mutant: the last resort is preferred to the other candidates.           *)
LastResortFirst(candidates) ==
  LET resort == SelectInSeq(candidates, LAMBDA p : p.lastResort)
  IN  IF resort # 0 THEN resort
      ELSE SelectInSeq(candidates, LAMBDA p : Available(p.model))

(* The first candidate that is available, else the last resort, else none. *)
Selected(candidates) ==
  LET available == SelectInSeq(candidates, LAMBDA p : Available(p.model))
  IN  IF available # 0 THEN available
      ELSE SelectInSeq(candidates, LAMBDA p : p.lastResort)

(* What handleFallback offers for a failed model, if anything; free says   *)
(* that a candidate is available, known that  *)
(* the chain has a policy for the failed model (failedPolicy).             *)
NoOffer == [to |-> AutoAlias, silent |-> FALSE, free |-> FALSE, known |-> FALSE]
Offer(failed) ==
  LET candidates == Candidates(failed)
      i == Selected(candidates)
      known == failed \in ModelsOf(ChainOf(active))
  IN  IF candidates = <<>>
      THEN [to |-> failed, silent |-> FALSE, free |-> FALSE, known |-> known]
      ELSE IF i = 0 \/ candidates[i].model = failed THEN NoOffer
      ELSE [to |-> candidates[i].model, silent |-> candidates[i].silent,
            free |-> \E j \in DOMAIN candidates : Available(candidates[j].model),
            known |-> known]

-----------------------------------------------------------------------------
(* Changes of health and of the active model.                              *)

MarkHealthy(m) == health' = [health EXCEPT ![m] = "healthy"]

(* markTerminal and markRetryOncePerTurn: a terminal failure is kept.      *)
Marked(h, status) == IF h = "terminal" THEN h ELSE status

(* A model is marked by its failure, if the chain has a policy for it.     *)
MarkFailed(m, failure, known) ==
  health' = IF known THEN [health EXCEPT ![m] = Marked(@, Transition[failure])]
            ELSE health

(* setModel: the health of all models is forgotten.                        *)
SwitchTo(name) ==
  /\ active' = name
  /\ health' = [m \in Models |-> "healthy"]

=============================================================================
