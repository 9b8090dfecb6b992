---------------------------- MODULE ModelProofs ----------------------------
(***************************************************************************)
(* What TLAPS proves of the calls to the models, for any models, chains,   *)
(* transitions, calls and bounds: the types, the one dialog, what it       *)
(* offers, and who may switch the model.                                   *)
(***************************************************************************)
EXTENDS ModelProperties, WellFoundedInduction, TLAPS

USE DEF availabilityVars, callVars, userVars

-----------------------------------------------------------------------------
(* What is selected.                                                       *)

LEMMA Smallest ==
  ASSUME NEW S \in SUBSET Nat, S # {}
  PROVE  Min(S) \in S
<1> DEFINE R == {p \in Nat \X Nat : p[1] < p[2]}
<1>1. IsWellFoundedOn(R, Nat)
  BY NatLessThanWellFounded DEF OpToRel
<1>2. R = {p \in Nat \X Nat : p[1] < p[2]}
  OBVIOUS
<1> HIDE DEF R
<1>3. PICK x \in S : \A y \in S : ~ (<<y, x>> \in R)
  BY <1>1, WFMin
<1>4. \A y \in S : ~(y < x)
  <2> SUFFICES ASSUME NEW y \in S, y < x PROVE FALSE
    OBVIOUS
  <2>1. <<y, x>> \in Nat \X Nat /\ <<y, x>>[1] < <<y, x>>[2]
    OBVIOUS
  <2> QED
    BY <2>1, <1>2, <1>3
<1>5. \A y \in S : x <= y
  BY <1>4
<1> QED
  BY <1>5 DEF Min

(* The policy selected is a candidate, and an available one if there is    *)
(* one.                                                                    *)
LEMMA SelectedIsGood ==
  ASSUME NEW s \in Seq(Policies)
  PROVE  /\ Selected(s) = 0 \/ Selected(s) \in DOMAIN s
         /\ (\E i \in DOMAIN s : Available(s[i].model)) =>
              Selected(s) \in DOMAIN s /\ Available(s[Selected(s)].model)
<1> DEFINE free == {i \in 1..Len(s) : Available(s[i].model)}
           last == {i \in 1..Len(s) : s[i].lastResort}
<1>1. free # {} => Min(free) \in free
  <2>1. free \in SUBSET Nat
    OBVIOUS
  <2> HIDE DEF free
  <2> QED
    BY <2>1, Smallest
<1>2. last # {} => Min(last) \in last
  <2>1. last \in SUBSET Nat
    OBVIOUS
  <2> HIDE DEF last
  <2> QED
    BY <2>1, Smallest
<1>3. DOMAIN s = 1..Len(s)
  OBVIOUS
<1>4. Selected(s) = IF free # {} /\ Min(free) # 0 THEN Min(free)
                    ELSE IF last # {} THEN Min(last) ELSE 0
  BY DEF Selected, SelectInSeq
<1> QED
  BY <1>1, <1>2, <1>3, <1>4

LEMMA ResolvedType ==
  ASSUME NEW name \in Names
  PROVE  Resolved(name) \in Models
<1>1. MainChain[1] \in Policies
  BY AvailabilityAssumption
<1> QED
  BY <1>1 DEF Resolved, Names, Policies

LEMMA IndexIsIn ==
  ASSUME NEW chain \in Seq(Policies), NEW m \in ModelsOf(chain)
  PROVE  Index(chain, m) \in 1..Len(chain)
BY DEF Index, ModelsOf

(* The chain of a model, and that only the chain of the lite model is      *)
(* silent.                                                                 *)
LEMMA ChainType ==
  ASSUME NEW name \in Names
  PROVE  /\ ChainOf(name) \in Seq(Policies)
         /\ Resolved(name) # Lite =>
              \A i \in DOMAIN ChainOf(name) : ~ChainOf(name)[i].silent
<1> DEFINE m == Resolved(name)
           template == IF m = Lite THEN LiteChain
                       ELSE IF AutoAlias \in {name, active} \/ m \in Preview
                       THEN MainChain ELSE Only(m)
<1>1. m \in Models
  BY ResolvedType
<1>2. Only(m) \in Seq(Policies) /\ Len(Only(m)) = 1 /\ Only(m)[1].silent = FALSE
  BY <1>1 DEF Only, Policies
<1>3. /\ template \in Seq(Policies)
      /\ m # Lite => \A i \in DOMAIN template : ~template[i].silent
  BY <1>2, AvailabilityAssumption, CatalogAssumption
<1>4. ChainOf(name) = IF m \in ModelsOf(template)
                      THEN SubSeq(template, Index(template, m), Len(template))
                      ELSE Only(m)
  BY DEF ChainOf
<1> HIDE DEF template, m
<1>5. CASE m \in ModelsOf(template)
  <2> DEFINE k == Index(template, m)
  <2>1. k \in 1..Len(template)
    BY <1>3, <1>5, IndexIsIn
  <2>2. ChainOf(name) = SubSeq(template, k, Len(template))
    BY <1>4, <1>5
  <2> HIDE DEF k
  <2>3. /\ ChainOf(name) \in Seq(Policies)
        /\ DOMAIN ChainOf(name) = 1..(Len(template) - k + 1)
        /\ \A i \in 1..(Len(template) - k + 1) : ChainOf(name)[i] = template[i + k - 1]
    BY <1>3, <2>1, <2>2
  <2> QED
    BY <1>3, <2>1, <2>3 DEF m
<1>6. CASE m \notin ModelsOf(template)
  BY <1>2, <1>4, <1>6
<1> QED
  BY <1>5, <1>6

LEMMA CandidatesType ==
  ASSUME AvailabilityTypeOK, NEW failed
  PROVE  /\ Candidates(failed) \in Seq(Policies)
         /\ Resolved(active) # Lite =>
              \A i \in DOMAIN Candidates(failed) : ~Candidates(failed)[i].silent
<1> DEFINE chain == ChainOf(active)
<1>1. /\ chain \in Seq(Policies)
      /\ Resolved(active) # Lite => \A i \in DOMAIN chain : ~chain[i].silent
  BY ChainType DEF AvailabilityTypeOK
<1>2. Candidates(failed) = IF failed \in ModelsOf(chain)
                           THEN SubSeq(chain, Index(chain, failed) + 1, Len(chain))
                           ELSE chain
  BY DEF Candidates
<1> HIDE DEF chain
<1>3. CASE failed \in ModelsOf(chain)
  <2> DEFINE k == Index(chain, failed) + 1
  <2>1. k \in 2..(Len(chain) + 1)
    BY <1>1, <1>3, IndexIsIn
  <2>2. Candidates(failed) = SubSeq(chain, k, Len(chain))
    BY <1>2, <1>3
  <2> HIDE DEF k
  <2>3. /\ Candidates(failed) \in Seq(Policies)
        /\ DOMAIN Candidates(failed) = 1..(Len(chain) - k + 1)
        /\ \A i \in 1..(Len(chain) - k + 1) : Candidates(failed)[i] = chain[i + k - 1]
    BY <1>1, <2>1, <2>2
  <2> QED
    BY <1>1, <2>1, <2>3
<1>4. CASE failed \notin ModelsOf(chain)
  BY <1>1, <1>2, <1>4
<1> QED
  BY <1>3, <1>4

Offers == [to : Names, silent : BOOLEAN, free : BOOLEAN, known : BOOLEAN]

(* What is offered as free is available, and silent is only what the chain *)
(* for utility calls offers.                                               *)
LEMMA OfferIsGood ==
  ASSUME AvailabilityTypeOK, NEW failed \in Models
  PROVE  /\ Offer(failed) \in Offers
         /\ Offer(failed).free => Offer(failed).to \in Models /\ Available(Offer(failed).to)
         /\ Offer(failed).silent => Resolved(active) = Lite
<1> DEFINE s == Candidates(failed)
           i == Selected(s)
<1>1. /\ s \in Seq(Policies)
      /\ Resolved(active) # Lite => \A j \in DOMAIN s : ~s[j].silent
  BY CandidatesType
<1>2. /\ i = 0 \/ i \in DOMAIN s
      /\ (\E j \in DOMAIN s : Available(s[j].model)) =>
           i \in DOMAIN s /\ Available(s[i].model)
  BY <1>1, SelectedIsGood
<1>3. Offer(failed) =
        IF s = <<>>
        THEN [to |-> failed, silent |-> FALSE, free |-> FALSE,
              known |-> failed \in ModelsOf(ChainOf(active))]
        ELSE IF i = 0 \/ s[i].model = failed
        THEN [to |-> AutoAlias, silent |-> FALSE, free |-> FALSE, known |-> FALSE]
        ELSE [to |-> s[i].model, silent |-> s[i].silent,
              free |-> \E j \in DOMAIN s : Available(s[j].model),
              known |-> failed \in ModelsOf(ChainOf(active))]
  BY DEF Offer, NoOffer
<1> HIDE DEF s, i
<1>4. i \in DOMAIN s => s[i] \in Policies
  BY <1>1
<1>5. failed \in Names /\ AutoAlias \in Names /\ \A m \in Models : m \in Names
  BY DEF Names
<1>6. i \in DOMAIN s => s[i].model \in Models /\ s[i].silent \in BOOLEAN
  BY <1>4 DEF Policies
<1>7. CASE s = <<>>
  BY <1>3, <1>5, <1>7 DEF Offers
<1>8. CASE s # <<>> /\ (i = 0 \/ s[i].model = failed)
  BY <1>3, <1>5, <1>8 DEF Offers
<1>9. CASE s # <<>> /\ i # 0 /\ s[i].model # failed
  <2> DEFINE free == \E j \in DOMAIN s : Available(s[j].model)
             known == failed \in ModelsOf(ChainOf(active))
  <2>1. Offer(failed) = [to |-> s[i].model, silent |-> s[i].silent,
                         free |-> free, known |-> known]
    BY <1>3, <1>9
  <2>2. free \in BOOLEAN /\ known \in BOOLEAN /\ (free => Available(s[i].model))
    BY <1>2
  <2> HIDE DEF free, known
  <2> QED
    BY <1>1, <1>2, <1>5, <1>6, <1>9, <2>1, <2>2 DEF Offers
<1> QED
  BY <1>7, <1>8, <1>9

-----------------------------------------------------------------------------
(* Types.                                                                  *)

LEMMA InitTypes == Init => TypeOK
<1> SUFFICES ASSUME Init PROVE TypeOK
  OBVIOUS
<1>1. AvailabilityTypeOK
  BY DEF Init, AvailabilityInit, AvailabilityTypeOK
<1>2. NoOffer \in Offers
  BY DEF NoOffer, Offers, Names
<1>3. /\ phase \in [Calls -> Phases] /\ attempt \in [Calls -> 0..MaxAttempts]
      /\ failure \in [Calls -> Failures] /\ offer \in [Calls -> Offers]
  BY <1>2, CallsAssumption DEF Init, Phases, Failures
<1>4. seen \in [Calls -> Names] /\ agreed \in [Calls -> Names]
  BY <1>1 DEF Init, AvailabilityTypeOK, Names
<1>5. consents \in 0..MaxConsents /\ switches \in 0..MaxSwitches
  BY CallsAssumption DEF Init
<1>6. model \in [Calls -> Models] /\ aborted \subseteq Calls /\ low \in BOOLEAN
  BY DEF Init
<1>7. dialog \in BOOLEAN /\ validation \in BOOLEAN
  BY DEF Init
<1> QED
  BY <1>1, <1>3, <1>4, <1>5, <1>6, <1>7 DEF TypeOK, Offers

LEMMA MarkedType ==
  ASSUME AvailabilityTypeOK, NEW m \in Models, NEW f \in Failures, NEW known,
         MarkFailed(m, f, known)
  PROVE  health' \in [Models -> {"healthy", "terminal", "sticky_retry"}]
BY AvailabilityAssumption DEF AvailabilityTypeOK, MarkFailed, Marked

LEMMA SwitchedType ==
  ASSUME NEW name \in Names, SwitchTo(name)
  PROVE  AvailabilityTypeOK'
BY DEF SwitchTo, AvailabilityTypeOK

LEMMA ModelForType ==
  ASSUME TypeOK, NEW c \in Calls
  PROVE  ModelFor(c) \in Models /\ Resolved(active) \in Models
BY ResolvedType DEF TypeOK, AvailabilityTypeOK, ModelFor

(* The steps of one call in which the model fails for good.                *)
LEMMA FallTypes ==
  ASSUME TypeOK, NEW c \in Calls, NEW f \in Failures, Fall(c, f)
  PROVE  TypeOK'
<1> DEFINE o == Offer(model[c])
<1>1. model[c] \in Models /\ AvailabilityTypeOK /\ 0 \in 0..MaxAttempts
  BY CallsAssumption DEF TypeOK
<1>2. o \in Offers /\ o.to \in Names
  BY <1>1, OfferIsGood DEF Offers
<1>3. CASE FallSilently(c, f)
  <2>1. AvailabilityTypeOK'
    BY <1>2, <1>3, SwitchedType DEF FallSilently
  <2> QED
    BY <1>1, <1>3, <2>1 DEF FallSilently, Again, Goes, TypeOK, Phases
<1>4. CASE RepeatUnasked(c, f)
  <2>1. AvailabilityTypeOK'
    BY <1>1, <1>4, MarkedType DEF RepeatUnasked, AvailabilityTypeOK
  <2> QED
    BY <1>1, <1>2, <1>4, <2>1 DEF RepeatUnasked, Again, Goes, TypeOK, Phases
<1>5. CASE AskUser(c, f)
  BY <1>1, <1>2, <1>5 DEF AskUser, Goes, TypeOK, Phases, Offers, AvailabilityTypeOK
<1>6. CASE NoFallback(c, f)
  BY <1>1, <1>6 DEF NoFallback, Goes, TypeOK, Phases, Over, AvailabilityTypeOK
<1> QED
  BY <1>3, <1>4, <1>5, <1>6 DEF Fall

LEMMA ChooseTypes ==
  ASSUME TypeOK, NEW c \in Calls, NEW intent \in {"retry_always", "retry_once", "stop"},
         Choose(c, intent)
  PROVE  TypeOK'
<1>1. /\ offer[c].to \in Names /\ 0 \in 0..MaxAttempts /\ NoOffer \in Offers
      /\ AvailabilityTypeOK /\ model[c] \in Models /\ failure[c] \in Failures
  BY CallsAssumption DEF TypeOK, NoOffer, Offers, Names
<1>2. AvailabilityTypeOK'
  <2>1. CASE intent = "retry_always"
    BY <1>1, <2>1, SwitchedType DEF Choose
  <2>2. CASE intent = "retry_once"
    BY <1>1, <2>2, MarkedType DEF Choose, AvailabilityTypeOK
  <2>3. CASE intent = "stop"
    BY <1>1, <2>3 DEF Choose, AvailabilityTypeOK
  <2> QED
    BY <2>1, <2>2, <2>3
<1>3. consents' \in 0..MaxConsents
  BY CallsAssumption DEF Choose, TypeOK
<1>4. phase' \in [Calls -> Phases] /\ attempt' \in [Calls -> 0..MaxAttempts]
  BY <1>1 DEF Choose, Again, Goes, TypeOK, Phases, Over
<1>5. agreed' \in [Calls -> Names]
  BY <1>1 DEF Choose, TypeOK
<1>6. offer' \in [Calls -> Offers] /\ failure' \in [Calls -> Failures] /\ dialog' = FALSE
  BY <1>1 DEF Choose, Closed, TypeOK, Offers, Failures
<1>7. UNCHANGED <<model, seen, aborted, low, validation, switches>>
  BY DEF Choose
<1> QED
  BY <1>2, <1>3, <1>4, <1>5, <1>6, <1>7 DEF TypeOK, Offers

LEMMA TypesStep ==
  ASSUME TypeOK, [Next]_vars
  PROVE  TypeOK'
<1>0. /\ AvailabilityTypeOK /\ MaxAttempts \in Nat \ {0} /\ MaxConsents \in Nat
      /\ MaxSwitches \in Nat /\ AutoAlias \in Names
  BY CallsAssumption DEF TypeOK, Names
<1> USE DEF Goes, TypeOK, Phases, Over, AvailabilityTypeOK
<1>1. CASE UNCHANGED vars
  BY <1>1 DEF vars
<1>2. ASSUME NEW c \in Calls, Start(c)
      PROVE  TypeOK'
  BY <1>2, ModelForType DEF Start
<1>3. ASSUME NEW c \in Calls, Attempt(c)
      PROVE  TypeOK'
  <2>1. attempt'[c] \in 0..MaxAttempts
    BY <1>0, <1>3 DEF Attempt
  <2> QED
    BY <1>0, <1>3, <2>1, ModelForType DEF Attempt
<1>4. ASSUME NEW c \in Calls, GiveUp(c) \/ Wake(c) \/ FailForGood(c) \/ FailForNow(c)
      PROVE  TypeOK'
  BY <1>4 DEF GiveUp, Wake, FailForGood, FailForNow
<1>5. ASSUME NEW c \in Calls, Succeed(c)
      PROVE  TypeOK'
  BY <1>5 DEF Succeed, MarkHealthy
<1>6. ASSUME NEW c \in Calls, InvalidContent(c)
      PROVE  TypeOK'
  BY <1>6 DEF InvalidContent, CountedAgain
<1>7. ASSUME NEW c \in Calls, AskToVerify(c)
      PROVE  TypeOK'
  BY <1>7 DEF AskToVerify
<1>8. ASSUME NEW c \in Calls, Verify(c)
      PROVE  TypeOK'
  <2>1. phase' \in [Calls -> Phases] /\ attempt' \in [Calls -> 0..MaxAttempts]
    BY <1>0, <1>8, SMTT(30) DEF Verify, Again
  <2>2. consents' \in 0..MaxConsents /\ validation' = FALSE
    BY <1>0, <1>8 DEF Verify
  <2>3. UNCHANGED <<availabilityVars, model, seen, failure, offer, agreed, aborted, low,
                    dialog, switches>>
    BY <1>8 DEF Verify
  <2> QED
    BY <2>1, <2>2, <2>3
<1>9. ASSUME NEW c \in Calls, Abort(c)
      PROVE  TypeOK'
  <2>1. /\ UNCHANGED <<availabilityVars, callVars, low, userVars>>
        /\ aborted' = aborted \cup {c}
    BY <1>9 DEF Abort
  <2> QED
    BY <2>1
<1>10. ASSUME NEW name \in Names, Switch(name)
       PROVE  TypeOK'
  <2>1. AvailabilityTypeOK'
    BY <1>10, SwitchedType DEF Switch
  <2> QED
    BY <1>0, <1>10, <2>1 DEF Switch
<1> QED
  BY <1>1, <1>2, <1>3, <1>4, <1>5, <1>6, <1>7, <1>8, <1>9, <1>10, FallTypes, ChooseTypes
  DEF Next, Progress

(* Every variable keeps its type: attempts stay within MaxAttempts, what   *)
(* is offered and what is active has a name (retryWithBackoff).            *)
THEOREM ModelTypes == Spec => []TypeOK
<1>1. TypeOK /\ [Next]_vars => TypeOK'
  BY TypesStep
<1> QED
  BY <1>1, InitTypes, PTL DEF Spec

-----------------------------------------------------------------------------
(* The dialog.                                                             *)

Tolerated == low /\ \E f \in {"transient", "unknown"} : Transition[f] = "terminal"

(* What all steps but those of a dialog leave as it is: who is asked what, *)
(* and, but for what the low verbosity tolerates, the models not given up. *)
DialogKept ==
  /\ dialog' = dialog /\ offer' = offer /\ low' = low
  /\ \A d \in Calls : phase'[d] = "asking" <=> phase[d] = "asking"
  /\ \A m \in Models : Available(m) => Available(m)' \/ Tolerated

LEMMA MarkedKept ==
  ASSUME TypeOK, NEW m \in Models, NEW known,
         NEW f \in {"transient", "unknown"}, low, MarkFailed(m, f, known)
  PROVE  \A n \in Models : Available(n) => Available(n)' \/ Tolerated
<1>1. health \in [Models -> {"healthy", "terminal", "sticky_retry"}]
  BY DEF TypeOK, AvailabilityTypeOK
<1>2. Transition[f] \in {"terminal", "sticky_retry"}
  BY AvailabilityAssumption DEF Failures
<1> QED
  BY <1>1, <1>2 DEF MarkFailed, Marked, Available, Tolerated

LEMMA SwitchedKept ==
  ASSUME NEW name, SwitchTo(name)
  PROVE  \A m \in Models : Available(m)'
BY DEF SwitchTo, Available

LEMMA DialogSteps ==
  ASSUME TypeOK, [Next]_vars
  PROVE  \/ DialogKept
         \/ \E c \in Calls, f \in Failures : AskUser(c, f)
         \/ \E c \in Calls, i \in {"retry_always", "retry_once", "stop"} : Choose(c, i)
<1>0. phase \in [Calls -> Phases] /\ model \in [Calls -> Models]
      /\ health \in [Models -> {"healthy", "terminal", "sticky_retry"}]
  BY DEF TypeOK, AvailabilityTypeOK
<1> USE DEF DialogKept, Goes, Over
<1>1. CASE UNCHANGED vars
  BY <1>1 DEF vars, Available
<1>2. ASSUME NEW c \in Calls,
             \/ Start(c) \/ Attempt(c) \/ GiveUp(c) \/ Wake(c) \/ InvalidContent(c)
             \/ FailForGood(c) \/ FailForNow(c) \/ AskToVerify(c) \/ Abort(c)
      PROVE  DialogKept
  BY <1>0, <1>2 DEF Start, Attempt, GiveUp, Wake, InvalidContent, FailForGood,
     FailForNow, AskToVerify, Abort, Available
<1>3. ASSUME NEW c \in Calls, Succeed(c)
      PROVE  DialogKept
  BY <1>0, <1>3 DEF Succeed, MarkHealthy, Available
<1>4. ASSUME NEW c \in Calls, Verify(c)
      PROVE  DialogKept
  BY <1>0, <1>4 DEF Verify, Again, Available
<1>5. ASSUME NEW name \in Names, Switch(name)
      PROVE  DialogKept
  BY <1>5, SwitchedKept DEF Switch
<1>6. ASSUME NEW c \in Calls, NEW f \in Failures, FallSilently(c, f)
      PROVE  DialogKept
  BY <1>0, <1>6, SwitchedKept DEF FallSilently, Falls, Again
<1>7. ASSUME NEW c \in Calls, NEW f \in Failures, RepeatUnasked(c, f)
      PROVE  DialogKept
  <2>1. \A m \in Models : Available(m) => Available(m)' \/ Tolerated
    BY <1>0, <1>7, MarkedKept DEF RepeatUnasked, RetriesUnasked
  <2> QED
    BY <1>0, <1>7, <2>1 DEF RepeatUnasked, Falls, Again
<1>8. ASSUME NEW c \in Calls, NEW f \in Failures, NoFallback(c, f)
      PROVE  DialogKept
  BY <1>0, <1>8 DEF NoFallback, Falls, Available
<1> QED
  BY <1>1, <1>2, <1>3, <1>4, <1>5, <1>6, <1>7, <1>8 DEF Next, Progress, Fall

(* The invariant: one dialog, about a model that was available.            *)
DialogInv ==
  /\ TypeOK /\ DialogIsOne /\ OfferStaysGood
  /\ \A c \in Calls : phase[c] = "asking" /\ offer[c].free => offer[c].to \in Models

LEMMA DialogInit == Init => DialogInv
<1> SUFFICES ASSUME Init PROVE DialogInv
  OBVIOUS
<1>1. dialog = FALSE /\ \A c \in Calls : phase[c] # "asking"
  BY DEF Init
<1> QED
  BY <1>1, InitTypes DEF DialogInv, DialogIsOne, OfferStaysGood

LEMMA DialogStep ==
  ASSUME DialogInv, [Next]_vars
  PROVE  DialogInv'
<1>0. TypeOK /\ TypeOK' /\ DialogIsOne /\ OfferStaysGood
  BY TypesStep DEF DialogInv
<1>1. CASE DialogKept
  <2>1. DialogIsOne'
    BY <1>0, <1>1 DEF DialogKept, DialogIsOne
  <2>2. \A c \in Calls : phase'[c] = "asking" /\ offer'[c].free =>
          offer'[c].to \in Models /\ (Available(offer[c].to)' \/ Tolerated)
    BY <1>1 DEF DialogInv, DialogKept, OfferStaysGood, Tolerated
  <2>3. Tolerated => Tolerated'
    BY <1>1 DEF DialogKept, Tolerated
  <2>4. offer' = offer
    BY <1>1 DEF DialogKept
  <2>5. OfferStaysGood'
    BY <2>2, <2>3, <2>4 DEF OfferStaysGood, Tolerated
  <2> QED
    BY <1>0, <2>1, <2>2, <2>5 DEF DialogInv
<1>2. ASSUME NEW c \in Calls, NEW f \in Failures, AskUser(c, f)
      PROVE  DialogInv'
  <2>1. ~dialog /\ \A d \in Calls : phase[d] # "asking"
    BY <1>0, <1>2 DEF AskUser, DialogFree, DialogIsOne
  <2>2. dialog' = TRUE /\ \A d \in Calls : phase'[d] = "asking" <=> d = c
    BY <1>0, <1>2, <2>1 DEF AskUser, Goes, TypeOK
  <2>3. DialogIsOne'
    BY <2>2 DEF DialogIsOne
  <2>4. offer'[c] = Offer(model[c]) /\ health' = health
    BY <1>0, <1>2 DEF AskUser, TypeOK
  <2>5. offer'[c].free => offer'[c].to \in Models /\ Available(offer'[c].to)
    BY <1>0, <2>4, OfferIsGood DEF TypeOK
  <2>6. \A d \in Calls : phase'[d] = "asking" /\ offer'[d].free =>
          offer'[d].to \in Models /\ health'[offer'[d].to] # "terminal"
    BY <2>2, <2>4, <2>5 DEF Available
  <2> QED
    BY <1>0, <2>3, <2>6 DEF DialogInv, OfferStaysGood, Available
<1>3. ASSUME NEW c \in Calls, NEW i \in {"retry_always", "retry_once", "stop"}, Choose(c, i)
      PROVE  DialogInv'
  <2>1. phase[c] = "asking" /\ dialog' = FALSE
    BY <1>3 DEF Choose, Closed
  <2>2. phase'[c] # "asking" /\ \A d \in Calls : d # c => phase'[d] = phase[d]
    BY <1>0, <1>3 DEF Choose, Again, Goes, TypeOK
  <2>3. \A d \in Calls : phase'[d] # "asking"
    BY <1>0, <2>1, <2>2 DEF DialogIsOne
  <2> QED
    BY <1>0, <2>1, <2>3 DEF DialogInv, DialogIsOne, OfferStaysGood
<1> QED
  BY <1>0, <1>1, <1>2, <1>3, DialogSteps

LEMMA DialogAlways == Spec => []DialogInv
<1>1. DialogInv /\ [Next]_vars => DialogInv'
  BY DialogStep
<1> QED
  BY <1>1, DialogInit, PTL DEF Spec

(* The flag of the interface is set exactly while one call waits for the   *)
(* user, so that no dialog replaces another and none stays pending         *)
(* (useQuotaAndFallback, isDialogPending).                                 *)
THEOREM OneDialog == Spec => []DialogIsOne
BY DialogAlways, PTL DEF DialogInv

(* What a dialog offers is still available when the user answers, though   *)
(* other calls fail and succeed meanwhile (handleFallback).                *)
THEOREM OffersStayGood == Spec => []OfferStaysGood
BY DialogAlways, PTL DEF DialogInv

-----------------------------------------------------------------------------
(* Switches of the model.                                                  *)

LEMMA ConsentStep ==
  ASSUME TypeOK, [Next]_vars, active' # active
  PROVE  \/ switches' # switches
         \/ \E c \in Calls : phase[c] = "asking" /\ agreed'[c] = active' /\ offer[c].to = active'
         \/ Resolved(active) = Lite
<1>0. switches \in Nat /\ AvailabilityTypeOK /\ model \in [Calls -> Models]
      /\ agreed \in [Calls -> Names]
  BY CallsAssumption DEF TypeOK
<1>1. CASE \E name \in Names : Switch(name)
  BY <1>0, <1>1 DEF Switch
<1>2. ASSUME NEW c \in Calls, NEW f \in Failures, FallSilently(c, f)
      PROVE  Resolved(active) = Lite
  BY <1>0, <1>2, OfferIsGood DEF FallSilently
<1>3. ASSUME NEW c \in Calls, NEW i \in {"retry_always", "retry_once", "stop"}, Choose(c, i)
      PROVE  phase[c] = "asking" /\ agreed'[c] = active' /\ offer[c].to = active'
  <2>1. i = "retry_always"
    BY <1>3 DEF Choose
  <2> QED
    BY <1>0, <1>3, <2>1 DEF Choose, SwitchTo
<1>4. ASSUME NEW c \in Calls,
             \/ Start(c) \/ Attempt(c) \/ GiveUp(c) \/ Wake(c) \/ InvalidContent(c)
             \/ FailForGood(c) \/ FailForNow(c) \/ AskToVerify(c) \/ Abort(c)
             \/ Succeed(c) \/ Verify(c)
      PROVE  FALSE
  BY <1>4 DEF Start, Attempt, GiveUp, Wake, InvalidContent, FailForGood,
     FailForNow, AskToVerify, Abort, Succeed, Verify
<1>5. ASSUME NEW c \in Calls, NEW f \in Failures,
             RepeatUnasked(c, f) \/ AskUser(c, f) \/ NoFallback(c, f)
      PROVE  FALSE
  BY <1>5 DEF RepeatUnasked, AskUser, NoFallback
<1>6. CASE UNCHANGED vars
  BY <1>6 DEF vars
<1> QED
  BY <1>1, <1>2, <1>3, <1>4, <1>5, <1>6 DEF Next, Progress, Fall

(* Nobody switches the model of the chat unasked: it changes by a command, *)
(* by the user's consent to what the dialog offers, or silently when it is *)
(* the model of the utility calls itself (setModel, activateFallbackMode). *)
THEOREM ConsentNeeded == Spec => SwitchNeedsConsent
<1> DEFINE Consented ==
      active' # active =>
        \/ switches' # switches
        \/ \E c \in Calls : phase[c] = "asking" /\ agreed'[c] = active' /\ offer[c].to = active'
        \/ Resolved(active) = Lite
<1>1. TypeOK /\ [Next]_vars => [Consented]_vars
  BY ConsentStep
<1>2. Spec => [][Consented]_vars
  BY <1>1, ModelTypes, PTL DEF Spec
<1> QED
  BY <1>2 DEF SwitchNeedsConsent
=============================================================================
