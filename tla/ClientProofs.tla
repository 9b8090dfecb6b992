---------------------------- MODULE ClientProofs ----------------------------
(***************************************************************************)
(* What TLAPS proves of the conversation, for any senders, turns, parts,   *)
(* attempts and bounds.                                                    *)
(***************************************************************************)
EXTENDS ClientProperties, FiniteSetTheorems, TLAPS

USE DEF chatVars, streamVars, clientVars, loopVars

-----------------------------------------------------------------------------
(* Sequences of the elements of a finite set.                              *)

LEMMA ArrangedOnce ==
  ASSUME NEW S, IsFiniteSet(S)
  PROVE  /\ SetToSeq(S) \in Seq(S)
         /\ Range(SetToSeq(S)) = S
<1> DEFINE n == Cardinality(S)
<1>1. n \in Nat /\ ExistsBijection(1..n, S)
  BY FS_CardinalityType
<1>2. \E f \in [1..n -> S] : IsInjective(f)
  BY <1>1 DEF ExistsBijection, Bijection, Injection, IsInjective
<1>3. SetToSeq(S) \in [1..n -> S] /\ IsInjective(SetToSeq(S))
  BY <1>2 DEF SetToSeq
<1>4. IsFiniteSet(1..n) /\ Cardinality(1..n) = n
  BY <1>1, FS_Interval
<1>5. SetToSeq(S) \in Injection(1..n, S)
  BY <1>3 DEF Injection
<1>6. SetToSeq(S) \in Surjection(1..n, S)
  BY <1>4, <1>5, FS_Injection
<1> HIDE DEF n
<1> QED
  BY <1>1, <1>3, <1>6 DEF Surjection, Range

LEMMA EveryOrder ==
  ASSUME NEW S, IsFiniteSet(S), NEW f \in SetToSeqs(S)
  PROVE  /\ f \in Seq(S)
         /\ Range(f) = S
         /\ \A i, j \in DOMAIN f : f[i] = f[j] => i = j
<1> DEFINE n == Cardinality(S)
<1>1. n \in Nat
  BY FS_CardinalityType
<1>2. f \in [1..n -> S] /\ IsInjective(f)
  BY DEF SetToSeqs, IsInjective
<1>3. IsFiniteSet(1..n) /\ Cardinality(1..n) = n
  BY <1>1, FS_Interval
<1>4. f \in Injection(1..n, S)
  BY <1>2 DEF Injection
<1>5. f \in Surjection(1..n, S)
  BY <1>3, <1>4, FS_Injection
<1> HIDE DEF n
<1> QED
  BY <1>1, <1>2, <1>5 DEF Surjection, Range, IsInjective

LEMMA Joined ==
  ASSUME NEW S, NEW a \in Seq(S), NEW b \in Seq(S)
  PROVE  /\ a \o b \in Seq(S) /\ Len(a \o b) = Len(a) + Len(b)
         /\ \A i \in 1..Len(a) : (a \o b)[i] = a[i]
         /\ \A i \in 1..Len(b) : (a \o b)[Len(a) + i] = b[i]
OBVIOUS

-----------------------------------------------------------------------------
(* The end of a stream.                                                    *)

(* How the stream of s ends: the messages in next, of those who waited for *)
(* it, follow its answer.                                                  *)
EndsWith(s, how, answer, next) ==
  LET n == Len(history) + Len(answer)
      freed == Freed(s, how)
  IN  /\ next \in Seq(Senders) /\ Range(next) = freed
      /\ \A i, j \in DOMAIN next : next[i] = next[j] => i = j
      /\ history' \in Seq(Entries) /\ Len(history') = n + Len(next)
      /\ \A j \in 1..Len(history) : history'[j] = history[j]
      /\ \A j \in 1..Len(answer) : history'[Len(history) + j] = answer[j]
      /\ \A i \in 1..Len(next) :
           history'[n + i] = outbox[next[i]] /\ request'[next[i]] = n + i
      /\ \A w \in Senders \ freed : request'[w] = IF w = s THEN 0 ELSE request[w]
      /\ tail' = IF next # <<>> THEN next[Len(next)] ELSE IF tail = s THEN Nobody ELSE tail

LEMMA EndIs ==
  ASSUME ChatTypeOK, NEW s \in Senders, NEW how, NEW answer \in Seq(Entries),
         End(s, how, answer)
  PROVE  \E next \in Seq(Senders) : EndsWith(s, how, answer, next)
<1> DEFINE freed == Freed(s, how)
           recorded == history \o answer
<1>1. IsFiniteSet(freed) /\ freed \subseteq Senders
  BY ChatAssumption, FS_Subset DEF Freed
<1>2. PICK next \in SetToSeqs(freed) :
        /\ history' = recorded \o [i \in DOMAIN next |-> outbox[next[i]]]
        /\ request' = [w \in Senders |-> IF w \in Range(next)
                         THEN Len(recorded) + (CHOOSE i \in DOMAIN next : next[i] = w)
                         ELSE IF w = s THEN 0 ELSE request[w]]
        /\ tail' = IF next # <<>> THEN Last(next) ELSE IF tail = s THEN Nobody ELSE tail
  BY DEF End
<1>0. freed = Freed(s, how)
  OBVIOUS
<1> HIDE DEF freed
<1>3. /\ next \in Seq(freed) /\ Range(next) = freed
      /\ \A i, j \in DOMAIN next : next[i] = next[j] => i = j
  BY <1>1, EveryOrder
<1>4. next \in Seq(Senders)
  BY <1>1, <1>3
<1> DEFINE sent == [i \in DOMAIN next |-> outbox[next[i]]]
<1>5. sent \in Seq(Entries) /\ Len(sent) = Len(next) /\ DOMAIN next = 1..Len(next)
  <2>1. DOMAIN next = 1..Len(next) /\ Len(next) \in Nat
    BY <1>4
  <2>2. \A i \in DOMAIN next : outbox[next[i]] \in Entries
    BY <1>4 DEF ChatTypeOK
  <2>3. sent \in [1..Len(next) -> Entries]
    BY <2>1, <2>2
  <2> HIDE DEF sent
  <2> QED
    BY <2>1, <2>3
<1>6. \A i \in DOMAIN next : sent[i] = outbox[next[i]]
  OBVIOUS
<1>7. history' = recorded \o sent
  BY <1>2
<1> HIDE DEF sent
<1>8. /\ recorded \in Seq(Entries) /\ Len(recorded) = Len(history) + Len(answer)
      /\ \A j \in 1..Len(history) : recorded[j] = history[j]
      /\ \A j \in 1..Len(answer) : recorded[Len(history) + j] = answer[j]
  BY DEF ChatTypeOK
<1>9. Len(history) \in Nat /\ Len(answer) \in Nat /\ Len(next) \in Nat
  BY <1>4 DEF ChatTypeOK
<1> HIDE DEF recorded
<1>10. /\ history' \in Seq(Entries) /\ Len(history') = Len(recorded) + Len(next)
       /\ \A j \in 1..Len(recorded) : history'[j] = recorded[j]
       /\ \A i \in 1..Len(next) : history'[Len(recorded) + i] = sent[i]
  <2> HIDE DEF Entries
  <2>1. recorded \in Seq(Entries) /\ sent \in Seq(Entries)
    BY <1>5, <1>8
  <2>2. /\ recorded \o sent \in Seq(Entries)
        /\ Len(recorded \o sent) = Len(recorded) + Len(sent)
        /\ \A i \in 1..Len(recorded) : (recorded \o sent)[i] = recorded[i]
        /\ \A i \in 1..Len(sent) : (recorded \o sent)[Len(recorded) + i] = sent[i]
    BY <2>1, Joined
  <2> QED
    BY <1>5, <1>7, <2>2
<1>11. \A i \in 1..Len(next) : request'[next[i]] = Len(recorded) + i
  <2> SUFFICES ASSUME NEW i \in 1..Len(next) PROVE request'[next[i]] = Len(recorded) + i
    OBVIOUS
  <2>1. next[i] \in Senders /\ next[i] \in Range(next)
    BY <1>4, <1>5 DEF Range
  <2>2. (CHOOSE k \in DOMAIN next : next[k] = next[i]) = i
    BY <1>3, <1>5
  <2> QED
    BY <1>2, <2>1, <2>2
<1>12. \A w \in Senders \ freed : request'[w] = IF w = s THEN 0 ELSE request[w]
  BY <1>2, <1>3
<1>13. \A j \in 1..Len(answer) : history'[Len(history) + j] = answer[j]
  BY <1>8, <1>9, <1>10
<1>14. \A j \in 1..Len(history) : history'[j] = history[j]
  BY <1>8, <1>9, <1>10
<1>15. tail' = IF next # <<>> THEN next[Len(next)] ELSE IF tail = s THEN Nobody ELSE tail
  BY <1>2 DEF Last
<1> QED
  <2>1. \A i \in 1..Len(next) : history'[Len(recorded) + i] = outbox[next[i]]
    BY <1>5, <1>6, <1>10
  <2> HIDE DEF Entries
  <2> QED
    BY <1>0, <1>3, <1>4, <1>8, <1>10, <1>11, <1>12, <1>13, <1>14, <1>15, <2>1
    DEF EndsWith

-----------------------------------------------------------------------------
(* Types.                                                                  *)

(* The types of what a step changes: of the chat but its outbox, and of    *)
(* the client.                                                             *)
StreamTypeOK ==
  /\ history \in Seq(Entries) /\ tail \in Senders \cup {Nobody}
  /\ behind \in [Senders -> Senders \cup {Nobody}]
  /\ phase \in [Senders -> {"idle", "queued", "connecting", "streaming", "pausing"}]
  /\ request \in [Senders -> Nat] /\ attempt \in [Senders -> 0..MaxAttempts]
  /\ got \in [Senders -> Seq(Parts)]
  /\ finish \in [Senders -> BOOLEAN]
  /\ result \in [Senders -> Results] /\ calls \in 0..MaxCalls

TurnTypeOK ==
  /\ outbox \in [Senders -> Entries]
  /\ run \in [Senders -> {"idle", "entering", "routing", "sending", "tools"}]
  /\ bound \in [Senders -> 0..MaxTurns] /\ again \in [Senders -> BOOLEAN]
  /\ pending \in [Senders -> SUBSET Parts] /\ asked \in [Senders -> SUBSET Parts]
  /\ dropped \subseteq Parts

LoopTypeOK ==
  /\ lastPrompt \in Senders \cup {Nobody} /\ detected \in BOOLEAN /\ count \in 0..2

(* Who streams or waits is sending; who may go on has a turn left; a loop  *)
(* is detected at most once before the prompt ends; who tries again may.   *)
TurnInv ==
  /\ \A s \in Senders : phase[s] # "idle" => run[s] = "sending"
  /\ \A s \in Senders : run[s] \in {"routing", "sending"} => bound[s] > 0
  /\ detected \/ count <= 1
  /\ \A s \in Senders : phase[s] = "pausing" => attempt[s] < MaxAttempts
  /\ \A s \in Senders : behind[s] # Nobody => phase[s] = "queued"

TypeInv == TypeOK /\ TurnInv

LEMMA TypesTogether ==
  TypeOK <=> /\ StreamTypeOK /\ TurnTypeOK /\ LoopTypeOK
             /\ consumer \in {"ui", "session", "a2a"}
             /\ aborted \subseteq Senders /\ prompts \in 0..MaxPrompts
BY DEF TypeOK, ChatTypeOK, StreamTypeOK, TurnTypeOK, LoopTypeOK

LEMMA TypesTogetherNext ==
  ASSUME StreamTypeOK', TurnTypeOK', LoopTypeOK',
         consumer' \in {"ui", "session", "a2a"},
         aborted' \subseteq Senders, prompts' \in 0..MaxPrompts
  PROVE  TypeOK'
BY DEF TypeOK, ChatTypeOK, StreamTypeOK, TurnTypeOK, LoopTypeOK

LEMMA MessageType ==
  ASSUME NEW s \in Senders, NEW kind \in Kinds, NEW parts \in Seq(Parts)
  PROVE  Message(s, kind, parts) \in Entries
BY DEF Message, Entries

LEMMA PartsOf ==
  ASSUME NEW parts \in Seq(Parts)
  PROVE  CallsOf(parts) \subseteq Parts
BY DEF CallsOf, Range

LEMMA EmptyParts == <<>> \in Seq(Parts)
OBVIOUS

LEMMA EndTypes ==
  ASSUME TypeOK, NEW s \in Senders, NEW how \in Results, NEW answer \in Seq(Entries),
         End(s, how, answer)
  PROVE  StreamTypeOK'
<1>1. ChatTypeOK
  BY DEF TypeOK
<1>2. PICK next \in Seq(Senders) : EndsWith(s, how, answer, next)
  BY <1>1, EndIs
<1>3. history' \in Seq(Entries)
  BY <1>2 DEF EndsWith
<1>4. tail' \in Senders \cup {Nobody}
  <2>1. next # <<>> => next[Len(next)] \in Senders
    OBVIOUS
  <2> QED
    BY <2>1, <1>1, <1>2 DEF EndsWith, ChatTypeOK
<1>5. request' \in [Senders -> Nat]
  <2>1. \A w \in Senders : request'[w] \in Nat
    <3> SUFFICES ASSUME NEW w \in Senders PROVE request'[w] \in Nat
      OBVIOUS
    <3>1. CASE w \in Freed(s, how)
      <4>1. PICK i \in 1..Len(next) : next[i] = w
        BY <1>2, <3>1 DEF EndsWith, Range
      <4>2. request'[next[i]] = Len(history) + Len(answer) + i
        BY <1>2, <4>1 DEF EndsWith
      <4> QED
        BY <4>1, <4>2, <1>1 DEF ChatTypeOK
    <3>2. CASE w \notin Freed(s, how)
      <4>1. request'[w] = IF w = s THEN 0 ELSE request[w]
        BY <3>2, <1>2 DEF EndsWith
      <4> QED
        BY <4>1, <1>1 DEF ChatTypeOK
    <3> QED
      BY <3>1, <3>2
  <2>2. request' = [w \in Senders |-> request'[w]]
    <3>1. PICK seq \in SetToSeqs(Freed(s, how)) :
            request' = [w \in Senders |-> IF w \in Range(seq)
                         THEN Len(history \o answer) + (CHOOSE i \in DOMAIN seq : seq[i] = w)
                         ELSE IF w = s THEN 0 ELSE request[w]]
      BY DEF End
    <3> QED
      BY <3>1
  <2> QED
    BY <2>1, <2>2
<1>6. /\ behind' \in [Senders -> Senders \cup {Nobody}]
      /\ phase' \in [Senders -> {"idle", "queued", "connecting", "streaming", "pausing"}]
  BY <1>1 DEF End, ChatTypeOK
<1>7. /\ attempt' \in [Senders -> 0..MaxAttempts] /\ result' \in [Senders -> Results]
      /\ calls' \in 0..MaxCalls
  BY <1>1, ChatAssumption DEF End, ChatTypeOK
<1>8. got' \in [Senders -> Seq(Parts)]
  BY <1>1, EmptyParts DEF End, ChatTypeOK
<1>9. finish' \in [Senders -> BOOLEAN]
  BY <1>1 DEF End, ChatTypeOK
<1> QED
  BY <1>3, <1>4, <1>5, <1>6, <1>7, <1>8, <1>9 DEF StreamTypeOK

LEMMA EndShape ==
  ASSUME TypeOK, NEW s \in Senders, NEW how, NEW answer, End(s, how, answer)
  PROVE  /\ phase' = [w \in Senders |-> IF w = s THEN "idle"
                        ELSE IF w \in Freed(s, how) THEN "connecting" ELSE phase[w]]
         /\ behind' = [w \in Senders |-> IF w \in Freed(s, how) THEN Nobody ELSE behind[w]]
<1>1. IsFiniteSet(Freed(s, how))
  BY ChatAssumption, FS_Subset DEF Freed
<1>2. PICK next \in SetToSeqs(Freed(s, how)) :
        /\ phase' = [w \in Senders |-> IF w = s THEN "idle"
                       ELSE IF w \in Range(next) THEN "connecting" ELSE phase[w]]
        /\ behind' = [w \in Senders |-> IF w \in Range(next) THEN Nobody ELSE behind[w]]
  BY DEF End
<1>3. Range(next) = Freed(s, how)
  BY <1>1, EveryOrder
<1> QED
  BY <1>2, <1>3

LEMMA OverTypes ==
  ASSUME TypeOK, NEW s \in Senders, NEW how, NEW lost \in SUBSET Parts,
         Over(s, how, lost)
  PROVE  TurnTypeOK'
<1>1. Message(s, "prompt", <<>>) \in Entries
  BY MessageType, EmptyParts DEF Kinds
<1>2. outbox' \in [Senders -> Entries]
  BY <1>1 DEF Over, TypeOK, ChatTypeOK
<1>3. /\ run' \in [Senders -> {"idle", "entering", "routing", "sending", "tools"}]
      /\ bound' \in [Senders -> 0..MaxTurns]
  <2>1. Goes(s, "tools") \/ Goes(s, "idle")
    BY DEF Over
  <2>2. bound' = [bound EXCEPT ![s] = 0]
    BY DEF Over
  <2> QED
    BY <2>1, <2>2, TurnsAssumption DEF Goes, TypeOK
<1>4. /\ pending' \in [Senders -> SUBSET Parts] /\ asked' \in [Senders -> SUBSET Parts]
      /\ dropped' \subseteq Parts
  <2> HIDE DEF Parts
  <2>1. asked[s] \subseteq Parts
    BY DEF TypeOK
  <2>2. pending' \in [Senders -> SUBSET Parts]
    BY DEF Over, TypeOK
  <2> QED
    BY <2>1, <2>2 DEF Over, TypeOK
<1>5. again' \in [Senders -> BOOLEAN]
  BY DEF Over, TypeOK
<1> QED
  BY <1>2, <1>3, <1>4, <1>5 DEF TurnTypeOK

LEMMA RequestTypes ==
  ASSUME TypeOK, NEW s \in Senders, NEW kind \in Kinds, NEW parts \in Seq(Parts),
         NEW turns \in 0..MaxTurns, NEW retry \in BOOLEAN,
         Request(s, kind, parts, turns, retry)
  PROVE  /\ outbox' \in [Senders -> Entries]
         /\ run' \in [Senders -> {"idle", "entering", "routing", "sending", "tools"}]
         /\ bound' \in [Senders -> 0..MaxTurns] /\ again' \in [Senders -> BOOLEAN]
<1>1. outbox' \in [Senders -> Entries]
  BY MessageType DEF Request, TypeOK, ChatTypeOK
<1>2. /\ run' \in [Senders -> {"idle", "entering", "routing", "sending", "tools"}]
      /\ bound' \in [Senders -> 0..MaxTurns]
  BY DEF Request, Goes, TypeOK
<1>3. again' \in [Senders -> BOOLEAN]
  BY DEF Request, TypeOK
<1> QED
  BY <1>1, <1>2, <1>3

LEMMA RecurseTypes ==
  ASSUME TypeOK, NEW s \in Senders, NEW kind \in Kinds, NEW retry \in BOOLEAN,
         NEW lost \in SUBSET Parts, bound[s] > 0, Recurse(s, kind, retry, lost)
  PROVE  TurnTypeOK'
<1>1. LessBound(s) \in 0..MaxTurns
  BY TurnsAssumption DEF LessBound, TypeOK
<1>2. /\ outbox' \in [Senders -> Entries]
      /\ run' \in [Senders -> {"idle", "entering", "routing", "sending", "tools"}]
      /\ bound' \in [Senders -> 0..MaxTurns] /\ again' \in [Senders -> BOOLEAN]
  <2>1. Request(s, kind, <<>>, LessBound(s), retry)
    BY DEF Recurse
  <2> HIDE DEF Kinds
  <2> QED
    BY <1>1, <2>1, RequestTypes, EmptyParts
<1>3. /\ pending' \in [Senders -> SUBSET Parts] /\ asked' \in [Senders -> SUBSET Parts]
      /\ dropped' \subseteq Parts
  BY DEF Recurse, TypeOK
<1> QED
  BY <1>2, <1>3 DEF TurnTypeOK

(* The number of a detection.                                              *)
Detection == IF detected THEN count ELSE count + 1

LEMMA OnLoopTypes ==
  ASSUME TypeInv, NEW s \in Senders, NEW lost \in SUBSET Parts,
         OnLoop(s, Detection, lost)
  PROVE  /\ TurnTypeOK' /\ LoopTypeOK'
         /\ detected' \/ count' <= 1
<1>1. TypeOK /\ Detection \in 0..2
  BY DEF TypeInv, TurnInv, TypeOK, Detection
<1> DEFINE n == Detection
<1> HIDE DEF n
<1>2. OnLoop(s, n, lost) /\ n \in 0..2
  BY <1>1 DEF n
<1>3. CASE n > 1 \/ bound[s] <= 1
  <2>1. Over(s, "left", lost) /\ detected' = TRUE /\ count' = n /\ UNCHANGED lastPrompt
    BY <1>2, <1>3 DEF OnLoop
  <2> QED
    BY <1>1, <1>2, <2>1, OverTypes DEF LoopTypeOK, TypeOK
<1>4. CASE ~(n > 1 \/ bound[s] <= 1)
  <2>1. /\ Recurse(s, "feedback", again[s], lost)
        /\ detected' = FALSE /\ count' = n /\ UNCHANGED lastPrompt
    BY <1>2, <1>4 DEF OnLoop, CountKept
  <2>2. n <= 1 /\ bound[s] > 0
    BY <1>1, <1>2, <1>4 DEF TypeOK
  <2>3. again[s] \in BOOLEAN /\ "feedback" \in Kinds
    BY <1>1 DEF TypeOK, Kinds
  <2>4. TurnTypeOK'
    BY <1>1, <2>1, <2>2, <2>3, RecurseTypes
  <2> QED
    BY <1>1, <1>2, <2>1, <2>2, <2>4 DEF LoopTypeOK, TypeOK
<1> QED
  BY <1>3, <1>4

(* The stream of s ends, with its answer or without.                       *)
Ends(s) ==
  \E how \in Results :
    \/ how = "done" /\ phase[s] = "streaming" /\ End(s, how, <<Answer(s)>>)
    \/ how # "done" /\ phase[s] \in {"connecting", "streaming"} /\ End(s, how, <<>>)

(* It is to be tried again.                                                *)
Breaks(s) == phase[s] = "streaming" /\ attempt[s] < MaxAttempts /\ Pause(s)

LEMMA StreamIs ==
  ASSUME NEW s, Stream(s)
  PROVE  Ends(s) \/ Connect(s) \/ Breaks(s) \/ Retry(s)
<1>1. "done" \in Results /\ "error" \in Results /\ "invalid" \in Results /\ "blocked" \in Results
  BY DEF Results
<1>2. CASE Connect(s) \/ Retry(s)
  BY <1>2
<1>3. CASE Complete(s)
  BY <1>1, <1>3 DEF Complete, Ends
<1>4. CASE Invalid(s)
  BY <1>1, <1>4 DEF Invalid, Ends, Breaks
<1>5. CASE Break(s)
  BY <1>1, <1>5 DEF Break, Ends, Breaks
<1>6. CASE Fail(s) \/ HookEnds(s)
  BY <1>1, <1>6 DEF Fail, HookEnds, Ends
<1> QED
  BY <1>2, <1>3, <1>4, <1>5, <1>6 DEF Stream

LEMMA LeaveIs ==
  ASSUME NEW s, Leave(s)
  PROVE  Ends(s)
BY DEF Leave, Ends, Results

LEMMA AnswerType ==
  ASSUME TypeOK, NEW s \in Senders
  PROVE  <<Answer(s)>> \in Seq(Entries)
<1>1. Answer(s) \in Entries
  BY DEF Answer, Entries, Kinds, TypeOK, ChatTypeOK
<1> QED
  BY <1>1

LEMMA EndsTypes ==
  ASSUME TypeOK, NEW s \in Senders, Ends(s)
  PROVE  StreamTypeOK'
<1>1. <<Answer(s)>> \in Seq(Entries) /\ <<>> \in Seq(Entries)
  BY AnswerType
<1> HIDE DEF Entries
<1> QED
  BY <1>1, EndTypes DEF Ends

LEMMA TypeInitial == Init => TypeInv
<1> SUFFICES ASSUME Init PROVE TypeInv
  OBVIOUS
<1>1. \A s \in Senders : Message(s, "prompt", <<>>) \in Entries
  BY MessageType, EmptyParts DEF Kinds
<1>2. ChatTypeOK
  BY <1>1, ChatAssumption, EmptyParts DEF Init, ChatInit, ChatTypeOK, Results
<1>3. TypeOK
  <2>1. /\ pending \in [Senders -> SUBSET Parts] /\ asked \in [Senders -> SUBSET Parts]
        /\ dropped \subseteq Parts
    BY DEF Init
  <2>2. again \in [Senders -> BOOLEAN] /\ detected \in BOOLEAN
    BY DEF Init
  <2>3. /\ run \in [Senders -> {"idle", "entering", "routing", "sending", "tools"}]
        /\ bound \in [Senders -> 0..MaxTurns]
        /\ aborted \subseteq Senders /\ lastPrompt \in Senders \cup {Nobody}
        /\ count \in 0..2 /\ prompts \in 0..MaxPrompts
        /\ consumer \in {"ui", "session", "a2a"}
    BY TurnsAssumption DEF Init
  <2> QED
    BY <1>2, <2>1, <2>2, <2>3 DEF TypeOK
<1>4. TurnInv
  BY DEF Init, ChatInit, TurnInv
<1> QED
  BY <1>3, <1>4 DEF TypeInv

LEMMA StreamTypes ==
  ASSUME TypeInv, NEW s \in Senders, Connect(s) \/ Breaks(s) \/ Retry(s)
  PROVE  StreamTypeOK'
<1>1. StreamTypeOK /\ TypeOK
  BY TypesTogether DEF TypeInv
<1>2. CASE Connect(s)
  BY <1>1, <1>2 DEF Connect, StreamTypeOK
<1>3. CASE Breaks(s)
  <2>1. got' \in [Senders -> Seq(Parts)]
    BY <1>1, <1>3, EmptyParts DEF Breaks, Pause, StreamTypeOK
  <2>2. finish' \in [Senders -> BOOLEAN]
    BY <1>1, <1>3 DEF Breaks, Pause, StreamTypeOK
  <2> QED
    BY <1>1, <1>3, <2>1, <2>2 DEF Breaks, Pause, StreamTypeOK
<1>4. CASE Retry(s)
  <2>1. attempt' \in [Senders -> 0..MaxAttempts]
    <3>1. attempt[s] < MaxAttempts
      BY <1>4 DEF Retry, TypeInv, TurnInv
    <3> QED
      BY <1>1, <1>4, <3>1, ChatAssumption DEF Retry, StreamTypeOK
  <2> QED
    BY <1>1, <1>4, <2>1 DEF Retry, StreamTypeOK
<1> QED
  BY <1>2, <1>3, <1>4

LEMMA TypeOfPrompt ==
  ASSUME TypeInv, NEW s \in Senders, Prompt(s)
  PROVE  TypeOK'
<1>1. TypeOK
  BY DEF TypeInv
<1>2. Request(s, "prompt", <<>>, TurnsOf(s), FALSE)
  BY DEF Prompt
<1>3. TurnsOf(s) \in 0..MaxTurns /\ "prompt" \in Kinds /\ FALSE \in BOOLEAN
  BY TurnsAssumption DEF TurnsOf, Kinds
<1>4. TurnTypeOK'
  <2> HIDE DEF Kinds, Parts, Entries
  <2>1. /\ outbox' \in [Senders -> Entries]
        /\ run' \in [Senders -> {"idle", "entering", "routing", "sending", "tools"}]
        /\ bound' \in [Senders -> 0..MaxTurns] /\ again' \in [Senders -> BOOLEAN]
    BY <1>1, <1>2, <1>3, EmptyParts, RequestTypes
  <2> QED
    BY <1>1, <2>1 DEF Prompt, TurnTypeOK, TypeOK
<1>5. StreamTypeOK'
  BY <1>1, TypesTogether DEF Prompt, StreamTypeOK
<1>6. LoopTypeOK'
  BY <1>1 DEF Prompt, TypeOK, LoopTypeOK
<1>7. prompts' \in 0..MaxPrompts /\ aborted' \subseteq Senders /\ consumer' = consumer
  BY <1>1, TurnsAssumption DEF Prompt, TypeOK
<1> QED
  BY <1>1, <1>4, <1>5, <1>6, <1>7, TypesTogetherNext DEF TypeOK

LEMMA TypeOfBegin ==
  ASSUME TypeInv, NEW s \in Senders, BeginTurn(s)
  PROVE  TypeOK'
<1>1. TypeOK
  BY DEF TypeInv
<1>2. LoopTypeOK'
  <2>1. CASE lastPrompt = s
    <3>1. UNCHANGED loopVars
      BY <2>1 DEF BeginTurn, ResetDetector
    <3> QED
      BY <1>1, <3>1 DEF TypeOK, LoopTypeOK
  <2>2. CASE lastPrompt # s
    <3>1. lastPrompt' = s /\ detected' = FALSE /\ count' = 0
      BY <2>2 DEF BeginTurn, ResetDetector
    <3>2. detected' \in BOOLEAN /\ lastPrompt' \in Senders \cup {Nobody}
      BY <3>1
    <3>3. count' \in 0..2
      BY <3>1
    <3> QED
      BY <3>2, <3>3 DEF LoopTypeOK
  <2> QED
    BY <2>1, <2>2
<1>3. TurnTypeOK' /\ history' \in Seq(Entries)
  <2>1. CASE Over(s, "left", Unsent(s)) /\ UNCHANGED history
    <3>1. Unsent(s) \subseteq Parts
      BY <1>1, PartsOf DEF Unsent, TypeOK, ChatTypeOK, Entries
    <3> QED
      BY <1>1, <2>1, <3>1, OverTypes DEF TypeOK, ChatTypeOK
  <2>2. CASE /\ Goes(s, "routing") /\ history' \in {history} \cup Contexts(s)
             /\ UNCHANGED <<outbox, bound, again, pending, asked, dropped>>
    <3>1. TurnTypeOK'
      BY <1>1, <2>2 DEF Goes, TypeOK, ChatTypeOK, TurnTypeOK
    <3>2. Message(s, "context", <<>>) \in Entries
      BY MessageType, EmptyParts DEF Kinds
    <3>3. history \in Seq(Entries)
      BY <1>1 DEF TypeOK, ChatTypeOK
    <3>4. history' = history \/ history' = Append(history, Message(s, "context", <<>>))
      BY <2>2 DEF Contexts, WithContext
    <3> HIDE DEF Entries
    <3> QED
      BY <3>1, <3>2, <3>3, <3>4
  <2> QED
    BY <2>1, <2>2 DEF BeginTurn
<1>4. StreamTypeOK'
  BY <1>1, <1>3 DEF BeginTurn, StreamTypeOK, TypeOK, ChatTypeOK
<1> QED
  BY <1>1, <1>2, <1>3, <1>4, TypesTogetherNext DEF BeginTurn, TypeOK

LEMMA TypeOfLoop ==
  ASSUME TypeInv, NEW s \in Senders, LoopAtStart(s) \/ SeeLoop(s)
  PROVE  TypeOK'
<1>1. TypeOK
  BY DEF TypeInv
<1>2. Unsent(s) \in SUBSET Parts /\ {} \in SUBSET Parts
  BY <1>1, PartsOf DEF Unsent, TypeOK, ChatTypeOK, Entries
<1>3. \E lost \in SUBSET Parts : OnLoop(s, Detection, lost)
  BY <1>2 DEF LoopAtStart, SeeLoop, Detection
<1>4. TurnTypeOK' /\ LoopTypeOK'
  BY <1>3, OnLoopTypes
<1>5. StreamTypeOK'
  <2>1. CASE LoopAtStart(s)
    BY <2>1, <1>1, TypesTogether DEF LoopAtStart, StreamTypeOK
  <2>2. CASE SeeLoop(s)
    BY <2>2, <1>1, LeaveIs, EndsTypes DEF SeeLoop
  <2> QED
    BY <2>1, <2>2
<1> QED
  BY <1>1, <1>4, <1>5, TypesTogetherNext DEF LoopAtStart, SeeLoop, TypeOK

LEMMA SendTypes ==
  ASSUME TypeOK, NEW s \in Senders, Send(s)
  PROVE  StreamTypeOK'
<1>1. StreamTypeOK /\ outbox[s] \in Entries
  BY TypesTogether DEF TurnTypeOK
<1>2. attempt' \in [Senders -> 0..MaxAttempts]
  BY <1>1, ChatAssumption DEF Send, StreamTypeOK
<1>3. /\ history' \in Seq(Entries) /\ request' \in [Senders -> Nat]
      /\ tail' \in Senders \cup {Nobody} /\ behind' \in [Senders -> Senders \cup {Nobody}]
      /\ phase' \in [Senders -> {"idle", "queued", "connecting", "streaming", "pausing"}]
  <2> HIDE DEF Entries
  <2>1. CASE Free
    <3>1. history' = Append(history, outbox[s]) /\ history \in Seq(Entries)
      BY <1>1, <2>1 DEF Send, StreamTypeOK
    <3>2. history' \in Seq(Entries) /\ Len(history) + 1 \in Nat
      BY <1>1, <3>1
    <3>3. /\ request' = [request EXCEPT ![s] = Len(history) + 1]
          /\ phase' = [phase EXCEPT ![s] = "connecting"] /\ tail' = s /\ UNCHANGED behind
      BY <2>1 DEF Send
    <3> QED
      BY <1>1, <3>2, <3>3 DEF StreamTypeOK
  <2>2. CASE ~Free
    BY <1>1, <2>2 DEF Send, StreamTypeOK
  <2> QED
    BY <2>1, <2>2
<1> QED
  BY <1>1, <1>2, <1>3 DEF Send, StreamTypeOK

LEMMA TypeOfSend ==
  ASSUME TypeInv, NEW s \in Senders, SendMessage(s)
  PROVE  TypeOK'
<1>1. TypeOK
  BY DEF TypeInv
<1>2. StreamTypeOK'
  BY <1>1, SendTypes DEF SendMessage
<1>3. TurnTypeOK' /\ LoopTypeOK'
  BY <1>1, TypesTogether DEF SendMessage, Goes, TurnTypeOK, LoopTypeOK
<1> QED
  BY <1>1, <1>2, <1>3, TypesTogetherNext DEF SendMessage, TypeOK

LEMMA TypeOfPart ==
  ASSUME TypeInv, NEW s \in Senders, SeePart(s)
  PROVE  TypeOK'
<1>1. TypeOK /\ StreamTypeOK /\ TurnTypeOK /\ LoopTypeOK
  BY TypesTogether DEF TypeInv
<1>2. PICK part \in Parts, seen \in Parts :
        /\ Part(s, part)
        /\ pending' = [pending EXCEPT ![s] = @ \cup ({seen} \ {0})]
        /\ asked' = [asked EXCEPT ![s] = @ \cup ({seen} \ {0})]
        /\ dropped' = dropped \cup ({part} \ {0, seen})
  <2>1. 0 \in Parts
    BY ChatAssumption DEF Parts
  <2> HIDE DEF Parts
  <2> QED
    BY <2>1 DEF SeePart
<1>3. calls' \in 0..MaxCalls
  BY <1>1, <1>2 DEF Part, StreamTypeOK, Parts
<1>4. /\ got' \in [Senders -> Seq(Parts)]
      /\ pending' \in [Senders -> SUBSET Parts] /\ asked' \in [Senders -> SUBSET Parts]
      /\ dropped' \subseteq Parts
  <2> HIDE DEF Parts
  <2>1. pending[s] \subseteq Parts /\ asked[s] \subseteq Parts /\ dropped \subseteq Parts
    BY <1>1 DEF TurnTypeOK
  <2>2. got' \in [Senders -> Seq(Parts)]
    BY <1>1, <1>2 DEF Part, StreamTypeOK
  <2> QED
    BY <1>1, <1>2, <2>1, <2>2 DEF TurnTypeOK
<1>5. StreamTypeOK'
  BY <1>1, <1>2, <1>3, <1>4 DEF Part, StreamTypeOK
<1>6. TurnTypeOK' /\ LoopTypeOK'
  BY <1>1, <1>4 DEF SeePart, TurnTypeOK, LoopTypeOK
<1> QED
  BY <1>1, <1>5, <1>6, TypesTogetherNext DEF SeePart, TypeOK

LEMMA TypeOfStream ==
  ASSUME TypeInv, NEW s \in Senders, Stream(s) \/ SeeFinish(s)
  PROVE  TypeOK'
<1>1. TypeOK /\ StreamTypeOK /\ TurnTypeOK /\ LoopTypeOK
  BY TypesTogether DEF TypeInv
<1>2. StreamTypeOK'
  <2>1. CASE Stream(s)
    BY <1>1, <2>1, StreamIs, StreamTypes, EndsTypes
  <2>2. CASE SeeFinish(s)
    <3>1. finish' \in [Senders -> BOOLEAN]
      BY <1>1, <2>2 DEF SeeFinish, Finishes, StreamTypeOK
    <3> QED
      BY <1>1, <2>2, <3>1 DEF SeeFinish, Finishes, StreamTypeOK
  <2> QED
    BY <2>1, <2>2
<1>3. TurnTypeOK' /\ LoopTypeOK'
  BY <1>1 DEF Stream, SeeFinish, TurnTypeOK, LoopTypeOK
<1> QED
  BY <1>1, <1>2, <1>3, TypesTogetherNext DEF Stream, SeeFinish, TypeOK

LEMMA TypeOfEnd ==
  ASSUME TypeInv, NEW s \in Senders,
         SessionFinishes(s) \/ SeeAbort(s) \/ StopAfterStream(s)
           \/ GoOnAfterInvalid(s) \/ SpeaksNext(s)
  PROVE  TypeOK'
<1>1. TypeOK /\ StreamTypeOK /\ TurnTypeOK /\ LoopTypeOK
  BY TypesTogether DEF TypeInv
<1>2. StreamTypeOK'
  <2>1. CASE SessionFinishes(s) \/ SeeAbort(s)
    BY <2>1, <1>1, LeaveIs, EndsTypes DEF SessionFinishes, SeeAbort
  <2>2. CASE StopAfterStream(s) \/ GoOnAfterInvalid(s) \/ SpeaksNext(s)
    <3>1. \E how : Streamed(s, how)
      BY <2>2 DEF StopAfterStream, GoOnAfterInvalid, SpeaksNext
    <3> QED
      BY <1>1, <3>1 DEF Streamed, StreamTypeOK, Results
  <2> QED
    BY <2>1, <2>2
<1>3. TurnTypeOK'
  <2>1. CASE SessionFinishes(s) \/ SeeAbort(s) \/ StopAfterStream(s)
    BY <1>1, <2>1, OverTypes DEF SessionFinishes, SeeAbort, StopAfterStream
  <2>2. CASE GoOnAfterInvalid(s) \/ SpeaksNext(s)
    <3>1. bound[s] > 0
      BY <2>2 DEF TypeInv, TurnInv, GoOnAfterInvalid, SpeaksNext, Streamed
    <3>2. "continue" \in Kinds
      BY DEF Kinds
    <3>3. PICK retry \in BOOLEAN : Recurse(s, "continue", retry, {})
      BY <2>2 DEF GoOnAfterInvalid, SpeaksNext
    <3> HIDE DEF Kinds
    <3> QED
      BY <1>1, <3>1, <3>2, <3>3, RecurseTypes
  <2> QED
    BY <2>1, <2>2
<1>4. LoopTypeOK'
  BY <1>1 DEF SessionFinishes, SeeAbort, StopAfterStream, GoOnAfterInvalid, SpeaksNext,
     LoopTypeOK
<1> QED
  BY <1>1, <1>2, <1>3, <1>4, TypesTogetherNext
  DEF SessionFinishes, SeeAbort, StopAfterStream, GoOnAfterInvalid, SpeaksNext, TypeOK

LEMMA ResponsesType ==
  ASSUME TypeOK, NEW s \in Senders
  PROVE  /\ SetToSeq(asked[s]) \in Seq(Parts) /\ Range(SetToSeq(asked[s])) = asked[s]
         /\ Responses(s) \in Entries
<1>1. asked[s] \subseteq Parts
  BY DEF TypeOK
<1>2. IsFiniteSet(Parts)
  BY ChatAssumption, FS_Interval DEF Parts
<1>3. IsFiniteSet(asked[s])
  BY <1>1, <1>2, FS_Subset
<1>4. SetToSeq(asked[s]) \in Seq(asked[s]) /\ Range(SetToSeq(asked[s])) = asked[s]
  BY <1>3, ArrangedOnce
<1>5. SetToSeq(asked[s]) \in Seq(Parts)
  BY <1>1, <1>4
<1>6. "responses" \in Kinds
  BY DEF Kinds
<1> QED
  BY <1>4, <1>5, <1>6, MessageType DEF Responses

LEMMA TypeOfTools ==
  ASSUME TypeInv, NEW s \in Senders,
         Respond(s) \/ RecordCancelled(s) \/ DropResults(s) \/ Abort(s)
  PROVE  TypeOK'
<1>1. TypeOK /\ StreamTypeOK /\ TurnTypeOK /\ LoopTypeOK
  BY TypesTogether DEF TypeInv
<1>2. SetToSeq(asked[s]) \in Seq(Parts) /\ Responses(s) \in Entries
  BY <1>1, ResponsesType
<1>3. LoopTypeOK' /\ aborted' \subseteq Senders /\ UNCHANGED <<consumer, prompts>>
  BY <1>1 DEF Respond, RecordCancelled, DropResults, Abort, LoopTypeOK, TypeOK
<1>4. StreamTypeOK'
  <2>1. CASE RecordCancelled(s)
    <3> HIDE DEF Entries
    <3>1. history' \in Seq(Entries)
      BY <1>1, <1>2, <2>1 DEF RecordCancelled, StreamTypeOK
    <3> QED
      BY <1>1, <2>1, <3>1 DEF RecordCancelled, StreamTypeOK
  <2>2. CASE Respond(s) \/ DropResults(s) \/ Abort(s)
    BY <1>1, <2>2 DEF Respond, DropResults, Abort, StreamTypeOK
  <2> QED
    BY <2>1, <2>2
<1>5. TurnTypeOK'
  <2> HIDE DEF Entries, Parts
  <2>1. CASE Respond(s)
    <3>1. "responses" \in Kinds /\ MaxTurns \in 0..MaxTurns /\ FALSE \in BOOLEAN
      BY TurnsAssumption DEF Kinds
    <3>2. /\ outbox' \in [Senders -> Entries]
          /\ run' \in [Senders -> {"idle", "entering", "routing", "sending", "tools"}]
          /\ bound' \in [Senders -> 0..MaxTurns] /\ again' \in [Senders -> BOOLEAN]
      BY <1>1, <1>2, <2>1, <3>1, RequestTypes DEF Respond
    <3>3. /\ asked' = [asked EXCEPT ![s] = {}]
          /\ UNCHANGED <<pending, dropped>>
      BY <2>1 DEF Respond
    <3>4. /\ pending' \in [Senders -> SUBSET Parts] /\ asked' \in [Senders -> SUBSET Parts]
          /\ dropped' \subseteq Parts
      BY <1>1, <3>3 DEF TurnTypeOK
    <3> QED
      BY <3>2, <3>4 DEF TurnTypeOK
  <2>2. CASE RecordCancelled(s) \/ DropResults(s)
    <3>1. asked[s] \subseteq Parts
      BY <1>1 DEF TurnTypeOK
    <3> QED
      BY <1>1, <2>2, <3>1 DEF RecordCancelled, DropResults, Goes, TurnTypeOK
  <2>3. CASE Abort(s)
    BY <1>1, <2>3 DEF Abort, TurnTypeOK
  <2> QED
    BY <2>1, <2>2, <2>3
<1> QED
  BY <1>1, <1>3, <1>4, <1>5, TypesTogetherNext DEF TypeOK

LEMMA TypeStep ==
  ASSUME TypeInv, [Next]_vars
  PROVE  TypeOK'
<1>1. ASSUME NEW s \in Senders, Progress(s)
      PROVE  TypeOK'
  BY <1>1, TypeOfBegin, TypeOfLoop, TypeOfSend, TypeOfPart, TypeOfStream, TypeOfEnd,
     TypeOfTools DEF Progress
<1>2. ASSUME NEW s \in Senders, Prompt(s) \/ Abort(s)
      PROVE  TypeOK'
  BY <1>2, TypeOfPrompt, TypeOfTools
<1>3. CASE UNCHANGED vars
  BY <1>3 DEF vars, TypeInv, TypeOK, ChatTypeOK
<1> QED
  BY <1>1, <1>2, <1>3 DEF Next

(* What a step changes of who is where, for TurnInv.                       *)

LEMMA EndTurns ==
  ASSUME TypeInv, NEW s \in Senders, Ends(s)
  PROVE  /\ \A w \in Senders : phase'[w] # "idle" => phase[w] # "idle" /\ w # s
         /\ \A w \in Senders : phase'[w] = "pausing" =>
              phase[w] = "pausing" /\ attempt'[w] = attempt[w]
         /\ \A w \in Senders : behind'[w] # Nobody =>
              behind[w] # Nobody /\ phase'[w] = "queued"
<1>1. TypeOK /\ ChatTypeOK
  BY DEF TypeInv, TypeOK
<1>2. PICK how \in Results, answer \in {<<>>, <<Answer(s)>>} :
        End(s, how, answer) /\ phase[s] \in {"connecting", "streaming"}
  BY DEF Ends
<1>3. /\ phase' = [w \in Senders |-> IF w = s THEN "idle"
                     ELSE IF w \in Freed(s, how) THEN "connecting" ELSE phase[w]]
      /\ behind' = [w \in Senders |-> IF w \in Freed(s, how) THEN Nobody ELSE behind[w]]
  BY <1>1, <1>2, EndShape
<1>4. attempt' = [attempt EXCEPT ![s] = 0]
  BY <1>2 DEF End
<1>5. \A w \in Senders : behind[w] # Nobody => phase[w] = "queued"
  BY DEF TypeInv, TurnInv
<1>6. \A w \in Freed(s, how) : w \in Senders /\ behind[w] = s /\ s # Nobody
  BY ChatAssumption DEF Freed
<1> QED
  BY <1>1, <1>2, <1>3, <1>4, <1>5, <1>6 DEF ChatTypeOK

LEMMA TurnsOfBegin ==
  ASSUME TypeInv, NEW s \in Senders, Prompt(s) \/ BeginTurn(s)
  PROVE  TurnInv'
<1>1. TypeOK /\ TurnInv /\ ChatTypeOK
  BY DEF TypeInv, TypeOK
<1>2. phase[s] = "idle" /\ UNCHANGED <<phase, attempt, behind>>
  BY <1>1 DEF Prompt, BeginTurn, TurnInv
<1>3. /\ \A w \in Senders \ {s} : run'[w] = run[w] /\ bound'[w] = bound[w]
      /\ run'[s] \in {"routing", "sending"} => bound'[s] > 0
  <2>1. CASE Prompt(s)
    BY <1>1, <2>1 DEF Prompt, Request, Goes, TypeOK
  <2>2. CASE BeginTurn(s) /\ Over(s, "left", Unsent(s))
    <3>1. Goes(s, "tools") \/ Goes(s, "idle")
      BY <2>2 DEF Over
    <3> QED
      BY <1>1, <2>2, <3>1 DEF Over, Goes, TypeOK
  <2>3. CASE BeginTurn(s) /\ Goes(s, "routing") /\ bound[s] > 0 /\ UNCHANGED bound
    BY <1>1, <2>3 DEF Goes, TypeOK
  <2> QED
    BY <2>1, <2>2, <2>3 DEF BeginTurn
<1>4. detected' \/ count' <= 1
  <2>1. CASE UNCHANGED <<detected, count>>
    BY <1>1, <2>1 DEF TurnInv
  <2>2. CASE count' = 0
    BY <2>2
  <2> QED
    BY <2>1, <2>2 DEF Prompt, BeginTurn, ResetDetector
<1> QED
  BY <1>1, <1>2, <1>3, <1>4 DEF TurnInv

LEMMA TurnsOfLoop ==
  ASSUME TypeInv, NEW s \in Senders, LoopAtStart(s) \/ SeeLoop(s)
  PROVE  TurnInv'
<1>1. TypeOK /\ TurnInv /\ ChatTypeOK
  BY DEF TypeInv, TypeOK
<1>2. PICK lost \in SUBSET Parts : OnLoop(s, Detection, lost)
  <2>1. Unsent(s) \in SUBSET Parts /\ {} \in SUBSET Parts
    BY <1>1, PartsOf DEF Unsent, ChatTypeOK, Entries
  <2> QED
    BY <2>1 DEF LoopAtStart, SeeLoop, Detection
<1>3. detected' \/ count' <= 1
  BY <1>2, OnLoopTypes
<1>4. /\ \A w \in Senders \ {s} : run'[w] = run[w] /\ bound'[w] = bound[w]
      /\ run'[s] \in {"entering", "tools", "idle"}
  <2>1. CASE Over(s, "left", lost)
    <3>1. Goes(s, "tools") \/ Goes(s, "idle")
      BY <2>1 DEF Over
    <3> QED
      BY <1>1, <2>1, <3>1 DEF Over, Goes, TypeOK
  <2>2. CASE Recurse(s, "feedback", again[s], lost)
    BY <1>1, <2>2 DEF Recurse, Request, Goes, TypeOK
  <2> QED
    BY <1>2, <2>1, <2>2 DEF OnLoop
<1>5. /\ \A w \in Senders : phase'[w] # "idle" => phase[w] # "idle" /\ w # s
      /\ \A w \in Senders : phase'[w] = "pausing" =>
           phase[w] = "pausing" /\ attempt'[w] = attempt[w]
      /\ \A w \in Senders : behind'[w] # Nobody =>
           behind[w] # Nobody /\ phase'[w] = "queued"
  <2>1. CASE SeeLoop(s)
    BY <2>1, LeaveIs, EndTurns DEF SeeLoop
  <2>2. CASE LoopAtStart(s)
    BY <2>2, <1>1 DEF LoopAtStart, TurnInv
  <2> QED
    BY <2>1, <2>2
<1> QED
  BY <1>1, <1>3, <1>4, <1>5 DEF TurnInv

LEMMA TurnsOfEnd ==
  ASSUME TypeInv, NEW s \in Senders,
         SessionFinishes(s) \/ SeeAbort(s) \/ StopAfterStream(s)
           \/ GoOnAfterInvalid(s) \/ SpeaksNext(s)
  PROVE  TurnInv'
<1>1. TypeOK /\ TurnInv /\ ChatTypeOK
  BY DEF TypeInv, TypeOK
<1>2. /\ \A w \in Senders \ {s} : run'[w] = run[w] /\ bound'[w] = bound[w]
      /\ run'[s] \in {"entering", "tools", "idle"}
  <2>1. CASE \E how : Over(s, how, {})
    <3>1. Goes(s, "tools") \/ Goes(s, "idle")
      BY <2>1 DEF Over
    <3>2. bound' = [bound EXCEPT ![s] = 0]
      BY <2>1 DEF Over
    <3> QED
      BY <1>1, <3>1, <3>2 DEF Goes, TypeOK
  <2>2. CASE \E retry : Recurse(s, "continue", retry, {})
    BY <1>1, <2>2 DEF Recurse, Request, Goes, TypeOK
  <2> QED
    BY <2>1, <2>2 DEF SessionFinishes, SeeAbort, StopAfterStream, GoOnAfterInvalid, SpeaksNext
<1>3. /\ \A w \in Senders : phase'[w] # "idle" => phase[w] # "idle" /\ w # s
      /\ \A w \in Senders : phase'[w] = "pausing" =>
           phase[w] = "pausing" /\ attempt'[w] = attempt[w]
      /\ \A w \in Senders : behind'[w] # Nobody =>
           behind[w] # Nobody /\ phase'[w] = "queued"
  <2>1. CASE SessionFinishes(s) \/ SeeAbort(s)
    BY <2>1, LeaveIs, EndTurns DEF SessionFinishes, SeeAbort
  <2>2. CASE StopAfterStream(s) \/ GoOnAfterInvalid(s) \/ SpeaksNext(s)
    BY <2>2, <1>1 DEF StopAfterStream, GoOnAfterInvalid, SpeaksNext, Streamed, TurnInv
  <2> QED
    BY <2>1, <2>2
<1>4. UNCHANGED <<detected, count>>
  BY DEF SessionFinishes, SeeAbort, StopAfterStream, GoOnAfterInvalid, SpeaksNext
<1> QED
  BY <1>1, <1>2, <1>3, <1>4 DEF TurnInv

LEMMA TurnsOfStream ==
  ASSUME TypeInv, NEW s \in Senders, Stream(s) \/ SeeFinish(s) \/ SeePart(s)
  PROVE  TurnInv'
<1>1. TypeOK /\ TurnInv /\ ChatTypeOK
  BY DEF TypeInv, TypeOK
<1>2. UNCHANGED <<run, bound, detected, count>>
  BY DEF Stream, SeeFinish, SeePart
<1>3. CASE Ends(s)
  BY <1>1, <1>2, <1>3, EndTurns DEF TurnInv
<1>4. CASE Connect(s) \/ Breaks(s) \/ Retry(s)
  BY <1>1, <1>2, <1>4 DEF Connect, Breaks, Pause, Retry, TurnInv, ChatTypeOK
<1>5. CASE SeeFinish(s) \/ SeePart(s)
  BY <1>1, <1>2, <1>5 DEF SeeFinish, Finishes, SeePart, Part, TurnInv
<1> QED
  BY <1>3, <1>4, <1>5, StreamIs

LEMMA TurnsOfSend ==
  ASSUME TypeInv, NEW s \in Senders, SendMessage(s)
  PROVE  TurnInv'
<1>1. TypeOK /\ TurnInv /\ ChatTypeOK
  BY DEF TypeInv, TypeOK
<1>2. /\ run' = [run EXCEPT ![s] = "sending"] /\ run[s] = "routing"
      /\ UNCHANGED <<bound, detected, count>>
  BY DEF SendMessage, Goes
<1>3. /\ phase[s] = "idle" /\ behind[s] = Nobody
      /\ \/ phase' = [phase EXCEPT ![s] = "connecting"] /\ UNCHANGED behind
         \/ phase' = [phase EXCEPT ![s] = "queued"] /\ behind' = [behind EXCEPT ![s] = tail]
      /\ attempt' = [attempt EXCEPT ![s] = 1]
  BY <1>1, <1>2 DEF SendMessage, Send, TurnInv
<1> QED
  BY <1>1, <1>2, <1>3 DEF TurnInv, TypeOK, ChatTypeOK

LEMMA TurnsOfTools ==
  ASSUME TypeInv, NEW s \in Senders,
         Respond(s) \/ RecordCancelled(s) \/ DropResults(s) \/ Abort(s)
  PROVE  TurnInv'
<1>1. TypeOK /\ TurnInv /\ ChatTypeOK
  BY DEF TypeInv, TypeOK
<1>2. /\ UNCHANGED <<phase, behind, attempt, detected, count>>
      /\ \A w \in Senders \ {s} : run'[w] = run[w] /\ bound'[w] = bound[w]
      /\ \/ run[s] = "tools" /\ run'[s] \in {"entering", "idle"}
         \/ run'[s] = run[s] /\ bound'[s] = bound[s]
  BY <1>1 DEF Respond, RecordCancelled, DropResults, Abort, Request, Goes, TypeOK
<1> QED
  BY <1>1, <1>2 DEF TurnInv

LEMMA TurnStep ==
  ASSUME TypeInv, [Next]_vars
  PROVE  TurnInv'
<1>1. ASSUME NEW s \in Senders, Progress(s)
      PROVE  TurnInv'
  BY <1>1, TurnsOfBegin, TurnsOfLoop, TurnsOfSend, TurnsOfStream, TurnsOfEnd,
     TurnsOfTools DEF Progress
<1>2. ASSUME NEW s \in Senders, Prompt(s) \/ Abort(s)
      PROVE  TurnInv'
  BY <1>2, TurnsOfBegin, TurnsOfTools
<1>3. CASE UNCHANGED vars
  BY <1>3 DEF vars, TypeInv, TurnInv
<1> QED
  BY <1>1, <1>2, <1>3 DEF Next

(* Every variable has its type: no turn beyond the last is begun, no       *)
(* attempt beyond the last is made, and loops are counted up to two        *)
(* (sendMessageStream, streamWithRetries, LoopDetectionService).           *)
THEOREM TurnTypes == Spec => [](TypeOK /\ TurnInv)
<1>1. Init => TypeOK /\ TurnInv
  BY TypeInitial DEF TypeInv
<1>2. (TypeOK /\ TurnInv) /\ [Next]_vars => (TypeOK /\ TurnInv)'
  BY TypeStep, TurnStep DEF TypeInv
<1> QED
  BY <1>1, <1>2, PTL DEF Spec

-----------------------------------------------------------------------------
(* What a step does to the chat.                                           *)

(* An entry is added by hand: a context, or the results of cancelled tools. *)
Records(s) ==
  /\ run[s] # "idle"
  /\ \E e \in Entries : e.by = s /\ e.kind \in {"context", "responses"}
                        /\ history' = Append(history, e)
  /\ UNCHANGED <<tail, behind, phase, request, attempt, got, finish, result, calls>>

(* The stream of s goes on, and neither the history nor the order of the   *)
(* streams changes.                                                        *)
GoesOn(s) ==
  \/ Connect(s) \/ Breaks(s) \/ Retry(s) \/ Finishes(s)
  \/ \E part \in Parts : Part(s, part)
  \/ \E how \in SUBSET Results : Streamed(s, how)

(* A message is what its sender says, and no answer.                       *)
OwnMessages ==
  \A s \in Senders : outbox[s].by = s /\ outbox[s].kind \notin {"answer", "context"}

Live(s) == phase[s] \in {"connecting", "streaming", "pausing"}

(* One stream at a time, which is what sendPromise stands for, and what    *)
(* others wait for.                                                        *)
OneStream ==
  /\ \A s \in Senders : Live(s) <=> tail = s
  /\ \A s \in Senders : phase[s] = "queued" => behind[s] = tail /\ tail # Nobody

(* The message under way is the last one but what was added by hand.       *)
RequestStands ==
  \A s \in Senders : Live(s) =>
    /\ request[s] \in 1..Len(history) /\ history[request[s]].by = s
    /\ \A j \in request[s] + 1 .. Len(history) : history[j].kind \in {"context", "responses"}

(* The sender of an answer has said nothing since.                         *)
Unanswered(i) == \A j \in i + 1 .. Len(history) : history[j].by # history[i].by

(* Where the results of the calls in C are still to come from, if they are *)
(* not lost: from the turn or the tools of s, or in its next message.      *)
Awaited(s, C) ==
  \/ C \cap dropped # {}
  \/ /\ C \subseteq asked[s] /\ run[s] = "tools"
  \/ /\ C \subseteq asked[s] /\ C \subseteq pending[s]
     /\ run[s] = "sending" /\ phase[s] = "idle" /\ result[s] = "done"
  \/ /\ outbox[s].kind = "responses" /\ C \subseteq Range(outbox[s].parts)
     /\ run[s] \in {"entering", "routing"} \/ phase[s] = "queued"

CallsKept ==
  \A i \in WithCalls : Unanswered(i) => Awaited(history[i].by, CallsOf(history[i].parts))

(* What a stream has called so far, the turn and the consumer know, if     *)
(* they were shown it.                                                     *)
Collected ==
  \A s \in Senders :
    \/ CallsOf(got[s]) \cap dropped # {}
    \/ CallsOf(got[s]) \subseteq pending[s] /\ CallsOf(got[s]) \subseteq asked[s]

(* Side messages come only through the A2A server.                         *)
MainAlone ==
  consumer # "a2a" =>
    /\ \A s \in Senders : run[s] # "idle" => s = Main
    /\ \A i \in DOMAIN history : history[i].by = Main

(* Nothing is left of an answer whose stream is over or broken.            *)
NothingLeft == \A s \in Senders : phase[s] # "streaming" => got[s] = <<>>

LEMMA ChatStepOf ==
  ASSUME TypeInv, NEW s \in Senders, Progress(s) \/ Prompt(s) \/ Abort(s)
  PROVE  \/ Ends(s) \/ GoesOn(s) \/ (run[s] = "routing" /\ Send(s)) \/ Records(s)
         \/ UNCHANGED streamVars
<1>1. TypeOK
  BY DEF TypeInv
<1>2. CASE Prompt(s) \/ LoopAtStart(s) \/ Respond(s) \/ DropResults(s) \/ Abort(s)
  BY <1>2 DEF Prompt, LoopAtStart, Respond, DropResults, Abort
<1>3. CASE BeginTurn(s)
  <2>1. CASE UNCHANGED history
    BY <1>3, <2>1 DEF BeginTurn
  <2>2. CASE history' \in {history} \cup Contexts(s)
    <3>1. history' = history \/ history' = Append(history, Message(s, "context", <<>>))
      BY <2>2 DEF Contexts, WithContext
    <3>2. /\ Message(s, "context", <<>>) \in Entries
          /\ Message(s, "context", <<>>).by = s
          /\ Message(s, "context", <<>>).kind = "context"
      BY MessageType, EmptyParts DEF Kinds, Message
    <3> HIDE DEF Entries
    <3> QED
      BY <1>3, <3>1, <3>2 DEF BeginTurn, Records
  <2> QED
    BY <1>3, <2>1, <2>2 DEF BeginTurn
<1>4. CASE SendMessage(s)
  BY <1>4 DEF SendMessage
<1>5. CASE SeePart(s) \/ SeeFinish(s)
  BY <1>5 DEF SeePart, SeeFinish, GoesOn
<1>6. CASE SeeLoop(s) \/ SessionFinishes(s) \/ SeeAbort(s)
  BY <1>6, LeaveIs DEF SeeLoop, SessionFinishes, SeeAbort
<1>7. CASE Stream(s)
  BY <1>7, StreamIs DEF GoesOn
<1>8. CASE GoOnAfterInvalid(s) \/ SpeaksNext(s) \/ StopAfterStream(s)
  <2>1. /\ {"invalid"} \in SUBSET Results /\ {"done", "blocked", "invalid"} \in SUBSET Results
        /\ Results \ {"none"} \in SUBSET Results
    BY DEF Results
  <2> HIDE DEF Results
  <2> QED
    BY <1>8, <2>1 DEF GoOnAfterInvalid, SpeaksNext, StopAfterStream, GoesOn
<1>9. CASE RecordCancelled(s)
  <2>1. Responses(s) \in Entries
    BY <1>1, ResponsesType
  <2>2. Responses(s).by = s /\ Responses(s).kind = "responses"
    BY DEF Responses, Message
  <2> HIDE DEF Entries
  <2> QED
    BY <1>9, <2>1, <2>2 DEF RecordCancelled, Records
<1> HIDE DEF streamVars
<1> QED
  BY <1>2, <1>3, <1>4, <1>5, <1>6, <1>7, <1>8, <1>9 DEF Progress

LEMMA ChatStep ==
  ASSUME TypeInv, [Next]_vars
  PROVE  \/ \E s \in Senders : Ends(s)
         \/ \E s \in Senders : GoesOn(s)
         \/ \E s \in Senders : run[s] = "routing" /\ Send(s)
         \/ \E s \in Senders : Records(s)
         \/ UNCHANGED streamVars
<1>1. CASE UNCHANGED vars
  BY <1>1 DEF vars
<1>2. ASSUME NEW s \in Senders, Progress(s) \/ Prompt(s) \/ Abort(s)
      PROVE  \/ Ends(s) \/ GoesOn(s) \/ (run[s] = "routing" /\ Send(s)) \/ Records(s)
             \/ UNCHANGED streamVars
  BY <1>2, ChatStepOf
<1> HIDE DEF streamVars
<1> QED
  BY <1>1, <1>2 DEF Next

(* The messages of the others are left alone.                              *)
LEMMA OutboxStep ==
  ASSUME TypeInv, [Next]_vars
  PROVE  \/ UNCHANGED outbox
         \/ \E s \in Senders, kind \in {"prompt", "responses", "continue", "feedback"},
              parts \in Seq(Parts) :
              outbox' = [outbox EXCEPT ![s] = Message(s, kind, parts)]
<1>1. TypeOK
  BY DEF TypeInv
<1>2. CASE UNCHANGED vars
  BY <1>2 DEF vars
<1>3. ASSUME NEW s \in Senders,
             SendMessage(s) \/ SeePart(s) \/ SeeFinish(s) \/ Stream(s)
               \/ RecordCancelled(s) \/ DropResults(s) \/ Abort(s)
      PROVE  UNCHANGED outbox
  BY <1>3 DEF SendMessage, SeePart, SeeFinish, Stream, RecordCancelled, DropResults, Abort
<1>4. ASSUME NEW s \in Senders,
             \/ \E how, lost : Over(s, how, lost)
             \/ \E kind \in {"continue", "feedback"} : \E retry, lost :
                  Recurse(s, kind, retry, lost)
      PROVE  \E kind \in {"prompt", "responses", "continue", "feedback"},
               parts \in Seq(Parts) :
               outbox' = [outbox EXCEPT ![s] = Message(s, kind, parts)]
  BY <1>4, EmptyParts DEF Over, Recurse, Request
<1>5. ASSUME NEW s \in Senders,
             \/ LoopAtStart(s) \/ SeeLoop(s) \/ SessionFinishes(s) \/ SeeAbort(s)
             \/ GoOnAfterInvalid(s) \/ SpeaksNext(s) \/ StopAfterStream(s)
      PROVE  \/ \E how, lost : Over(s, how, lost)
             \/ \E kind \in {"continue", "feedback"} : \E retry, lost :
                  Recurse(s, kind, retry, lost)
  BY <1>5 DEF LoopAtStart, SeeLoop, OnLoop, SessionFinishes, SeeAbort, GoOnAfterInvalid,
     SpeaksNext, StopAfterStream
<1>6. ASSUME NEW s \in Senders, Prompt(s) \/ Respond(s)
      PROVE  \E kind \in {"prompt", "responses", "continue", "feedback"},
               parts \in Seq(Parts) :
               outbox' = [outbox EXCEPT ![s] = Message(s, kind, parts)]
  <2>1. SetToSeq(asked[s]) \in Seq(Parts)
    BY <1>1, ResponsesType
  <2> QED
    BY <1>6, <2>1, EmptyParts DEF Prompt, Respond, Request
<1>7. ASSUME NEW s \in Senders, BeginTurn(s)
      PROVE  UNCHANGED outbox \/ \E how, lost : Over(s, how, lost)
  BY <1>7 DEF BeginTurn
<1> QED
  BY <1>2, <1>3, <1>4, <1>5, <1>6, <1>7 DEF Next, Progress

LEMMA OwnMessagesStep ==
  ASSUME TypeInv, OwnMessages, [Next]_vars
  PROVE  OwnMessages'
<1>1. outbox \in [Senders -> Entries]
  BY DEF TypeInv, TypeOK, ChatTypeOK
<1>2. CASE UNCHANGED outbox
  BY <1>2 DEF OwnMessages
<1>3. ASSUME NEW s \in Senders, NEW kind \in {"prompt", "responses", "continue", "feedback"},
             NEW parts \in Seq(Parts),
             outbox' = [outbox EXCEPT ![s] = Message(s, kind, parts)]
      PROVE  OwnMessages'
  <2>1. Message(s, kind, parts).by = s /\ Message(s, kind, parts).kind = kind
    BY DEF Message
  <2> QED
    BY <1>1, <1>3, <2>1 DEF OwnMessages
<1> QED
  BY <1>2, <1>3, OutboxStep

-----------------------------------------------------------------------------
(* What was got of an answer is gone when its stream is.                   *)

LEMMA NothingLeftStep ==
  ASSUME TypeInv, NothingLeft, [Next]_vars
  PROVE  NothingLeft'
<1>1. TypeOK /\ ChatTypeOK /\ TurnInv
  BY DEF TypeInv, TypeOK
<1>2. ASSUME NEW s \in Senders, Ends(s)
      PROVE  NothingLeft'
  <2>1. PICK how \in Results, answer \in {<<>>, <<Answer(s)>>} : End(s, how, answer)
    BY <1>2 DEF Ends
  <2>2. phase' = [w \in Senders |-> IF w = s THEN "idle"
                    ELSE IF w \in Freed(s, how) THEN "connecting" ELSE phase[w]]
    BY <1>1, <2>1, EndShape
  <2>3. got' = [got EXCEPT ![s] = <<>>]
    BY <2>1 DEF End
  <2>4. \A w \in Freed(s, how) : phase[w] = "queued"
    BY <1>1, ChatAssumption DEF Freed, TurnInv
  <2> QED
    BY <1>1, <2>2, <2>3, <2>4 DEF NothingLeft, ChatTypeOK
<1>3. ASSUME NEW s \in Senders, GoesOn(s)
      PROVE  NothingLeft'
  <2>1. CASE Connect(s)
    BY <1>1, <2>1 DEF Connect, NothingLeft, ChatTypeOK
  <2>2. CASE Breaks(s)
    BY <1>1, <2>2 DEF Breaks, Pause, NothingLeft, ChatTypeOK
  <2>3. CASE Retry(s)
    BY <1>1, <2>3 DEF Retry, NothingLeft, ChatTypeOK
  <2>4. CASE Finishes(s) \/ \E how \in SUBSET Results : Streamed(s, how)
    BY <2>4 DEF Finishes, Streamed, NothingLeft
  <2>5. ASSUME NEW part \in Parts, Part(s, part)
        PROVE  NothingLeft'
    <3>1. /\ got' = [got EXCEPT ![s] = Append(got[s], part)]
          /\ phase[s] = "streaming" /\ UNCHANGED phase
      BY <2>5 DEF Part
    <3> QED
      BY <1>1, <3>1 DEF NothingLeft, ChatTypeOK
  <2> QED
    BY <1>3, <2>1, <2>2, <2>3, <2>4, <2>5 DEF GoesOn
<1>4. ASSUME NEW s \in Senders, run[s] = "routing", Send(s)
      PROVE  NothingLeft'
  <2>1. phase[s] = "idle" /\ UNCHANGED got
    BY <1>1, <1>4 DEF TurnInv, Send
  <2>2. /\ \A w \in Senders \ {s} : phase'[w] = phase[w]
        /\ phase'[s] \in {"connecting", "queued"}
    BY <1>1, <1>4 DEF Send, ChatTypeOK
  <2> QED
    BY <2>1, <2>2 DEF NothingLeft
<1>5. ASSUME UNCHANGED <<got, phase>>
      PROVE  NothingLeft'
  BY <1>5 DEF NothingLeft
<1> QED
  BY <1>2, <1>3, <1>4, <1>5, ChatStep DEF Records

-----------------------------------------------------------------------------
(* An answer is to the conversation before it.                             *)

AtMostTwo == \A a, b, c \in Senders : a = b \/ b = c \/ a = c

(* The request of an answer is before it.                                  *)
AskedBefore == \A i \in Answers : history[i].after < i

AnswersInv == OwnMessages /\ OneStream /\ RequestStands /\ AskedBefore /\ AnswersItsHistory

(* A history that only grows keeps what is said of the answers in it.      *)
LEMMA AnswersGrow ==
  ASSUME TypeOK, AskedBefore, AnswersItsHistory,
         history' \in Seq(Entries), Len(history') >= Len(history),
         \A j \in 1..Len(history) : history'[j] = history[j],
         \A i \in Len(history) + 1 .. Len(history') : history'[i].kind = "answer" =>
           /\ history'[i].after < i
           /\ \A j \in history'[i].after + 1 .. i - 1 :
                history'[j].kind \in {"context", "responses"}
           /\ \E j \in 1..history'[i].after : history'[j].by = history'[i].by
  PROVE  AskedBefore' /\ AnswersItsHistory'
<1>1. history \in Seq(Entries) /\ Len(history) \in Nat /\ Len(history') \in Nat
  BY DEF TypeOK, ChatTypeOK
<1>2. SUFFICES ASSUME NEW i \in 1..Len(history'), history'[i].kind = "answer"
      PROVE  /\ history'[i].after < i
             /\ \A j \in history'[i].after + 1 .. i - 1 :
                  history'[j].kind \in {"context", "responses"}
             /\ \E j \in 1..history'[i].after : history'[j].by = history'[i].by
  BY DEF AskedBefore, AnswersItsHistory, Answers
<1>3. CASE i > Len(history)
  <2>1. i \in Len(history) + 1 .. Len(history')
    BY <1>1, <1>3
  <2> HIDE DEF Entries
  <2> QED
    BY <1>2, <2>1
<1>4. CASE i <= Len(history)
  <2>1. i \in Answers /\ history'[i] = history[i]
    BY <1>1, <1>2, <1>4 DEF Answers
  <2>2. history[i] \in Entries
    BY <1>1, <1>4
  <2>3. history[i].after \in Nat
    BY <2>2 DEF Entries
  <2>4. history[i].after < i
    BY <2>1 DEF AskedBefore
  <2>5. /\ \A j \in history[i].after + 1 .. i - 1 :
             history[j].kind \in {"context", "responses"}
        /\ \E j \in 1..history[i].after : history[j].by = history[i].by
    BY <2>1 DEF AnswersItsHistory
  <2>6. \A j \in 1 .. i - 1 : history'[j] = history[j]
    BY <1>1, <1>4
  <2> HIDE DEF Entries
  <2>7. \A j \in history[i].after + 1 .. i - 1 : history'[j].kind \in {"context", "responses"}
    BY <2>3, <2>5, <2>6
  <2>8. \E j \in 1..history[i].after : history'[j].by = history[i].by
    BY <2>3, <2>4, <2>5, <2>6
  <2> QED
    BY <2>1, <2>4, <2>7, <2>8
<1> QED
  BY <1>1, <1>3, <1>4

LEMMA AnswersOfEnd ==
  ASSUME TypeInv, AnswersInv, AtMostTwo, NEW s \in Senders, Ends(s)
  PROVE  OneStream' /\ RequestStands' /\ AskedBefore' /\ AnswersItsHistory'
<1>1. TypeOK /\ ChatTypeOK /\ TurnInv
  BY DEF TypeInv, TypeOK
<1>2. PICK how \in Results, answer \in {<<>>, <<Answer(s)>>} :
        End(s, how, answer) /\ phase[s] \in {"connecting", "streaming"}
  BY DEF Ends
<1>3. answer \in Seq(Entries)
  <2>1. <<Answer(s)>> \in Seq(Entries) /\ <<>> \in Seq(Entries)
    BY <1>1, AnswerType
  <2> HIDE DEF Entries
  <2> QED
    BY <1>2, <2>1
<1>4. PICK next \in Seq(Senders) : EndsWith(s, how, answer, next)
  BY <1>1, <1>2, <1>3, EndIs
<1>5. tail = s /\ Live(s)
  BY <1>2 DEF AnswersInv, OneStream, Live
<1>6. \A w \in Senders : w \in Freed(s, how) <=> phase[w] = "queued"
  BY <1>1, <1>5, ChatAssumption DEF AnswersInv, OneStream, TurnInv, Freed
<1>7. \A w \in Senders \ {s} : phase[w] \in {"idle", "queued"}
  BY <1>1, <1>5 DEF AnswersInv, OneStream, Live, ChatTypeOK
<1>8. Len(next) \in Nat /\ DOMAIN next = 1..Len(next)
  OBVIOUS
<1>9. Len(next) <= 1
  <2> SUFFICES ASSUME Len(next) > 1 PROVE FALSE
    BY <1>8
  <2>1. 1 \in DOMAIN next /\ 2 \in DOMAIN next
    BY <1>8
  <2>2. /\ next[1] \in Senders /\ next[2] \in Senders /\ next[1] # next[2]
        /\ next[1] \in Freed(s, how) /\ next[2] \in Freed(s, how)
    BY <1>4, <2>1 DEF EndsWith, Range
  <2>3. next[1] # s /\ next[2] # s
    BY <1>2, <1>6, <2>2
  <2> QED
    BY <2>2, <2>3 DEF AtMostTwo
<1>10. phase' = [w \in Senders |-> IF w = s THEN "idle"
                   ELSE IF w \in Freed(s, how) THEN "connecting" ELSE phase[w]]
  BY <1>1, <1>2, EndShape
<1> DEFINE n == Len(history) + Len(answer)
<1>11. /\ Len(history) \in Nat /\ Len(answer) \in Nat /\ n \in Nat
       /\ history' \in Seq(Entries) /\ Len(history') = n + Len(next)
       /\ \A j \in 1..Len(history) : history'[j] = history[j]
  BY <1>1, <1>3, <1>4 DEF EndsWith, ChatTypeOK
<1>12. OneStream' /\ RequestStands'
  <2>1. CASE Len(next) = 0
    <3>1. Freed(s, how) = {} /\ next = <<>>
      BY <1>4, <1>8, <2>1 DEF EndsWith, Range
    <3>2. tail' = Nobody
      BY <1>4, <1>5, <3>1 DEF EndsWith
    <3>3. \A w \in Senders : phase'[w] = "idle"
      BY <1>6, <1>7, <1>10, <3>1
    <3> QED
      BY <3>2, <3>3, ChatAssumption DEF OneStream, RequestStands, Live
  <2>2. CASE Len(next) = 1
    <3> DEFINE w == next[1]
    <3>1. w \in Senders /\ Freed(s, how) = {w} /\ next # <<>>
      <4>1. DOMAIN next = {1}
        BY <1>8, <2>2
      <4>2. Range(next) = {w}
        BY <4>1 DEF Range
      <4>3. Freed(s, how) = {w}
        BY <1>4, <4>2 DEF EndsWith
      <4>4. 1 \in 1..Len(next) /\ next # <<>>
        BY <2>2
      <4>5. w \in Senders
        BY <4>4
      <4> QED
        BY <4>3, <4>4, <4>5
    <3>2. tail' = w /\ request'[w] = n + 1 /\ history'[n + 1] = outbox[w]
      BY <1>4, <2>2, <3>1 DEF EndsWith
    <3>3. outbox[w].by = w
      BY <3>1 DEF AnswersInv, OwnMessages
    <3>4. w # s /\ phase'[w] = "connecting" /\ \A v \in Senders \ {w} : phase'[v] = "idle"
      BY <1>2, <1>6, <1>7, <1>10, <3>1
    <3>5. Len(history') = n + 1
      BY <1>11, <2>2
    <3> HIDE DEF w, n
    <3>6. OneStream'
      BY <3>1, <3>2, <3>4 DEF OneStream, Live
    <3>7. RequestStands'
      BY <1>11, <3>1, <3>2, <3>3, <3>4, <3>5 DEF RequestStands, Live
    <3> QED
      BY <3>6, <3>7
  <2> QED
    BY <1>8, <1>9, <2>1, <2>2
<1>13. \A i \in Len(history) + 1 .. Len(history') : history'[i].kind = "answer" =>
         /\ history'[i].after < i
         /\ \A j \in history'[i].after + 1 .. i - 1 :
              history'[j].kind \in {"context", "responses"}
         /\ \E j \in 1..history'[i].after : history'[j].by = history'[i].by
  <2> SUFFICES ASSUME NEW i \in Len(history) + 1 .. Len(history'),
                      history'[i].kind = "answer"
               PROVE  /\ history'[i].after < i
                      /\ \A j \in history'[i].after + 1 .. i - 1 :
                           history'[j].kind \in {"context", "responses"}
                      /\ \E j \in 1..history'[i].after : history'[j].by = history'[i].by
    OBVIOUS
  <2>1. i <= n
    <3> SUFFICES ASSUME i > n PROVE FALSE
      BY <1>11
    <3>1. i = n + (i - n) /\ i - n \in 1..Len(next)
      BY <1>8, <1>11
    <3> DEFINE k == i - n
    <3>2. k \in 1..Len(next) /\ i = n + k
      BY <1>11, <3>1
    <3>3. \A m \in 1..Len(next) : history'[n + m] = outbox[next[m]]
      BY <1>4 DEF EndsWith
    <3> HIDE DEF n, k
    <3>4. history'[i] = outbox[next[k]] /\ next[k] \in Senders
      BY <1>8, <3>2, <3>3
    <3> QED
      BY <3>4 DEF AnswersInv, OwnMessages
  <2>2. answer = <<Answer(s)>> /\ i = Len(history) + 1
    <3>1. answer # <<>>
      BY <1>11, <2>1
    <3>2. Len(<<Answer(s)>>) = 1
      OBVIOUS
    <3>3. answer = <<Answer(s)>>
      BY <1>2, <3>1
    <3> QED
      BY <1>11, <2>1, <3>2, <3>3
  <2>3. history'[i] = Answer(s)
    BY <1>4, <2>2 DEF EndsWith
  <2>4. Answer(s).after = request[s] /\ Answer(s).by = s
    BY DEF Answer
  <2>5. /\ request[s] \in 1..Len(history) /\ history[request[s]].by = s
        /\ \A j \in request[s] + 1 .. Len(history) :
             history[j].kind \in {"context", "responses"}
    BY <1>5 DEF AnswersInv, RequestStands
  <2> HIDE DEF Entries, n
  <2> QED
    BY <1>11, <2>2, <2>3, <2>4, <2>5
<1>14. AskedBefore' /\ AnswersItsHistory'
  <2>1. Len(history') >= Len(history)
    BY <1>8, <1>11
  <2> HIDE DEF Entries, n
  <2> QED
    BY <1>1, <1>11, <1>13, <2>1, AnswersGrow DEF AnswersInv
<1> QED
  BY <1>12, <1>14

LEMMA AnswersOfOthers ==
  ASSUME TypeInv, AnswersInv, NEW s \in Senders,
         GoesOn(s) \/ (run[s] = "routing" /\ Send(s)) \/ Records(s)
  PROVE  OneStream' /\ RequestStands' /\ AskedBefore' /\ AnswersItsHistory'
<1>1. TypeOK /\ ChatTypeOK /\ TurnInv
  BY DEF TypeInv, TypeOK
<1>2. history \in Seq(Entries) /\ Len(history) \in Nat
  BY <1>1 DEF ChatTypeOK
<1>3. CASE GoesOn(s)
  <2>1. UNCHANGED <<history, tail, behind, request>>
    BY <1>3 DEF GoesOn, Connect, Breaks, Pause, Retry, Finishes, Part, Streamed
  <2>2. \A w \in Senders : /\ phase[w] = "queued" <=> phase'[w] = "queued"
                           /\ Live(w) <=> Live(w)'
    BY <1>1, <1>3 DEF GoesOn, Connect, Breaks, Pause, Retry, Finishes, Part, Streamed,
       Live, ChatTypeOK
  <2>3. OneStream' /\ RequestStands'
    BY <2>1, <2>2 DEF AnswersInv, OneStream, RequestStands
  <2> QED
    BY <2>1, <2>3 DEF AnswersInv, AskedBefore, AnswersItsHistory, Answers
<1>4. ASSUME NEW e \in Entries, history' = Append(history, e), e.kind # "answer"
      PROVE  /\ AskedBefore' /\ AnswersItsHistory'
             /\ Len(history') = Len(history) + 1 /\ history'[Len(history) + 1] = e
             /\ \A j \in 1..Len(history) : history'[j] = history[j]
  <2> HIDE DEF Entries
  <2>1. /\ history' \in Seq(Entries) /\ Len(history') = Len(history) + 1
        /\ history'[Len(history) + 1] = e
        /\ \A j \in 1..Len(history) : history'[j] = history[j]
    BY <1>2, <1>4
  <2>2. \A i \in Len(history) + 1 .. Len(history') : history'[i].kind # "answer"
    BY <1>2, <1>4, <2>1
  <2> QED
    BY <1>1, <1>2, <2>1, <2>2, AnswersGrow DEF AnswersInv
<1>5. CASE Records(s)
  <2>1. PICK e \in Entries : e.kind \in {"context", "responses"} /\ history' = Append(history, e)
    BY <1>5 DEF Records
  <2>2. /\ AskedBefore' /\ AnswersItsHistory'
        /\ Len(history') = Len(history) + 1 /\ history'[Len(history) + 1] = e
        /\ \A j \in 1..Len(history) : history'[j] = history[j]
    BY <1>4, <2>1
  <2>3. UNCHANGED <<tail, behind, phase, request>>
    BY <1>5 DEF Records
  <2>4. OneStream'
    BY <2>3 DEF AnswersInv, OneStream, Live
  <2>5. RequestStands'
    <3> SUFFICES ASSUME NEW w \in Senders, Live(w)'
                 PROVE  /\ request'[w] \in 1..Len(history')
                        /\ history'[request'[w]].by = w
                        /\ \A j \in request'[w] + 1 .. Len(history') :
                             history'[j].kind \in {"context", "responses"}
      BY DEF RequestStands
    <3>1. /\ request[w] \in 1..Len(history) /\ history[request[w]].by = w
          /\ \A j \in request[w] + 1 .. Len(history) :
               history[j].kind \in {"context", "responses"}
      BY <2>3 DEF AnswersInv, RequestStands, Live
    <3> HIDE DEF Entries
    <3> QED
      BY <1>2, <2>1, <2>2, <2>3, <3>1
  <2> QED
    BY <2>2, <2>4, <2>5
<1>6. CASE run[s] = "routing" /\ Send(s) /\ Free
  <2>1. outbox[s] \in Entries /\ outbox[s].by = s /\ outbox[s].kind # "answer"
    BY <1>1 DEF AnswersInv, OwnMessages, ChatTypeOK
  <2>2. /\ history' = Append(history, outbox[s]) /\ tail = Nobody /\ tail' = s
        /\ request' = [request EXCEPT ![s] = Len(history) + 1]
        /\ phase' = [phase EXCEPT ![s] = "connecting"]
    BY <1>6 DEF Send, Free
  <2>3. /\ AskedBefore' /\ AnswersItsHistory'
        /\ Len(history') = Len(history) + 1 /\ history'[Len(history) + 1] = outbox[s]
    BY <1>4, <2>1, <2>2
  <2>4. \A w \in Senders : phase[w] = "idle"
    BY <1>1, <2>2, ChatAssumption DEF AnswersInv, OneStream, Live, ChatTypeOK
  <2>5. /\ phase'[s] = "connecting" /\ request'[s] = Len(history) + 1
        /\ \A w \in Senders \ {s} : phase'[w] = "idle"
    BY <1>1, <2>2, <2>4 DEF ChatTypeOK
  <2>6. OneStream'
    BY <2>2, <2>5 DEF OneStream, Live
  <2>7. RequestStands'
    BY <1>2, <2>1, <2>3, <2>5 DEF RequestStands, Live
  <2> QED
    BY <2>3, <2>6, <2>7
<1>7. CASE run[s] = "routing" /\ Send(s) /\ ~Free
  <2>1. /\ behind' = [behind EXCEPT ![s] = tail] /\ phase' = [phase EXCEPT ![s] = "queued"]
        /\ tail # Nobody /\ UNCHANGED <<history, request, tail>>
    BY <1>7 DEF Send, Free
  <2>2. phase[s] = "idle"
    BY <1>1, <1>7 DEF TurnInv
  <2>3. OneStream'
    BY <1>1, <2>1, <2>2 DEF AnswersInv, OneStream, Live, ChatTypeOK
  <2>4. RequestStands'
    BY <1>1, <2>1, <2>2 DEF AnswersInv, RequestStands, Live, ChatTypeOK
  <2> QED
    BY <2>1, <2>3, <2>4 DEF AnswersInv, AskedBefore, AnswersItsHistory, Answers
<1> QED
  BY <1>3, <1>5, <1>6, <1>7

LEMMA AnswersStep ==
  ASSUME TypeInv, AnswersInv, AtMostTwo, [Next]_vars
  PROVE  AnswersInv'
<1>1. CASE UNCHANGED streamVars
  BY <1>1, OwnMessagesStep DEF AnswersInv, OneStream, RequestStands, AskedBefore,
     AnswersItsHistory, Answers, Live
<1>2. OwnMessages'
  BY OwnMessagesStep DEF AnswersInv
<1> HIDE DEF streamVars
<1> QED
  BY <1>1, <1>2, AnswersOfEnd, AnswersOfOthers, ChatStep DEF AnswersInv

(* With two senders, no message and no answer of the other stands between  *)
(* a message and its answer, whatever is aborted, fails or is tried again  *)
(* (sendPromise).                                                          *)
THEOREM AnswersFollow == Spec => [](AtMostTwo => AnswersItsHistory)
<1>1. Init => AnswersInv
  <2>1. Init => OneStream /\ RequestStands
    BY ChatAssumption DEF Init, ChatInit, OneStream, RequestStands, Live
  <2>2. Init => OwnMessages
    BY DEF Init, ChatInit, OwnMessages, Message
  <2>3. Init => AskedBefore /\ AnswersItsHistory
    BY DEF Init, ChatInit, AskedBefore, AnswersItsHistory, Answers
  <2> QED
    BY <2>1, <2>2, <2>3 DEF AnswersInv
<1>2. (TypeOK /\ TurnInv) /\ (AtMostTwo => AnswersInv) /\ [Next]_vars
        => (AtMostTwo => AnswersInv)'
  BY AnswersStep DEF TypeInv, AtMostTwo
<1>3. (AtMostTwo => AnswersInv) => (AtMostTwo => AnswersItsHistory)
  BY DEF AnswersInv
<1> QED
  BY <1>1, <1>2, <1>3, TurnTypes, PTL DEF Spec

-----------------------------------------------------------------------------
(* Calls are answered.                                                     *)

(* How the turn of s ends, or goes on.                                     *)
TurnsOver(s) ==
  \/ \E how, lost : Over(s, how, lost)
  \/ \E kind, retry, lost : Recurse(s, kind, retry, lost)

(* A step of s changes nothing of the turns of the others, and what is     *)
(* lost stays lost.                                                        *)
LEMMA OthersOfTurn ==
  ASSUME TypeOK, NEW s \in Senders, TurnsOver(s), NEW w \in Senders \ {s}
  PROVE  /\ run'[w] = run[w] /\ outbox'[w] = outbox[w]
         /\ asked'[w] = asked[w] /\ pending'[w] = pending[w]
         /\ dropped \subseteq dropped'
<1>1. CASE \E how, lost : Over(s, how, lost)
  <2>1. run' = [run EXCEPT ![s] = "tools"] \/ run' = [run EXCEPT ![s] = "idle"]
    BY <1>1 DEF Over, Goes
  <2>2. asked' = asked \/ asked' = [asked EXCEPT ![s] = {}]
    BY <1>1 DEF Over
  <2>3. dropped \subseteq dropped'
    BY <1>1 DEF Over
  <2>4. /\ outbox' = [outbox EXCEPT ![s] = Message(s, "prompt", <<>>)]
        /\ pending' = [pending EXCEPT ![s] = {}]
    BY <1>1 DEF Over
  <2> QED
    BY <2>1, <2>2, <2>3, <2>4 DEF TypeOK, ChatTypeOK
<1>2. CASE \E kind, retry, lost : Recurse(s, kind, retry, lost)
  BY <1>2 DEF Recurse, Request, Goes, TypeOK, ChatTypeOK
<1> QED
  BY <1>1, <1>2 DEF TurnsOver

LEMMA TurnsOverIn ==
  ASSUME NEW s,
         \/ LoopAtStart(s) \/ SeeLoop(s) \/ SessionFinishes(s) \/ SeeAbort(s)
         \/ GoOnAfterInvalid(s) \/ SpeaksNext(s) \/ StopAfterStream(s)
  PROVE  TurnsOver(s)
BY DEF LoopAtStart, SeeLoop, OnLoop, SessionFinishes, SeeAbort, GoOnAfterInvalid,
   SpeaksNext, StopAfterStream, TurnsOver

LEMMA OthersLeft ==
  ASSUME TypeInv, NEW s \in Senders, Progress(s) \/ Prompt(s) \/ Abort(s),
         NEW w \in Senders \ {s}
  PROVE  /\ run'[w] = run[w] /\ outbox'[w] = outbox[w]
         /\ asked'[w] = asked[w] /\ pending'[w] = pending[w]
<1>1. TypeOK
  BY DEF TypeInv
<1>2. CASE \/ LoopAtStart(s) \/ SeeLoop(s) \/ SessionFinishes(s) \/ SeeAbort(s)
           \/ GoOnAfterInvalid(s) \/ SpeaksNext(s) \/ StopAfterStream(s)
  BY <1>1, <1>2, TurnsOverIn, OthersOfTurn
<1>3. CASE BeginTurn(s)
  <2>1. CASE TurnsOver(s)
    BY <1>1, <2>1, OthersOfTurn
  <2>2. CASE Goes(s, "routing") /\ UNCHANGED <<outbox, pending, asked>>
    BY <1>1, <2>2 DEF Goes, TypeOK
  <2> QED
    BY <1>3, <2>1, <2>2 DEF BeginTurn, TurnsOver
<1>4. CASE Prompt(s) \/ Respond(s)
  BY <1>1, <1>4 DEF Prompt, Respond, Request, Goes, TypeOK, ChatTypeOK
<1>5. CASE SendMessage(s) \/ RecordCancelled(s) \/ DropResults(s)
  BY <1>1, <1>5 DEF SendMessage, RecordCancelled, DropResults, Goes, TypeOK
<1>6. CASE SeePart(s)
  BY <1>1, <1>6 DEF SeePart, TypeOK
<1>7. CASE SeeFinish(s) \/ Stream(s) \/ Abort(s)
  BY <1>7 DEF SeeFinish, Stream, Abort
<1> QED
  BY <1>2, <1>3, <1>4, <1>5, <1>6, <1>7 DEF Progress

LEMMA LostStaysLost ==
  ASSUME NEW s, Progress(s) \/ Prompt(s) \/ Abort(s)
  PROVE  dropped \subseteq dropped' /\ consumer' = consumer
<1>1. ASSUME TurnsOver(s)
      PROVE  dropped \subseteq dropped'
  BY <1>1 DEF TurnsOver, Over, Recurse
<1>2. CASE \/ LoopAtStart(s) \/ SeeLoop(s) \/ SessionFinishes(s) \/ SeeAbort(s)
           \/ GoOnAfterInvalid(s) \/ SpeaksNext(s) \/ StopAfterStream(s)
  <2>1. TurnsOver(s)
    BY <1>2, TurnsOverIn
  <2>2. consumer' = consumer
    BY <1>2 DEF LoopAtStart, SeeLoop, SessionFinishes, SeeAbort, GoOnAfterInvalid,
       SpeaksNext, StopAfterStream
  <2> QED
    BY <1>1, <2>1, <2>2
<1>3. CASE BeginTurn(s)
  <2>1. TurnsOver(s) \/ UNCHANGED dropped
    BY <1>3 DEF BeginTurn, TurnsOver
  <2> QED
    BY <1>1, <1>3, <2>1 DEF BeginTurn
<1>4. CASE \/ Prompt(s) \/ Respond(s) \/ SendMessage(s) \/ RecordCancelled(s)
           \/ DropResults(s) \/ SeePart(s) \/ SeeFinish(s) \/ Stream(s) \/ Abort(s)
  BY <1>4 DEF Prompt, Respond, SendMessage, RecordCancelled, DropResults, SeePart,
     SeeFinish, Stream, Abort
<1> QED
  BY <1>2, <1>3, <1>4 DEF Progress

(* The result of a turn that is over: what was to be sent, or is collected *)
(* and not run, is lost.                                                   *)
LEMMA OverLoses ==
  ASSUME TypeOK, NEW s \in Senders, NEW how, NEW lost, Over(s, how, lost)
  PROVE  /\ lost \subseteq dropped'
         /\ \/ asked[s] \subseteq dropped'
            \/ run'[s] = "tools" /\ asked' = asked
BY DEF Over, Goes, TypeOK

(* Calls whose results are still to come stay so in a step of their sender *)
(* that adds nothing to the history.                                       *)
LEMMA AwaitedAtStart ==
  ASSUME TypeInv, NEW s \in Senders, NEW C, C # {}, 0 \notin C, Awaited(s, C),
         \/ Prompt(s) \/ (BeginTurn(s) /\ history' = history)
         \/ LoopAtStart(s) \/ (SendMessage(s) /\ ~Free)
  PROVE  Awaited(s, C)'
<1>1. TypeOK /\ ChatTypeOK /\ TurnInv
  BY DEF TypeInv, TypeOK
<1>2. dropped \subseteq dropped'
  BY LostStaysLost DEF Progress
<1>3. CASE C \cap dropped # {}
  BY <1>2, <1>3 DEF Awaited
<1>4. CASE C \cap dropped = {}
  <2>1. run[s] \in {"idle", "entering", "routing"} /\ phase[s] = "idle"
    BY <1>1 DEF Prompt, BeginTurn, LoopAtStart, SendMessage, TurnInv
  <2>2. /\ outbox[s].kind = "responses" /\ C \subseteq Range(outbox[s].parts)
        /\ run[s] \in {"entering", "routing"}
    BY <1>4, <2>1 DEF Awaited
  <2>3. C \subseteq Unsent(s)
    BY <2>2 DEF Unsent, CallsOf
  <2>4. CASE Prompt(s)
    BY <2>2, <2>4 DEF Prompt
  <2>5. CASE BeginTurn(s) \/ LoopAtStart(s)
    <3>1. CASE Unsent(s) \subseteq dropped'
      BY <2>3, <3>1 DEF Awaited
    <3>2. CASE Goes(s, "routing") /\ UNCHANGED outbox
      BY <1>1, <2>2, <3>2 DEF Goes, Awaited, TypeOK
    <3>3. \/ Unsent(s) \subseteq dropped'
          \/ Goes(s, "routing") /\ UNCHANGED outbox
      <4>1. ASSUME NEW how, Over(s, how, Unsent(s))
            PROVE  Unsent(s) \subseteq dropped'
        BY <1>1, <4>1, OverLoses
      <4>2. CASE BeginTurn(s)
        BY <4>1, <4>2 DEF BeginTurn
      <4>3. CASE LoopAtStart(s)
        <5>1. \/ Over(s, "left", Unsent(s))
              \/ Recurse(s, "feedback", again[s], Unsent(s))
          BY <4>3 DEF LoopAtStart, OnLoop
        <5> QED
          BY <4>1, <5>1 DEF Recurse
      <4> QED
        BY <2>5, <4>2, <4>3
    <3> QED
      BY <3>1, <3>2, <3>3
  <2>6. CASE SendMessage(s) /\ ~Free
    <3>1. phase'[s] = "queued" /\ UNCHANGED outbox
      BY <1>1, <2>6 DEF SendMessage, Send, ChatTypeOK
    <3> QED
      BY <2>2, <3>1 DEF Awaited
  <2> QED
    BY <2>4, <2>5, <2>6
<1> QED
  BY <1>3, <1>4

(* While a stream is under way nothing of its sender is awaited any more.  *)
LEMMA NotWhileLive ==
  ASSUME TypeInv, NEW s \in Senders, NEW C, Awaited(s, C), Live(s)
  PROVE  C \cap dropped # {}
<1>1. run[s] = "sending" /\ phase[s] # "idle" /\ phase[s] # "queued"
  BY DEF TypeInv, TurnInv, Live
<1> QED
  BY <1>1 DEF Awaited

LEMMA AwaitedAfterStream ==
  ASSUME TypeInv, NEW s \in Senders, NEW C, C # {}, 0 \notin C, Awaited(s, C),
         GoOnAfterInvalid(s) \/ SpeaksNext(s) \/ StopAfterStream(s)
  PROVE  Awaited(s, C)'
<1>1. TypeOK
  BY DEF TypeInv
<1>2. dropped \subseteq dropped'
  BY LostStaysLost DEF Progress
<1>3. CASE C \cap dropped # {}
  BY <1>2, <1>3 DEF Awaited
<1>4. CASE C \cap dropped = {}
  <2>1. run[s] = "sending" /\ phase[s] = "idle"
    BY DEF GoOnAfterInvalid, SpeaksNext, StopAfterStream, Streamed
  <2>2. C \subseteq asked[s] /\ C \subseteq pending[s] /\ result[s] = "done"
    BY <1>4, <2>1 DEF Awaited
  <2>3. StopAfterStream(s)
    BY <2>2 DEF GoOnAfterInvalid, SpeaksNext, Streamed
  <2>4. asked[s] \subseteq dropped' \/ (run'[s] = "tools" /\ asked' = asked)
    BY <1>1, <2>3, OverLoses DEF StopAfterStream
  <2> QED
    BY <2>2, <2>4 DEF Awaited
<1> QED
  BY <1>3, <1>4

LEMMA AwaitedInTools ==
  ASSUME TypeInv, NEW s \in Senders, NEW C, C # {}, 0 \notin C, Awaited(s, C),
         Respond(s) \/ DropResults(s) \/ Abort(s)
  PROVE  Awaited(s, C)'
<1>1. TypeOK /\ ChatTypeOK /\ TurnInv
  BY DEF TypeInv, TypeOK
<1>2. dropped \subseteq dropped'
  BY LostStaysLost DEF Progress
<1>3. CASE C \cap dropped # {}
  BY <1>2, <1>3 DEF Awaited
<1>4. CASE Abort(s)
  BY <1>4 DEF Abort, Awaited
<1>5. CASE C \cap dropped = {} /\ (Respond(s) \/ DropResults(s))
  <2>1. run[s] = "tools" /\ phase[s] = "idle"
    BY <1>1, <1>5 DEF Respond, DropResults, TurnInv
  <2>2. C \subseteq asked[s]
    BY <1>5, <2>1 DEF Awaited
  <2>3. CASE DropResults(s)
    BY <2>2, <2>3 DEF DropResults, Awaited
  <2>4. CASE Respond(s)
    <3>1. Range(SetToSeq(asked[s])) = asked[s]
      BY <1>1, ResponsesType
    <3>2. /\ outbox'[s] = Message(s, "responses", SetToSeq(asked[s]))
          /\ run'[s] = "entering"
      BY <1>1, <2>4 DEF Respond, Request, Goes, TypeOK, ChatTypeOK
    <3> QED
      BY <2>2, <3>1, <3>2 DEF Awaited, Message
  <2> QED
    BY <1>5, <2>3, <2>4
<1> QED
  BY <1>3, <1>4, <1>5

(* The steps that leave the history alone.                                 *)
LEMMA AwaitedKept ==
  ASSUME TypeInv, NEW s \in Senders, Progress(s) \/ Prompt(s) \/ Abort(s),
         history' = history, NEW C, C # {}, 0 \notin C, Awaited(s, C)
  PROVE  Awaited(s, C)'
<1>1. dropped \subseteq dropped'
  BY LostStaysLost
<1>2. CASE Live(s)
  BY <1>1, <1>2, NotWhileLive DEF Awaited
<1>3. CASE ~Live(s)
  <2>1. ~(SeePart(s) \/ SeeLoop(s) \/ SeeFinish(s) \/ SessionFinishes(s) \/ SeeAbort(s))
    BY <1>3 DEF SeePart, Part, SeeLoop, Leave, SeeFinish, Finishes, SessionFinishes,
       SeeAbort, Live
  <2>2. ~Stream(s)
    BY <1>3, StreamIs DEF Ends, Connect, Breaks, Retry, Live
  <2>3. CASE SendMessage(s)
    <3>1. TypeOK /\ ChatTypeOK
      BY DEF TypeInv, TypeOK
    <3>2. ~Free
      <4> SUFFICES ASSUME Free PROVE FALSE
        OBVIOUS
      <4>1. history' = Append(history, outbox[s]) /\ history \in Seq(Entries)
        BY <2>3, <3>1 DEF SendMessage, Send, ChatTypeOK
      <4>2. Len(Append(history, outbox[s])) = Len(history) + 1 /\ Len(history) \in Nat
        BY <4>1
      <4> QED
        BY <4>1, <4>2
    <3> QED
      BY <2>3, <3>2, AwaitedAtStart
  <2>4. CASE RecordCancelled(s)
    <3>1. TypeOK /\ ChatTypeOK
      BY DEF TypeInv, TypeOK
    <3>2. history' = Append(history, Responses(s)) /\ history \in Seq(Entries)
      BY <2>4, <3>1 DEF RecordCancelled, ChatTypeOK
    <3>3. Len(Append(history, Responses(s))) = Len(history) + 1 /\ Len(history) \in Nat
      BY <3>2
    <3> QED
      BY <3>2, <3>3
  <2>5. CASE Prompt(s) \/ BeginTurn(s) \/ LoopAtStart(s)
    BY <2>5, AwaitedAtStart
  <2>6. CASE GoOnAfterInvalid(s) \/ SpeaksNext(s) \/ StopAfterStream(s)
    BY <2>6, AwaitedAfterStream
  <2>7. CASE Respond(s) \/ DropResults(s) \/ Abort(s)
    BY <2>7, AwaitedInTools
  <2> QED
    BY <2>1, <2>2, <2>3, <2>4, <2>5, <2>6, <2>7 DEF Progress
<1> QED
  BY <1>2, <1>3

NoContext == \A i \in WithCalls : i < Len(history) => history[i + 1].kind # "context"

(* The next that the sender of an answer says has the results of its calls. *)
FirstAnswers ==
  \A i \in WithCalls : \A j \in i + 1 .. Len(history) :
    /\ history[j].by = history[i].by
    /\ \A k \in i + 1 .. j - 1 : history[k].by # history[i].by
    => \/ CallsOf(history[i].parts) \cap dropped # {}
       \/ history[j].kind = "responses"
          /\ CallsOf(history[i].parts) \subseteq Range(history[j].parts)

CallInv ==
  OwnMessages /\ NothingLeft /\ Collected /\ MainAlone /\ CallsKept /\ NoContext /\ FirstAnswers

LEMMA CallsFollow ==
  ASSUME TypeOK, NoContext, FirstAnswers
  PROVE  CallsAreAnswered
<1>1. history \in Seq(Entries) /\ Len(history) \in Nat
  BY DEF TypeOK, ChatTypeOK
<1>2. SUFFICES ASSUME NEW i \in WithCalls, i < Len(history),
                      CallsOf(history[i].parts) \cap dropped = {},
                      NEW j \in i + 1 .. Len(history),
                      {k \in i + 1 .. j : history[k].by = history[i].by} = {j}
               PROVE  /\ history[j].kind = "responses"
                      /\ CallsOf(history[i].parts) \subseteq Range(history[j].parts)
  BY DEF CallsAreAnswered, NoContext
<1>3. i \in Nat
  BY <1>1 DEF WithCalls, Answers
<1>4. history[j].by = history[i].by /\ j \in Nat
  BY <1>2, <1>3
<1>5. \A k \in i + 1 .. j - 1 : k \in i + 1 .. j /\ k # j
  BY <1>3, <1>4
<1>6. \A k \in i + 1 .. j - 1 : history[k].by # history[i].by
  BY <1>2, <1>5
<1> QED
  BY <1>2, <1>4, <1>6 DEF FirstAnswers

(* How a history that grows keeps it all.                                  *)
LEMMA CallsGrow ==
  ASSUME TypeOK, NoContext, FirstAnswers, CallsKept,
         history' \in Seq(Entries), Len(history') >= Len(history),
         \A j \in 1..Len(history) : history'[j] = history[j],
         dropped \subseteq dropped',
         \A m \in Len(history) + 1 .. Len(history') : history'[m].kind = "context" =>
           m = Len(history) + 1 /\ Len(history) \notin WithCalls,
         \A m \in Len(history) + 1 .. Len(history') : m \in WithCalls' =>
           /\ m = Len(history) + 1
           /\ \A k \in m + 1 .. Len(history') : history'[k].by # history'[m].by
           /\ Awaited(history[m].by, CallsOf(history[m].parts))',
         \A i \in WithCalls : Unanswered(i) =>
           \A m \in Len(history) + 1 .. Len(history') : history'[m].by = history[i].by =>
             \/ CallsOf(history[i].parts) \cap dropped' # {}
             \/ history'[m].kind = "responses"
                /\ CallsOf(history[i].parts) \subseteq Range(history'[m].parts),
         \A w \in Senders : \A C :
           /\ C # {} /\ 0 \notin C /\ Awaited(w, C)
           /\ \A m \in Len(history) + 1 .. Len(history') : history'[m].by # w
           => Awaited(w, C)'
  PROVE  NoContext' /\ FirstAnswers' /\ CallsKept'
<1>1. history \in Seq(Entries) /\ Len(history) \in Nat /\ Len(history') \in Nat
  BY DEF TypeOK, ChatTypeOK
<1>2. ASSUME NEW i \in WithCalls', i <= Len(history)
      PROVE  /\ i \in WithCalls /\ history'[i] = history[i] /\ i \in 1..Len(history)
             /\ history[i].by \in Senders
             /\ CallsOf(history[i].parts) # {} /\ 0 \notin CallsOf(history[i].parts)
  <2>1. /\ i \in 1..Len(history') /\ history'[i].kind = "answer"
        /\ CallsOf(history'[i].parts) # {}
    BY <1>1, <1>2 DEF WithCalls, Answers
  <2>2. i \in 1..Len(history) /\ history'[i] = history[i]
    BY <1>1, <1>2, <2>1
  <2>3. history[i].by \in Senders
    <3>1. history[i] \in Entries
      BY <1>1, <2>2
    <3> QED
      BY <3>1 DEF Entries
  <2> QED
    BY <1>1, <2>1, <2>2, <2>3 DEF WithCalls, Answers, CallsOf
<1>3. \A i \in WithCalls' : i \in 1..Len(history')
  BY <1>1 DEF WithCalls, Answers
<1>4. NoContext'
  <2> SUFFICES ASSUME NEW i \in WithCalls', i < Len(history')
               PROVE  history'[i + 1].kind # "context"
    BY DEF NoContext
  <2>1. i \in Nat /\ i >= 1
    BY <1>1, <1>3
  <2>2. CASE i < Len(history)
    <3>1. i \in WithCalls /\ i + 1 \in 1..Len(history)
      BY <1>1, <1>2, <2>1, <2>2
    <3> QED
      BY <2>2, <3>1 DEF NoContext
  <2>3. CASE i >= Len(history)
    <3>1. i + 1 \in Len(history) + 1 .. Len(history')
      BY <1>1, <2>1, <2>3
    <3>2. i = Len(history) => i \in WithCalls
      BY <1>1, <1>2
    <3> QED
      BY <1>1, <2>1, <3>1, <3>2
  <2> QED
    BY <1>1, <2>1, <2>2, <2>3
<1>5. FirstAnswers'
  <2> SUFFICES ASSUME NEW i \in WithCalls', NEW j \in i + 1 .. Len(history'),
                      history'[j].by = history'[i].by,
                      \A k \in i + 1 .. j - 1 : history'[k].by # history'[i].by
               PROVE  \/ CallsOf(history'[i].parts) \cap dropped' # {}
                      \/ history'[j].kind = "responses"
                         /\ CallsOf(history'[i].parts) \subseteq Range(history'[j].parts)
    BY DEF FirstAnswers
  <2>1. i \in Nat /\ i >= 1 /\ j \in Nat /\ j > i /\ j <= Len(history')
    BY <1>1, <1>3
  <2>2. CASE j <= Len(history)
    <3>1. i \in WithCalls /\ history'[i] = history[i] /\ history'[j] = history[j]
      BY <1>1, <1>2, <2>1, <2>2
    <3>2. \A k \in i + 1 .. j - 1 : history'[k] = history[k]
      BY <1>1, <2>1, <2>2
    <3>3. j \in i + 1 .. Len(history)
      BY <1>1, <2>1, <2>2
    <3>4. \A k \in i + 1 .. j - 1 : history[k].by # history[i].by
      BY <3>1, <3>2
    <3> QED
      BY <3>1, <3>3, <3>4 DEF FirstAnswers
  <2>3. CASE j > Len(history) /\ i <= Len(history)
    <3>1. i \in WithCalls /\ history'[i] = history[i]
      BY <1>2, <2>3
    <3>2. \A k \in i + 1 .. Len(history) : k \in i + 1 .. j - 1 /\ history'[k] = history[k]
      BY <1>1, <2>1, <2>3
    <3>3. Unanswered(i)
      BY <3>1, <3>2 DEF Unanswered
    <3>4. j \in Len(history) + 1 .. Len(history')
      BY <1>1, <2>1, <2>3
    <3> QED
      BY <3>1, <3>3, <3>4
  <2>4. CASE j > Len(history) /\ i > Len(history)
    <3>1. i \in Len(history) + 1 .. Len(history')
      BY <1>1, <2>1, <2>4
    <3> QED
      BY <2>1, <3>1
  <2> QED
    BY <1>1, <2>1, <2>2, <2>3, <2>4
<1>6. CallsKept'
  <2> SUFFICES ASSUME NEW i \in WithCalls', Unanswered(i)'
               PROVE  Awaited(history[i].by, CallsOf(history[i].parts))'
    BY DEF CallsKept
  <2>1. i \in Nat /\ i >= 1 /\ i <= Len(history')
    BY <1>1, <1>3
  <2>2. CASE i > Len(history)
    <3>1. i \in Len(history) + 1 .. Len(history')
      BY <1>1, <2>1, <2>2
    <3> QED
      BY <3>1
  <2>3. CASE i <= Len(history)
    <3>1. /\ i \in WithCalls /\ history'[i] = history[i] /\ history[i].by \in Senders
          /\ CallsOf(history[i].parts) # {} /\ 0 \notin CallsOf(history[i].parts)
      BY <1>2, <2>3
    <3>2. \A k \in i + 1 .. Len(history) :
            k \in i + 1 .. Len(history') /\ history'[k] = history[k]
      BY <1>1, <2>1, <2>3
    <3>3. Unanswered(i)
      BY <3>1, <3>2 DEF Unanswered
    <3>4. Awaited(history[i].by, CallsOf(history[i].parts))
      BY <3>1, <3>3 DEF CallsKept
    <3>5. \A m \in Len(history) + 1 .. Len(history') : history'[m].by # history[i].by
      <4>1. \A m \in Len(history) + 1 .. Len(history') : m \in i + 1 .. Len(history')
        BY <1>1, <2>1, <2>3
      <4> QED
        BY <3>1, <4>1 DEF Unanswered
    <3>6. PICK w, C : w = history[i].by /\ C = CallsOf(history[i].parts)
      OBVIOUS
    <3>7. Awaited(w, C)
      BY <3>4, <3>6
    <3>8. Awaited(w, C)'
      BY <3>1, <3>5, <3>6, <3>7
    <3>9. w = history'[i].by /\ C = CallsOf(history'[i].parts)
      BY <3>1, <3>6
    <3> QED
      BY <3>8, <3>9 DEF Awaited
  <2> QED
    BY <1>1, <2>1, <2>2, <2>3
<1> QED
  BY <1>4, <1>5, <1>6

(* Prompts of others come only through the A2A server, and only those who  *)
(* are in a prompt make a step.                                            *)
LEMMA BusyStep ==
  ASSUME TypeInv, NEW s \in Senders, Progress(s) \/ Abort(s)
  PROVE  run[s] # "idle"
<1>1. TurnInv
  BY DEF TypeInv
<1>2. CASE Live(s)
  BY <1>1, <1>2 DEF TurnInv, Live
<1>3. CASE ~Live(s)
  <2>1. ~(SeePart(s) \/ SeeLoop(s) \/ SeeFinish(s) \/ SessionFinishes(s) \/ SeeAbort(s))
    BY <1>3 DEF SeePart, Part, SeeLoop, Leave, SeeFinish, Finishes, SessionFinishes,
       SeeAbort, Live
  <2>2. ~Stream(s)
    BY <1>3, StreamIs DEF Ends, Connect, Breaks, Retry, Live
  <2> QED
    BY <2>1, <2>2 DEF Progress, BeginTurn, LoopAtStart, SendMessage, GoOnAfterInvalid,
       SpeaksNext, StopAfterStream, Streamed, Respond, RecordCancelled, DropResults, Abort
<1> QED
  BY <1>2, <1>3

(* Every new entry is of somebody who is in a prompt.                      *)
LEMMA NewEntries ==
  ASSUME TypeInv, OwnMessages, [Next]_vars
  PROVE  /\ history' \in Seq(Entries) /\ Len(history') >= Len(history)
         /\ \A j \in 1..Len(history) : history'[j] = history[j]
         /\ \A m \in Len(history) + 1 .. Len(history') :
              history'[m].by \in Senders /\ run[history'[m].by] # "idle"
<1>1. TypeOK /\ ChatTypeOK /\ TurnInv
  BY DEF TypeInv, TypeOK
<1>2. history \in Seq(Entries) /\ Len(history) \in Nat
  BY <1>1 DEF ChatTypeOK
<1>3. ASSUME NEW s \in Senders, NEW e \in Entries, e.by = s, run[s] # "idle",
             history' = Append(history, e)
      PROVE  /\ history' \in Seq(Entries) /\ Len(history') >= Len(history)
             /\ \A j \in 1..Len(history) : history'[j] = history[j]
             /\ \A m \in Len(history) + 1 .. Len(history') :
                  history'[m].by \in Senders /\ run[history'[m].by] # "idle"
  <2> HIDE DEF Entries
  <2>1. /\ history' \in Seq(Entries) /\ Len(history') = Len(history) + 1
        /\ \A j \in 1..Len(history) : history'[j] = history[j]
        /\ history'[Len(history) + 1] = e
    BY <1>2, <1>3
  <2>2. \A m \in Len(history) + 1 .. Len(history') : m = Len(history) + 1
    BY <1>2, <2>1
  <2> QED
    BY <1>2, <1>3, <2>1, <2>2
<1>4. CASE history' = history
  BY <1>2, <1>4
<1>5. ASSUME NEW s \in Senders, Ends(s)
      PROVE  /\ history' \in Seq(Entries) /\ Len(history') >= Len(history)
             /\ \A j \in 1..Len(history) : history'[j] = history[j]
             /\ \A m \in Len(history) + 1 .. Len(history') :
                  history'[m].by \in Senders /\ run[history'[m].by] # "idle"
  <2>1. PICK how \in Results, answer \in {<<>>, <<Answer(s)>>} :
          End(s, how, answer) /\ phase[s] \in {"connecting", "streaming"}
    BY <1>5 DEF Ends
  <2>2. <<Answer(s)>> \in Seq(Entries) /\ <<>> \in Seq(Entries)
    BY <1>1, AnswerType
  <2> HIDE DEF Entries
  <2>3. answer \in Seq(Entries)
    BY <2>1, <2>2
  <2>4. PICK next \in Seq(Senders) : EndsWith(s, how, answer, next)
    BY <1>1, <2>1, <2>3, EndIs
  <2> DEFINE n == Len(history) + Len(answer)
  <2>5. /\ n \in Nat /\ n >= Len(history) /\ Len(next) \in Nat /\ DOMAIN next = 1..Len(next)
        /\ Len(answer) \in Nat
    BY <1>2, <2>3
  <2>6. /\ history' \in Seq(Entries) /\ Len(history') = n + Len(next)
        /\ \A j \in 1..Len(history) : history'[j] = history[j]
        /\ \A j \in 1..Len(answer) : history'[Len(history) + j] = answer[j]
        /\ \A i \in 1..Len(next) : history'[n + i] = outbox[next[i]]
        /\ \A i \in 1..Len(next) : next[i] \in Freed(s, how)
    BY <2>4, <2>5 DEF EndsWith, Range
  <2>7. n = Len(history) + Len(answer)
    OBVIOUS
  <2> HIDE DEF n
  <2>8. ASSUME NEW m \in Len(history) + 1 .. Len(history')
        PROVE  history'[m].by \in Senders /\ run[history'[m].by] # "idle"
    <3>1. CASE m <= n
      <4> DEFINE j == m - Len(history)
      <4>1. j \in 1..Len(answer) /\ m = Len(history) + j
        BY <1>2, <2>5, <2>7, <3>1
      <4> HIDE DEF j
      <4>2. history'[m] = answer[j]
        BY <2>6, <4>1
      <4>3. answer = <<Answer(s)>> /\ j = 1
        <5>1. answer # <<>>
          BY <4>1
        <5>2. answer = <<Answer(s)>>
          BY <2>1, <5>1
        <5> QED
          BY <4>1, <5>2
      <4>4. history'[m].by = s
        BY <4>2, <4>3 DEF Answer
      <4> QED
        BY <1>1, <2>1, <4>4 DEF TurnInv
    <3>2. CASE m > n
      <4> DEFINE i == m - n
      <4>1. i \in 1..Len(next) /\ m = n + i
        BY <1>2, <2>5, <2>6, <3>2
      <4> HIDE DEF i
      <4>2. history'[m] = outbox[next[i]] /\ next[i] \in Senders /\ behind[next[i]] = s
        BY <2>6, <4>1 DEF Freed
      <4>3. history'[m].by = next[i] /\ phase[next[i]] = "queued"
        BY <1>1, <4>2, ChatAssumption DEF OwnMessages, TurnInv
      <4> QED
        BY <1>1, <4>2, <4>3 DEF TurnInv
    <3> QED
      BY <1>2, <2>5, <3>1, <3>2
  <2> QED
    BY <1>2, <2>5, <2>6, <2>8
<1>6. ASSUME NEW s \in Senders, Records(s)
      PROVE  \E e \in Entries : e.by = s /\ run[s] # "idle" /\ history' = Append(history, e)
  BY <1>6 DEF Records
<1>7. ASSUME NEW s \in Senders, run[s] = "routing", Send(s)
      PROVE  \/ history' = history
             \/ \E e \in Entries : e.by = s /\ run[s] # "idle" /\ history' = Append(history, e)
  BY <1>1, <1>7 DEF Send, OwnMessages, ChatTypeOK
<1>8. ASSUME NEW s \in Senders, GoesOn(s)
      PROVE  history' = history
  BY <1>8 DEF GoesOn, Connect, Breaks, Pause, Retry, Finishes, Part, Streamed
<1> HIDE DEF Entries
<1> QED
  BY <1>3, <1>4, <1>5, <1>6, <1>7, <1>8, ChatStep

(* Nobody else's stream moves, but of those whose message is recorded.     *)
LEMMA OthersOfStream ==
  ASSUME TypeInv, OwnMessages, NEW s \in Senders, Progress(s) \/ Prompt(s) \/ Abort(s),
         NEW w \in Senders \ {s}
  PROVE  /\ result'[w] = result[w]
         /\ \/ phase'[w] = phase[w]
            \/ \E m \in Len(history) + 1 .. Len(history') : history'[m].by = w
<1>1. TypeOK /\ ChatTypeOK /\ TurnInv
  BY DEF TypeInv, TypeOK
<1>2. CASE GoesOn(s)
  BY <1>1, <1>2 DEF GoesOn, Connect, Breaks, Pause, Retry, Finishes, Part, Streamed,
     ChatTypeOK
<1>3. CASE Send(s)
  BY <1>1, <1>3 DEF Send, ChatTypeOK
<1>4. CASE Records(s) \/ UNCHANGED streamVars
  BY <1>4 DEF Records
<1>5. CASE Ends(s)
  <2>1. PICK how \in Results, answer \in {<<>>, <<Answer(s)>>} : End(s, how, answer)
    BY <1>5 DEF Ends
  <2>2. <<Answer(s)>> \in Seq(Entries) /\ <<>> \in Seq(Entries)
    BY <1>1, AnswerType
  <2>3. result'[w] = result[w]
    BY <1>1, <2>1 DEF End, ChatTypeOK
  <2>4. phase' = [v \in Senders |-> IF v = s THEN "idle"
                    ELSE IF v \in Freed(s, how) THEN "connecting" ELSE phase[v]]
    BY <1>1, <2>1, EndShape
  <2>5. CASE w \notin Freed(s, how)
    BY <2>3, <2>4, <2>5
  <2>6. CASE w \in Freed(s, how)
    <3> HIDE DEF Entries
    <3>1. answer \in Seq(Entries)
      BY <2>1, <2>2
    <3>2. PICK next \in Seq(Senders) : EndsWith(s, how, answer, next)
      BY <1>1, <2>1, <3>1, EndIs
    <3>3. PICK i \in DOMAIN next : next[i] = w
      BY <2>6, <3>2 DEF EndsWith, Range
    <3>4. i \in 1..Len(next) /\ Len(next) \in Nat
      BY <3>3
    <3> DEFINE n == Len(history) + Len(answer)
    <3>5. history'[n + i] = outbox[w] /\ Len(history') = n + Len(next)
      BY <3>2, <3>3, <3>4 DEF EndsWith
    <3>6. Len(history) \in Nat /\ Len(answer) \in Nat
      <4>1. history \in Seq(Entries)
        BY <1>1 DEF ChatTypeOK
      <4> QED
        BY <3>1, <4>1
    <3>7. n + i \in Len(history) + 1 .. Len(history')
      BY <3>4, <3>5, <3>6
    <3>8. outbox[w].by = w
      BY DEF OwnMessages
    <3> QED
      BY <2>3, <3>5, <3>7, <3>8
  <2> QED
    BY <2>5, <2>6
<1> HIDE DEF streamVars
<1> QED
  BY <1>2, <1>3, <1>4, <1>5, ChatStepOf

LEMMA AwaitedOfOthers ==
  ASSUME TypeInv, OwnMessages, NEW s \in Senders, Progress(s) \/ Prompt(s) \/ Abort(s),
         NEW w \in Senders \ {s}, NEW C, Awaited(w, C),
         \A m \in Len(history) + 1 .. Len(history') : history'[m].by # w
  PROVE  Awaited(w, C)'
<1>1. /\ run'[w] = run[w] /\ outbox'[w] = outbox[w]
      /\ asked'[w] = asked[w] /\ pending'[w] = pending[w]
  BY OthersLeft
<1>2. result'[w] = result[w] /\ phase'[w] = phase[w]
  BY OthersOfStream
<1>3. dropped \subseteq dropped'
  BY LostStaysLost
<1> QED
  BY <1>1, <1>2, <1>3 DEF Awaited

LEMMA MainAloneStep ==
  ASSUME TypeInv, OwnMessages, MainAlone, NEW s \in Senders,
         Progress(s) \/ Prompt(s) \/ Abort(s), [Next]_vars
  PROVE  MainAlone'
<1>1. consumer' = consumer
  BY LostStaysLost
<1>2. SUFFICES ASSUME consumer # "a2a"
      PROVE  /\ \A w \in Senders : run'[w] # "idle" => w = Main
             /\ \A i \in DOMAIN history' : history'[i].by = Main
  BY <1>1 DEF MainAlone
<1>3. s = Main
  <2>1. CASE Prompt(s)
    BY <1>2, <2>1 DEF Prompt
  <2>2. CASE Progress(s) \/ Abort(s)
    BY <1>2, <2>2, BusyStep DEF MainAlone
  <2> QED
    BY <2>1, <2>2
<1>4. \A w \in Senders : run'[w] # "idle" => w = Main
  BY <1>2, <1>3, OthersLeft DEF MainAlone
<1>5. \A i \in DOMAIN history' : history'[i].by = Main
  <2>1. /\ history \in Seq(Entries) /\ Len(history) \in Nat
        /\ history' \in Seq(Entries)
    BY NewEntries DEF TypeInv, TypeOK, ChatTypeOK
  <2>2. /\ Len(history') \in Nat /\ DOMAIN history' = 1..Len(history')
        /\ DOMAIN history = 1..Len(history)
    BY <2>1
  <2>3. /\ \A j \in 1..Len(history) : history'[j] = history[j]
        /\ \A m \in Len(history) + 1 .. Len(history') :
             history'[m].by \in Senders /\ run[history'[m].by] # "idle"
    BY NewEntries
  <2> SUFFICES ASSUME NEW i \in 1..Len(history') PROVE history'[i].by = Main
    BY <2>2
  <2>4. CASE i \in 1..Len(history)
    BY <1>2, <2>2, <2>3, <2>4 DEF MainAlone
  <2>5. CASE i \in Len(history) + 1 .. Len(history')
    BY <1>2, <2>3, <2>5 DEF MainAlone
  <2> QED
    BY <2>1, <2>2, <2>4, <2>5
<1> QED
  BY <1>4, <1>5

(* What was called so far is known: while a stream is under way, the turn  *)
(* and the consumer collect.                                               *)
LEMMA CollectedStep ==
  ASSUME TypeInv, NothingLeft, Collected, NEW s \in Senders,
         Progress(s) \/ Prompt(s) \/ Abort(s)
  PROVE  Collected'
<1>1. TypeOK /\ ChatTypeOK /\ TurnInv
  BY DEF TypeInv, TypeOK
<1>2. \A parts : parts = <<>> => CallsOf(parts) = {}
  BY DEF CallsOf, Range
<1>3. SUFFICES ASSUME NEW w \in Senders
      PROVE  \/ CallsOf(got'[w]) \cap dropped' # {}
             \/ CallsOf(got'[w]) \subseteq pending'[w] /\ CallsOf(got'[w]) \subseteq asked'[w]
  BY DEF Collected, CallsOf
<1>4. \/ got'[w] = got[w] \/ got'[w] = <<>>
      \/ w = s /\ SeePart(s)
  <2>1. CASE Ends(s)
    <3>1. got' = [got EXCEPT ![s] = <<>>]
      BY <2>1 DEF Ends, End
    <3> QED
      BY <1>1, <3>1 DEF ChatTypeOK
  <2>2. CASE Stream(s) /\ ~Ends(s)
    BY <1>1, <2>2, StreamIs DEF Connect, Breaks, Pause, Retry, ChatTypeOK
  <2>3. CASE SeePart(s)
    <3>1. PICK part : got' = [got EXCEPT ![s] = Append(@, part)]
      BY <2>3 DEF SeePart, Part
    <3> QED
      BY <1>1, <2>3, <3>1 DEF ChatTypeOK
  <2>4. CASE SeeLoop(s) \/ SessionFinishes(s) \/ SeeAbort(s)
    <3>1. got' = [got EXCEPT ![s] = <<>>]
      BY <2>4 DEF SeeLoop, SessionFinishes, SeeAbort, Leave, End
    <3> QED
      BY <1>1, <3>1 DEF ChatTypeOK
  <2>5. CASE ~(Stream(s) \/ SeePart(s) \/ SeeLoop(s) \/ SessionFinishes(s) \/ SeeAbort(s))
    BY <2>5 DEF Progress, Prompt, BeginTurn, LoopAtStart, SendMessage, Send, SeeFinish,
       Finishes, GoOnAfterInvalid, SpeaksNext, StopAfterStream, Streamed, Respond,
       RecordCancelled, DropResults, Abort
  <2> QED
    BY <2>1, <2>2, <2>3, <2>4, <2>5
<1>5. CASE got'[w] = <<>>
  BY <1>2, <1>5
<1>9. dropped \subseteq dropped'
  BY LostStaysLost
<1>6. CASE w = s /\ SeePart(s)
  <2>1. PICK part \in Parts, seen \in Parts :
          /\ got' = [got EXCEPT ![s] = Append(got[s], part)]
          /\ pending' = [pending EXCEPT ![s] = pending[s] \cup ({seen} \ {0})]
          /\ asked' = [asked EXCEPT ![s] = asked[s] \cup ({seen} \ {0})]
          /\ dropped' = dropped \cup ({part} \ {0, seen})
    <3>1. 0 \in Parts
      BY ChatAssumption DEF Parts
    <3> HIDE DEF Parts
    <3> QED
      BY <1>6, <3>1 DEF SeePart, Part
  <2> HIDE DEF Parts
  <2>2. /\ got'[s] = Append(got[s], part) /\ got[s] \in Seq(Parts)
        /\ pending'[s] = pending[s] \cup ({seen} \ {0})
        /\ asked'[s] = asked[s] \cup ({seen} \ {0})
    BY <1>1, <2>1 DEF ChatTypeOK, TypeOK
  <2>3. Range(Append(got[s], part)) = Range(got[s]) \cup {part}
    <3>1. Range(Append(got[s], part)) \subseteq Range(got[s]) \cup {part}
      BY <2>2 DEF Range
    <3>2. Range(got[s]) \subseteq Range(Append(got[s], part))
      <4> SUFFICES ASSUME NEW i \in DOMAIN got[s]
                   PROVE  got[s][i] \in Range(Append(got[s], part))
        BY DEF Range
      <4>1. i \in DOMAIN Append(got[s], part) /\ Append(got[s], part)[i] = got[s][i]
        BY <2>2
      <4> QED
        BY <4>1 DEF Range
    <3>3. part \in Range(Append(got[s], part))
      <4>1. /\ Len(got[s]) + 1 \in DOMAIN Append(got[s], part)
            /\ Append(got[s], part)[Len(got[s]) + 1] = part
        BY <2>2
      <4> QED
        BY <4>1 DEF Range
    <3> QED
      BY <3>1, <3>2, <3>3
  <2>4. CallsOf(got'[s]) = CallsOf(got[s]) \cup ({part} \ {0})
    BY <2>2, <2>3 DEF CallsOf
  <2>5. \/ CallsOf(got[s]) \cap dropped # {}
        \/ CallsOf(got[s]) \subseteq pending[s] /\ CallsOf(got[s]) \subseteq asked[s]
    BY DEF Collected
  <2> HIDE DEF CallsOf
  <2> QED
    BY <1>6, <1>9, <2>1, <2>2, <2>4, <2>5
<1>7. CASE got'[w] = got[w] /\ w # s
  BY <1>7, <1>9, OthersLeft DEF Collected
<1>8. CASE got'[w] = got[w] /\ w = s /\ got[s] # <<>>
  <2>1. phase[s] = "streaming" /\ run[s] = "sending"
    BY <1>1, <1>8 DEF NothingLeft, TurnInv
  <2>2. CASE SeePart(s)
    BY <1>6, <1>8, <2>2
  <2>3. CASE SeeLoop(s) \/ SessionFinishes(s) \/ SeeAbort(s)
    <3>1. got' = [got EXCEPT ![s] = <<>>]
      BY <2>3 DEF SeeLoop, SessionFinishes, SeeAbort, Leave, End
    <3> QED
      BY <1>1, <1>5, <1>8, <3>1 DEF ChatTypeOK
  <2>4. CASE Stream(s) \/ SeeFinish(s) \/ Abort(s)
    BY <1>8, <1>9, <2>4 DEF Stream, SeeFinish, Abort, Collected
  <2> QED
    BY <2>1, <2>2, <2>3, <2>4 DEF Progress, Prompt, BeginTurn, LoopAtStart, SendMessage,
       GoOnAfterInvalid, SpeaksNext, StopAfterStream, Streamed, Respond, RecordCancelled,
       DropResults
<1> QED
  BY <1>2, <1>4, <1>5, <1>6, <1>7, <1>8

(* What adds to the history.                                               *)
LEMMA HistoryStep ==
  ASSUME TypeInv, NEW s \in Senders, Progress(s) \/ Prompt(s) \/ Abort(s)
  PROVE  \/ history' = history
         \/ Complete(s) /\ UNCHANGED <<outbox, clientVars>>
         \/ Live(s) /\ \E how \in Results : End(s, how, <<>>)
         \/ SendMessage(s) /\ Free
         \/ /\ run[s] = "entering" /\ consumer # "a2a" /\ ~LastHasCall
            /\ history' = Append(history, Message(s, "context", <<>>))
         \/ RecordCancelled(s)
<1>1. "error" \in Results /\ "invalid" \in Results /\ "blocked" \in Results /\ "none" \in Results
  BY DEF Results
<1>2. CASE Stream(s)
  <2>1. CASE Complete(s)
    BY <1>2, <2>1 DEF Stream
  <2>2. CASE Connect(s) \/ Retry(s)
    BY <2>2 DEF Connect, Retry
  <2>3. CASE Invalid(s) \/ Break(s)
    BY <1>1, <2>3 DEF Invalid, Break, Pause, Live
  <2>4. CASE Fail(s) \/ HookEnds(s)
    BY <1>1, <2>4 DEF Fail, HookEnds, Live
  <2> HIDE DEF clientVars
  <2> QED
    BY <1>2, <2>1, <2>2, <2>3, <2>4 DEF Stream
<1>3. CASE SeeLoop(s) \/ SessionFinishes(s) \/ SeeAbort(s)
  BY <1>1, <1>3 DEF SeeLoop, SessionFinishes, SeeAbort, Leave, Live
<1>4. CASE BeginTurn(s)
  <2>1. \/ history' = history
        \/ history' = Append(history, Message(s, "context", <<>>)) /\ consumer # "a2a" /\ ~LastHasCall
    BY <1>4 DEF BeginTurn, Contexts, WithContext
  <2> QED
    BY <1>4, <2>1 DEF BeginTurn
<1>5. CASE SendMessage(s)
  BY <1>5 DEF SendMessage, Send
<1>6. CASE \/ Prompt(s) \/ LoopAtStart(s) \/ SeePart(s) \/ SeeFinish(s)
           \/ GoOnAfterInvalid(s) \/ SpeaksNext(s) \/ StopAfterStream(s)
           \/ Respond(s) \/ DropResults(s) \/ Abort(s)
  BY <1>6 DEF Prompt, LoopAtStart, SeePart, Part, SeeFinish, Finishes, GoOnAfterInvalid,
     SpeaksNext, StopAfterStream, Streamed, Respond, DropResults, Abort
<1> HIDE DEF clientVars
<1> QED
  BY <1>2, <1>3, <1>4, <1>5, <1>6 DEF Progress

(* The next message of those whose results are awaited has them.           *)
LEMMA AwaitedInMessage ==
  ASSUME TypeInv, NEW w \in Senders, NEW C, Awaited(w, C),
         phase[w] = "queued" \/ run[w] \in {"entering", "routing"}
  PROVE  \/ C \cap dropped # {}
         \/ outbox[w].kind = "responses" /\ C \subseteq Range(outbox[w].parts)
<1>1. phase[w] = "queued" => run[w] = "sending"
  BY DEF TypeInv, TurnInv
<1> QED
  BY <1>1 DEF Awaited

(* Steps that leave the history alone.                                     *)
LEMMA CallsOfSame ==
  ASSUME TypeInv, CallInv, NEW s \in Senders, Progress(s) \/ Prompt(s) \/ Abort(s),
         history' = history
  PROVE  NoContext' /\ FirstAnswers' /\ CallsKept'
<1>1. TypeOK /\ history \in Seq(Entries) /\ Len(history) \in Nat /\ OwnMessages
  <2>1. TypeOK /\ OwnMessages
    BY DEF TypeInv, CallInv
  <2>2. history \in Seq(Entries)
    BY <2>1 DEF TypeOK, ChatTypeOK
  <2>3. Len(history) \in Nat
    BY <2>2
  <2> QED
    BY <2>1, <2>2, <2>3
<1>2. \A m : m \notin Len(history) + 1 .. Len(history')
  BY <1>1
<1>3. dropped \subseteq dropped'
  BY LostStaysLost
<1>4. ASSUME NEW w \in Senders, NEW C, C # {}, 0 \notin C, Awaited(w, C)
      PROVE  Awaited(w, C)'
  <2>1. CASE w = s
    BY <1>4, <2>1, AwaitedKept
  <2>2. CASE w # s
    BY <1>1, <1>2, <1>4, <2>2, AwaitedOfOthers
  <2> QED
    BY <2>1, <2>2
<1>5. history' \in Seq(Entries) /\ Len(history') >= Len(history)
  BY <1>1
<1> HIDE DEF Entries
<1> QED
  BY <1>1, <1>2, <1>3, <1>4, <1>5, CallsGrow DEF CallInv

(* Steps that add one entry, which is no answer.                           *)
LEMMA CallsOfOne ==
  ASSUME TypeInv, CallInv, NEW s \in Senders, Progress(s) \/ Prompt(s) \/ Abort(s),
         NEW e \in Entries, history' = Append(history, e), e.by = s, e.kind # "answer",
         e.kind = "context" => Len(history) \notin WithCalls,
         \A i \in WithCalls : Unanswered(i) /\ history[i].by = s =>
           \/ CallsOf(history[i].parts) \cap dropped # {}
           \/ e.kind = "responses" /\ CallsOf(history[i].parts) \subseteq Range(e.parts)
  PROVE  NoContext' /\ FirstAnswers' /\ CallsKept'
<1> HIDE DEF Entries
<1>1. TypeOK /\ history \in Seq(Entries) /\ OwnMessages
  BY DEF TypeInv, TypeOK, ChatTypeOK, CallInv
<1>2. /\ history' \in Seq(Entries) /\ Len(history) \in Nat
      /\ Len(history') = Len(history) + 1 /\ history'[Len(history) + 1] = e
      /\ \A j \in 1..Len(history) : history'[j] = history[j]
  BY <1>1
<1>3. \A m \in Len(history) + 1 .. Len(history') : m = Len(history) + 1 /\ history'[m] = e
  BY <1>2
<1>4. dropped \subseteq dropped'
  BY LostStaysLost
<1>5. Len(history) + 1 \in Len(history) + 1 .. Len(history')
  BY <1>2
<1>6. ASSUME NEW w \in Senders, NEW C, C # {}, 0 \notin C, Awaited(w, C),
             \A m \in Len(history) + 1 .. Len(history') : history'[m].by # w
      PROVE  Awaited(w, C)'
  <2>1. w # s
    BY <1>2, <1>5, <1>6
  <2> QED
    BY <1>1, <1>6, <2>1, AwaitedOfOthers
<1>7. \A m \in Len(history) + 1 .. Len(history') : m \notin WithCalls'
  BY <1>3 DEF WithCalls, Answers
<1>8. \A i \in WithCalls : Unanswered(i) =>
        \A m \in Len(history) + 1 .. Len(history') : history'[m].by = history[i].by =>
          \/ CallsOf(history[i].parts) \cap dropped' # {}
          \/ history'[m].kind = "responses"
             /\ CallsOf(history[i].parts) \subseteq Range(history'[m].parts)
  BY <1>3, <1>4
<1>9. Len(history') >= Len(history)
  BY <1>2
<1> QED
  BY <1>1, <1>2, <1>3, <1>4, <1>6, <1>7, <1>8, <1>9, CallsGrow DEF CallInv

(* A message is sent at once, a context is added, or the results of        *)
(* cancelled tools.                                                        *)
LEMMA CallsOfMessage ==
  ASSUME TypeInv, CallInv, NEW s \in Senders, SendMessage(s), Free
  PROVE  NoContext' /\ FirstAnswers' /\ CallsKept'
<1>1. /\ outbox[s] \in Entries /\ outbox[s].by = s
      /\ outbox[s].kind \notin {"answer", "context"}
  BY DEF TypeInv, TypeOK, ChatTypeOK, CallInv, OwnMessages
<1>2. history' = Append(history, outbox[s]) /\ run[s] = "routing"
  BY DEF SendMessage, Send
<1>3. \A i \in WithCalls : Unanswered(i) /\ history[i].by = s =>
        \/ CallsOf(history[i].parts) \cap dropped # {}
        \/ outbox[s].kind = "responses"
           /\ CallsOf(history[i].parts) \subseteq Range(outbox[s].parts)
  BY <1>2, AwaitedInMessage DEF CallInv, CallsKept
<1>4. Progress(s)
  BY DEF Progress
<1> HIDE DEF Entries
<1> QED
  BY <1>1, <1>2, <1>3, <1>4, CallsOfOne

LEMMA CallsOfContext ==
  ASSUME TypeInv, CallInv, NEW s \in Senders, Progress(s) \/ Prompt(s) \/ Abort(s),
         run[s] = "entering", consumer # "a2a", ~LastHasCall,
         history' = Append(history, Message(s, "context", <<>>))
  PROVE  NoContext' /\ FirstAnswers' /\ CallsKept'
<1> DEFINE e == Message(s, "context", <<>>)
<1>1. history \in Seq(Entries) /\ Len(history) \in Nat
  BY DEF TypeInv, TypeOK, ChatTypeOK
<1>2. e \in Entries /\ e.by = s /\ e.kind = "context"
  BY MessageType, EmptyParts DEF Kinds, Message
<1>3. Len(history) \notin WithCalls
  BY <1>1 DEF LastHasCall, Last, WithCalls, Answers
<1>4. \A i \in DOMAIN history : history[i].by = Main
  BY DEF CallInv, MainAlone
<1>5. \A i \in WithCalls : ~Unanswered(i)
  <2> SUFFICES ASSUME NEW i \in WithCalls PROVE ~Unanswered(i)
    OBVIOUS
  <2>1. i \in 1..Len(history) /\ i # Len(history)
    BY <1>1, <1>3 DEF WithCalls, Answers
  <2>2. i + 1 \in i + 1 .. Len(history) /\ i + 1 \in DOMAIN history /\ i \in DOMAIN history
    BY <1>1, <2>1
  <2> QED
    BY <1>4, <2>2 DEF Unanswered
<1>6. history' = Append(history, e)
  OBVIOUS
<1> HIDE DEF e, Entries
<1> QED
  BY <1>2, <1>3, <1>5, <1>6, CallsOfOne

LEMMA CallsOfCancelled ==
  ASSUME TypeInv, CallInv, NEW s \in Senders, RecordCancelled(s)
  PROVE  NoContext' /\ FirstAnswers' /\ CallsKept'
<1>1. TypeOK /\ ChatTypeOK /\ TurnInv
  BY DEF TypeInv, TypeOK
<1>2. Responses(s) \in Entries /\ Range(SetToSeq(asked[s])) = asked[s]
  BY <1>1, ResponsesType
<1>3. /\ Responses(s).by = s /\ Responses(s).kind = "responses"
      /\ Responses(s).parts = SetToSeq(asked[s])
  BY DEF Responses, Message
<1>4. run[s] = "tools" /\ phase[s] = "idle" /\ history' = Append(history, Responses(s))
  BY <1>1 DEF RecordCancelled, TurnInv
<1>5. \A C : Awaited(s, C) => C \cap dropped # {} \/ C \subseteq asked[s]
  BY <1>4 DEF Awaited
<1>6. \A i \in WithCalls : Unanswered(i) /\ history[i].by = s =>
        \/ CallsOf(history[i].parts) \cap dropped # {}
        \/ CallsOf(history[i].parts) \subseteq Range(Responses(s).parts)
  BY <1>2, <1>3, <1>5 DEF CallInv, CallsKept
<1>7. Progress(s)
  BY DEF Progress
<1> HIDE DEF Entries
<1> QED
  BY <1>2, <1>3, <1>4, <1>6, <1>7, CallsOfOne

(* The stream of s ends: its answer, if any, is followed by the messages   *)
(* of those who waited.                                                    *)
LEMMA CallsOfEnd ==
  ASSUME TypeInv, CallInv, NEW s \in Senders, Progress(s) \/ Prompt(s) \/ Abort(s),
         Live(s), NEW how \in Results, NEW answer \in Seq(Entries), End(s, how, answer),
         \/ answer = <<>>
         \/ /\ answer = <<Answer(s)>> /\ how = "done"
            /\ UNCHANGED <<outbox, clientVars>>
  PROVE  NoContext' /\ FirstAnswers' /\ CallsKept'
<1>1. TypeOK /\ ChatTypeOK /\ TurnInv /\ OwnMessages
  BY DEF TypeInv, TypeOK, CallInv
<1>2. history \in Seq(Entries) /\ Len(history) \in Nat
  BY <1>1 DEF ChatTypeOK
<1>3. PICK next \in Seq(Senders) : EndsWith(s, how, answer, next)
  BY <1>1, EndIs
<1> DEFINE n == Len(history) + Len(answer)
<1>4. /\ n \in Nat /\ n >= Len(history) /\ Len(next) \in Nat /\ DOMAIN next = 1..Len(next)
      /\ Len(answer) \in Nat
  BY <1>2
<1>5. n = Len(history) + Len(answer)
  OBVIOUS
<1>6. /\ history' \in Seq(Entries) /\ Len(history') = n + Len(next)
      /\ \A j \in 1..Len(history) : history'[j] = history[j]
      /\ \A j \in 1..Len(answer) : history'[Len(history) + j] = answer[j]
      /\ \A i \in 1..Len(next) : history'[n + i] = outbox[next[i]]
      /\ \A i \in 1..Len(next) : next[i] \in Freed(s, how)
  BY <1>3, <1>4 DEF EndsWith, Range
<1> HIDE DEF n, Entries
<1>7. phase[s] # "queued" /\ run[s] = "sending" /\ dropped \subseteq dropped'
  BY <1>1, LostStaysLost DEF Live, TurnInv
<1>8. ASSUME NEW m \in Len(history) + 1 .. Len(history'), m > n
      PROVE  \E w \in Senders \ {s} : phase[w] = "queued" /\ history'[m] = outbox[w]
  <2> DEFINE i == m - n
  <2>1. i \in 1..Len(next) /\ m = n + i
    BY <1>2, <1>4, <1>6, <1>8
  <2> HIDE DEF i
  <2>2. history'[m] = outbox[next[i]] /\ next[i] \in Senders /\ behind[next[i]] = s
    BY <1>6, <2>1 DEF Freed
  <2>3. phase[next[i]] = "queued"
    BY <1>1, <2>2, ChatAssumption DEF TurnInv
  <2> QED
    BY <1>7, <2>2, <2>3
<1>9. ASSUME NEW m \in Len(history) + 1 .. Len(history'), m <= n
      PROVE  /\ answer = <<Answer(s)>> /\ m = Len(history) + 1 /\ m = n
             /\ history'[m] = Answer(s)
  <2>1. Len(answer) > 0
    BY <1>2, <1>4, <1>5, <1>9
  <2>2. answer = <<Answer(s)>>
    BY <2>1
  <2>3. Len(answer) = 1 /\ answer[1] = Answer(s)
    BY <2>2
  <2>4. history'[Len(history) + 1] = Answer(s)
    BY <1>6, <2>3
  <2> QED
    BY <1>2, <1>5, <1>9, <2>2, <2>3, <2>4
<1>10. \A m \in Len(history) + 1 .. Len(history') : m <= n \/ m > n
  BY <1>2, <1>4
<1>11. \A m \in Len(history) + 1 .. Len(history') : history'[m].kind # "context"
  BY <1>1, <1>8, <1>9, <1>10 DEF OwnMessages, Answer
<1>12. ASSUME NEW m \in Len(history) + 1 .. Len(history'), m \in WithCalls'
       PROVE  /\ m = Len(history) + 1
              /\ \A k \in m + 1 .. Len(history') : history'[k].by # history'[m].by
              /\ Awaited(history[m].by, CallsOf(history[m].parts))'
  <2>1. history'[m].kind = "answer"
    BY <1>12 DEF WithCalls, Answers
  <2>2. m <= n
    BY <1>1, <1>8, <1>10, <2>1 DEF OwnMessages
  <2>3. /\ answer = <<Answer(s)>> /\ m = Len(history) + 1 /\ m = n
        /\ history'[m] = Answer(s)
    BY <1>9, <2>2
  <2>4. history'[m].by = s /\ history'[m].parts = got[s]
    BY <2>3 DEF Answer
  <2>5. ASSUME NEW k \in m + 1 .. Len(history')
        PROVE  history'[k].by # s
    <3>1. k \in Len(history) + 1 .. Len(history') /\ k > n
      BY <1>2, <1>4, <2>3
    <3> QED
      BY <1>1, <1>8, <3>1 DEF OwnMessages
  <2>6. how = "done" /\ UNCHANGED <<outbox, clientVars>>
    BY <2>3
  <2>7. phase'[s] = "idle" /\ result'[s] = "done"
    <3>1. phase' = [w \in Senders |-> IF w = s THEN "idle"
                      ELSE IF w \in Freed(s, how) THEN "connecting" ELSE phase[w]]
      BY <1>1, EndShape
    <3>2. result' = [result EXCEPT ![s] = how]
      BY DEF End
    <3> QED
      BY <1>1, <2>6, <3>1, <3>2 DEF ChatTypeOK
  <2>8. \/ CallsOf(got[s]) \cap dropped' # {}
        \/ CallsOf(got[s]) \subseteq pending'[s] /\ CallsOf(got[s]) \subseteq asked'[s]
    BY <2>6 DEF CallInv, Collected, clientVars
  <2>9. ASSUME NEW w, NEW C, w = s, C = CallsOf(got[s])
        PROVE  Awaited(w, C)'
    BY <1>7, <2>6, <2>7, <2>8, <2>9 DEF Awaited
  <2>10. CallsOf(history'[m].parts) = CallsOf(got[s])
    BY <2>4
  <2>11. Awaited(history[m].by, CallsOf(history[m].parts))'
    <3> PICK w, C : w = history'[m].by /\ C = CallsOf(history'[m].parts)
      OBVIOUS
    <3>1. Awaited(w, C)'
      BY <2>4, <2>9, <2>10
    <3> QED
      BY <3>1 DEF Awaited, CallsOf
  <2> QED
    BY <2>3, <2>4, <2>5, <2>11
<1>13. ASSUME NEW i \in WithCalls, Unanswered(i),
              NEW m \in Len(history) + 1 .. Len(history'), history'[m].by = history[i].by
       PROVE  \/ CallsOf(history[i].parts) \cap dropped' # {}
              \/ history'[m].kind = "responses"
                 /\ CallsOf(history[i].parts) \subseteq Range(history'[m].parts)
  <2>1. Awaited(history[i].by, CallsOf(history[i].parts))
    BY <1>13 DEF CallInv, CallsKept
  <2>2. CASE m <= n
    <3>1. history[i].by = s
      BY <1>9, <1>13, <2>2 DEF Answer
    <3> QED
      BY <1>7, <2>1, <3>1, NotWhileLive
  <2>3. CASE m > n
    <3>1. PICK w \in Senders : phase[w] = "queued" /\ history'[m] = outbox[w]
      BY <1>8, <2>3
    <3>2. history[i].by = w
      BY <1>1, <1>13, <3>1 DEF OwnMessages
    <3> QED
      BY <1>7, <2>1, <3>1, <3>2, AwaitedInMessage
  <2> QED
    BY <1>10, <2>2, <2>3
<1>14. ASSUME NEW w \in Senders, NEW C, C # {}, 0 \notin C, Awaited(w, C),
              \A m \in Len(history) + 1 .. Len(history') : history'[m].by # w
       PROVE  Awaited(w, C)'
  <2>1. CASE w = s
    BY <1>7, <1>14, <2>1, NotWhileLive DEF Awaited
  <2>2. CASE w # s
    BY <1>1, <1>14, <2>2, AwaitedOfOthers
  <2> QED
    BY <2>1, <2>2
<1>15. Len(history') >= Len(history)
  BY <1>2, <1>4, <1>6
<1> HIDE DEF clientVars
<1> QED
  BY <1>1, <1>6, <1>7, <1>11, <1>12, <1>13, <1>14, <1>15, CallsGrow DEF CallInv

LEMMA CallsStep ==
  ASSUME TypeInv, CallInv, [Next]_vars
  PROVE  CallInv'
<1>1. CASE UNCHANGED vars
  <2>1. UNCHANGED <<history, outbox, phase, got, result, consumer, run, pending,
                    asked, dropped>>
    BY <1>1 DEF vars
  <2>2. OwnMessages' /\ NothingLeft' /\ MainAlone'
    BY <2>1 DEF CallInv, OwnMessages, NothingLeft, MainAlone
  <2>3. Collected' /\ NoContext' /\ FirstAnswers'
    <3>1. WithCalls' = WithCalls
      BY <2>1 DEF WithCalls, Answers
    <3>2. Collected' /\ NoContext'
      BY <2>1, <3>1 DEF CallInv, Collected, NoContext
    <3>3. FirstAnswers'
      BY <2>1, <3>1 DEF CallInv, FirstAnswers
    <3> QED
      BY <3>2, <3>3
  <2>4. CallsKept'
    <3>1. ASSUME NEW w, NEW C, Awaited(w, C)
          PROVE  Awaited(w, C)'
      BY <2>1, <3>1 DEF Awaited
    <3>2. WithCalls' = WithCalls /\ \A i : Unanswered(i)' <=> Unanswered(i)
      BY <2>1 DEF WithCalls, Answers, Unanswered
    <3> SUFFICES ASSUME NEW i \in WithCalls, Unanswered(i)
                 PROVE  Awaited(history[i].by, CallsOf(history[i].parts))'
      BY <3>2 DEF CallsKept
    <3>3. Awaited(history[i].by, CallsOf(history[i].parts))
      BY DEF CallInv, CallsKept
    <3> QED
      BY <2>1, <3>3 DEF Awaited
  <2> QED
    BY <2>2, <2>3, <2>4 DEF CallInv
<1>2. ASSUME NEW s \in Senders, Progress(s) \/ Prompt(s) \/ Abort(s)
      PROVE  CallInv'
  <2>1. OwnMessages' /\ NothingLeft' /\ Collected' /\ MainAlone'
    BY <1>2, OwnMessagesStep, NothingLeftStep, CollectedStep, MainAloneStep DEF CallInv
  <2>2. CASE Complete(s) /\ UNCHANGED <<outbox, clientVars>>
    <3>1. <<Answer(s)>> \in Seq(Entries) /\ "done" \in Results
      BY AnswerType DEF TypeInv, Results
    <3>2. End(s, "done", <<Answer(s)>>) /\ Live(s)
      BY <2>2 DEF Complete, Live
    <3> HIDE DEF Entries, clientVars
    <3>3. NoContext' /\ FirstAnswers' /\ CallsKept'
      BY <1>2, <2>2, <3>1, <3>2, CallsOfEnd
    <3> QED
      BY <2>1, <3>3 DEF CallInv
  <2>3. CASE Live(s) /\ \E how \in Results : End(s, how, <<>>)
    <3>1. <<>> \in Seq(Entries)
      OBVIOUS
    <3> HIDE DEF Entries, clientVars
    <3>2. NoContext' /\ FirstAnswers' /\ CallsKept'
      BY <1>2, <2>3, <3>1, CallsOfEnd
    <3> QED
      BY <2>1, <3>2 DEF CallInv
  <2>4. CASE \/ history' = history \/ (SendMessage(s) /\ Free) \/ RecordCancelled(s)
             \/ /\ run[s] = "entering" /\ consumer # "a2a" /\ ~LastHasCall
                /\ history' = Append(history, Message(s, "context", <<>>))
    <3>1. NoContext' /\ FirstAnswers' /\ CallsKept'
      BY <1>2, <2>4, CallsOfSame, CallsOfMessage, CallsOfCancelled, CallsOfContext
    <3> QED
      BY <2>1, <3>1 DEF CallInv
  <2> HIDE DEF clientVars
  <2> QED
    BY <1>2, <2>2, <2>3, <2>4, HistoryStep
<1> QED
  BY <1>1, <1>2 DEF Next

(* Tool calls of the model are followed, in what their sender says, by     *)
(* their results, unless the consumer has dropped them, and no context is  *)
(* put in between (processTurn, hasPendingToolCall).                       *)
THEOREM CallsFollowed == Spec => []CallsAreAnswered
<1>1. Init => CallInv
  <2>1. Init => OwnMessages /\ NothingLeft
    BY DEF Init, ChatInit, OwnMessages, Message, NothingLeft
  <2>2. Init => history = <<>> /\ \A s \in Senders : run[s] = "idle" /\ got[s] = <<>>
    BY DEF Init, ChatInit
  <2>3. CallsOf(<<>>) = {}
    BY DEF CallsOf, Range
  <2>4. Init => Collected /\ MainAlone
    BY <2>2, <2>3 DEF Collected, MainAlone
  <2>5. Init => WithCalls = {}
    BY <2>2 DEF WithCalls, Answers
  <2> QED
    BY <2>1, <2>4, <2>5 DEF CallInv, CallsKept, NoContext, FirstAnswers
<1>2. TypeOK /\ TurnInv /\ CallInv /\ [Next]_vars => CallInv'
  BY CallsStep DEF TypeInv
<1>3. TypeOK /\ CallInv => CallsAreAnswered
  BY CallsFollow DEF CallInv
<1> QED
  BY <1>1, <1>2, <1>3, TurnTypes, PTL DEF Spec

=============================================================================
