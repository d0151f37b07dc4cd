-------------------------- MODULE PublisherProofs --------------------------
(***************************************************************************)
(* Proofs about the publisher, for any number of calls, destinations,      *)
(* channels and links: its types, the backpressure flag, and that          *)
(* prepareDestination implements what TargetAssertion promises.            *)
(***************************************************************************)
EXTENDS Publisher, TLAPS

\* A call that has not begun asked for nothing, one that awaits an assertion knows for
\* which, one that awaits answers awaits at least one, one that waits is not at the end.
CallsKnowTheirs ==
  \A c \in Calls :
    /\ call[c].pc = "idle" => call[c].key = NoKey
    /\ call[c].pc = "asserting" => call[c].key \in Keys
    /\ call[c].pc = "requesting" => call[c].left # 0
    /\ call[c].pc \in {"waiting", "resolved"} => call[c].next <= BatchSize

\* The cache holds no promise that was rejected.
NoRejectedPromise == \A k \in Keys : assertionCache[k] # "failed"

PubInv == TypeOK /\ CallsKnowTheirs /\ NoRejectedPromise /\ BackpressureHeld

-----------------------------------------------------------------------------
(* What the helpers make of a call.                                        *)

LEMMA NewCallType == NewCall \in CallStates /\ NewCall.key = NoKey /\ NewCall.pc = "idle"
<1>1. (CHOOSE d \in Destinations : TRUE) \in Destinations
  BY PublisherAssumption
<1> QED
  BY <1>1, PublisherAssumption DEF NewCall, CallStates, Pcs, Kinds

LEMMA EndedType ==
  ASSUME NEW c \in Calls, call[c] \in CallStates, NEW pc \in Pcs
  PROVE  Ended(c, pc) \in CallStates /\ Ended(c, pc).key = call[c].key /\ Ended(c, pc).pc = pc
  BY NewCallType DEF Ended, CallStates, NewCall

LEMMA DispatchedType ==
  ASSUME NEW r \in CallStates
  PROVE  /\ Dispatched(r) \in CallStates /\ Dispatched(r).key = r.key
         /\ Dispatched(r).pc \in {"done", "skipped", "requesting", "running"}
         /\ Dispatched(r).pc = "requesting" => Dispatched(r).left # 0
<1> DEFINE size == IF channelPool = 0 THEN 0 ELSE MaxChannels
<1>1. \/ \E pc \in {"done", "skipped"} : Dispatched(r) = [r EXCEPT !.pc = pc]
      \/ \E n \in Nat \ {0} : Dispatched(r) = [r EXCEPT !.pc = "requesting", !.left = n]
      \/ Dispatched(r) = [r EXCEPT !.pc = "running", !.size = size]
  <2>1. \/ Dispatched(r) = [r EXCEPT !.pc = "done"] \/ Dispatched(r) = [r EXCEPT !.pc = "skipped"]
        \/ Dispatched(r) = [r EXCEPT !.pc = "requesting", !.left = 1]
        \/ Dispatched(r) = [r EXCEPT !.pc = "requesting", !.left = BatchSize]
        \/ Dispatched(r) = [r EXCEPT !.pc = "running", !.size = size]
    BY Zenon DEF Dispatched
  <2>2. 1 \in Nat \ {0} /\ BatchSize \in Nat \ {0}
    BY PublisherAssumption
  <2> QED  BY <2>1, <2>2, Zenon
<1>2. CASE \E pc \in {"done", "skipped"} : Dispatched(r) = [r EXCEPT !.pc = pc]
  <2>1. PICK pc \in {"done", "skipped"} : Dispatched(r) = [r EXCEPT !.pc = pc]
    BY <1>2
  <2> QED  BY <2>1 DEF CallStates, Pcs
<1>3. CASE \E n \in Nat \ {0} : Dispatched(r) = [r EXCEPT !.pc = "requesting", !.left = n]
  <2>1. PICK n \in Nat \ {0} : Dispatched(r) = [r EXCEPT !.pc = "requesting", !.left = n]
    BY <1>3
  <2> QED  BY <2>1 DEF CallStates, Pcs
<1>4. CASE Dispatched(r) = [r EXCEPT !.pc = "running", !.size = size]
  <2>1. size \in {0, MaxChannels}
    OBVIOUS
  <2> HIDE DEF size
  <2>2. [r EXCEPT !.pc = "running", !.size = size].pc = "running"
    BY DEF CallStates
  <2> QED  BY <1>4, <2>1, <2>2 DEF CallStates, Pcs
<1> QED  BY <1>1, <1>2, <1>3, <1>4

LEMMA AdvancedType ==
  ASSUME TypeOK, NEW c \in Calls, call[c].next <= BatchSize, NEW written \in BOOLEAN
  PROVE  \E r \in CallStates :
           r.pc = "running" /\ r.key = call[c].key /\ Advanced(c, written) = [call EXCEPT ![c] = r]
<1> DEFINE r == [call[c] EXCEPT !.pc = "running", !.next = @ + 1, !.tried = 0, !.races = {},
                                !.touched = FALSE, !.lost = @ \/ ~written]
<1>1. call[c] \in CallStates
  BY DEF TypeOK
<1>2. call[c].next + 1 \in 1 .. BatchSize + 1 /\ (call[c].lost \/ ~written) \in BOOLEAN
  BY <1>1, PublisherAssumption DEF CallStates
<1>3. r \in CallStates /\ r.pc = "running" /\ r.key = call[c].key
  <2>1. \A n \in 1 .. BatchSize + 1, l \in BOOLEAN, q \in CallStates :
          [q EXCEPT !.pc = "running", !.next = n, !.tried = 0, !.races = {},
                    !.touched = FALSE, !.lost = l] \in CallStates
    <3> TAKE n \in 1 .. BatchSize + 1, l \in BOOLEAN, q \in CallStates
    <3>1. 0 \in 0 .. MaxChannels
      BY PublisherAssumption
    <3>2. [q EXCEPT !.pc = "running"] \in CallStates
      BY DEF CallStates, Pcs
    <3>3. \A p \in CallStates : [p EXCEPT !.next = n, !.tried = 0] \in CallStates
      BY <3>1 DEF CallStates
    <3>4. \A p \in CallStates : [p EXCEPT !.races = {}, !.touched = FALSE, !.lost = l] \in CallStates
      BY DEF CallStates
    <3> QED  BY <3>2, <3>3, <3>4
  <2>2. r = [call[c] EXCEPT !.pc = "running", !.next = call[c].next + 1, !.tried = 0, !.races = {},
                            !.touched = FALSE, !.lost = call[c].lost \/ ~written]
    BY <1>1 DEF CallStates
  <2>3. r \in CallStates
    BY <1>1, <1>2, <2>1, <2>2
  <2> QED  BY <1>1, <2>2, <2>3 DEF CallStates
<1>4. Advanced(c, written) = [call EXCEPT ![c] = r]
  BY DEF Advanced
<1> QED  BY <1>3, <1>4

LEMMA ChannelType == TypeOK => NextChannel \in Channels /\ Rotated \in 0 .. MaxChannels - 1
  BY PublisherAssumption DEF TypeOK, NextChannel, Rotated, Channels, Default

LEMMA BehindType ==
  ASSUME NEW k \in Keys PROVE Behind(k) \in Destinations /\ Target[Behind(k)] \in Targets
<1>1. \E d \in Destinations : CacheKey[d] = k
  BY DEF Keys
<1> QED  BY <1>1 DEF Behind, Targets

-----------------------------------------------------------------------------
(* Steps that leave the assertions to themselves.                          *)

\* A step of call c alone, to a state r that asserts nothing and asked for what c asked.
MovesOn(c, r) ==
  /\ r \in CallStates /\ r.key = call[c].key
  /\ r.pc \notin {"idle", "asserting", "refused"}
  /\ r.pc = "requesting" => r.left # 0
  /\ r.pc \in {"waiting", "resolved"} => r.next <= BatchSize
  /\ call[c].pc \notin {"asserting", "refused"}
  /\ call' = [call EXCEPT ![c] = r]

\* What the assertions see of such a step, and of a step that touches no call.
Unseen ==
  /\ \A c \in Calls :
       /\ call'[c] \in CallStates
       /\ call'[c].key = call[c].key
       /\ call'[c].pc = "asserting" <=> call[c].pc = "asserting"
       /\ call'[c].pc = "refused" <=> call[c].pc = "refused"
       /\ call'[c].pc = "idle" => call[c].pc = "idle"
       /\ call'[c].pc = "requesting" => call'[c].left # 0
       /\ call'[c].pc \in {"waiting", "resolved"} => call'[c].next <= BatchSize
  /\ call' = [c \in Calls |-> call'[c]]

LEMMA MovingOnIsUnseen ==
  ASSUME TypeOK, CallsKnowTheirs, NEW c \in Calls, NEW r, MovesOn(c, r) PROVE Unseen
<1>1. call \in [Calls -> CallStates] /\ call' = [call EXCEPT ![c] = r]
  BY DEF TypeOK, MovesOn
<1>2. call' = [x \in Calls |-> call'[x]]
  BY <1>1
<1>3. ASSUME NEW x \in Calls, x # c PROVE call'[x] = call[x]
  BY <1>1, <1>3
<1>4. call'[c] = r
  BY <1>1
<1>5. ASSUME NEW x \in Calls PROVE call'[x] = IF x = c THEN r ELSE call[x]
  BY <1>3, <1>4
<1>6. \A x \in Calls : call[x] \in CallStates
  BY <1>1
<1> QED  BY <1>2, <1>5, <1>6 DEF Unseen, MovesOn, CallsKnowTheirs

LEMMA SameCallsUnseen == TypeOK /\ CallsKnowTheirs /\ UNCHANGED call => Unseen
  BY DEF TypeOK, CallsKnowTheirs, Unseen

LEMMA UnseenKeeps ==
  ASSUME PubInv, Unseen PROVE CallsKnowTheirs' /\ call' \in [Calls -> CallStates]
  BY DEF PubInv, CallsKnowTheirs, Unseen

-----------------------------------------------------------------------------
(* One lemma per group of actions: the invariant and what the assertions see. *)

Kept == PubInv' /\ [Assertion!Next]_(Assertion!vars)

LEMMA UnseenIsStutter ==
  ASSUME PubInv, Unseen, UNCHANGED assertionCache PROVE UNCHANGED Assertion!vars
  BY DEF Unseen, Assertion!vars

\* A step of the loop of call c, or of a request of it.
LEMMA CallMoves ==
  ASSUME PubInv, NEW c \in Calls,
         \/ RequestAnswered(c) \/ RequestFails(c) \/ Loop(c)
  PROVE  \E r : MovesOn(c, r)
<1> USE DEF PubInv
<1>0. call[c] \in CallStates
  BY DEF TypeOK
<1>1. CASE RequestAnswered(c) \/ RequestFails(c)
  <2>1. CASE call' = [call EXCEPT ![c] = Ended(c, "done")] \/ call' = [call EXCEPT ![c] = Ended(c, "failed")]
    BY <1>0, <1>1, <2>1, EndedType DEF MovesOn, RequestAnswered, RequestFails, Pcs
  <2>2. CASE call[c].left # 1 /\ call' = [call EXCEPT ![c] = [call[c] EXCEPT !.left = @ - 1]]
    <3>1. call[c].pc = "requesting" /\ call[c].left \in Nat /\ call[c].left # 0
      BY <1>0, <1>1 DEF CallsKnowTheirs, CallStates, RequestAnswered, RequestFails
    <3>2. call[c].left - 1 \in Nat \ {0}
      BY <2>2, <3>1
    <3>3. MovesOn(c, [call[c] EXCEPT !.left = @ - 1])
      BY <1>0, <2>2, <3>1, <3>2 DEF MovesOn, CallStates
    <3> QED  BY <3>3
  <2> QED  BY <1>1, <2>1, <2>2 DEF RequestAnswered, RequestFails
<1>2. CASE TryChannel(c)
  <2>0. call[c].pc = "running" /\ call[c].next <= BatchSize
    BY <1>2 DEF TryChannel, InLoop
  <2>1. CASE call' = [call EXCEPT ![c].tried = @ + 1] \/ call' = [call EXCEPT ![c].tried = @ + 1, ![c].touched = TRUE]
    <3>1. call[c].tried + 1 \in 0 .. MaxChannels
      BY <1>0, <1>2, PublisherAssumption DEF TryChannel, MaxTries, CallStates
    <3>2. \/ call' = [call EXCEPT ![c] = [call[c] EXCEPT !.tried = call[c].tried + 1]]
          \/ call' = [call EXCEPT ![c] = [call[c] EXCEPT !.tried = call[c].tried + 1, !.touched = TRUE]]
      BY <1>0, <2>1 DEF TypeOK
    <3>3. /\ [call[c] EXCEPT !.tried = call[c].tried + 1] \in CallStates
          /\ [call[c] EXCEPT !.tried = call[c].tried + 1, !.touched = TRUE] \in CallStates
      BY <1>0, <3>1 DEF CallStates
    <3> QED  BY <1>0, <2>0, <3>2, <3>3 DEF MovesOn, CallStates
  <2>2. CASE call' = Advanced(c, TRUE)
    BY <2>0, <2>2, AdvancedType DEF MovesOn
  <2>3. CASE call' = [call EXCEPT ![c] = Ended(c, "failed")]
    BY <1>0, <2>0, <2>3, EndedType DEF MovesOn, Pcs
  <2> QED  BY <1>2, <2>1, <2>2, <2>3 DEF TryChannel
<1>3. CASE GiveUp(c)
  <2>0. call[c].pc = "running" /\ call[c].next <= BatchSize
    BY <1>3 DEF GiveUp, InLoop
  <2>1. CASE call' = Advanced(c, call[c].touched)
    <3>1. call[c].touched \in BOOLEAN
      BY <1>0 DEF CallStates
    <3>2. PICK r \in CallStates : r.pc = "running" /\ r.key = call[c].key
                                /\ Advanced(c, call[c].touched) = [call EXCEPT ![c] = r]
      BY <2>0, <3>1, AdvancedType
    <3> QED  BY <2>0, <2>1, <3>2 DEF MovesOn
  <2>2. CASE call' = [call EXCEPT ![c].pc = "waiting", ![c].races = Races(c)]
    <3>1. Races(c) \in SUBSET Channels
      BY DEF Races, TypeOK
    <3>2. call' = [call EXCEPT ![c] = [call[c] EXCEPT !.pc = "waiting", !.races = Races(c)]]
      BY <2>2 DEF TypeOK
    <3>3. [call[c] EXCEPT !.pc = "waiting", !.races = Races(c)] \in CallStates
      BY <1>0, <3>1 DEF CallStates, Pcs
    <3> QED  BY <1>0, <2>0, <3>2, <3>3 DEF MovesOn, CallStates
  <2> QED  BY <1>3, <2>1, <2>2 DEF GiveUp
<1>4. CASE Resume(c)
  <2>0. call[c].pc = "resolved" /\ call' = Advanced(c, call[c].touched)
    BY <1>4 DEF Resume
  <2>1. call[c].touched \in BOOLEAN /\ call[c].next <= BatchSize
    BY <1>0, <2>0 DEF CallStates, CallsKnowTheirs
  <2>2. PICK r \in CallStates : r.pc = "running" /\ r.key = call[c].key
                              /\ Advanced(c, call[c].touched) = [call EXCEPT ![c] = r]
    BY <2>1, AdvancedType
  <2> QED  BY <2>0, <2>2 DEF MovesOn
<1>5. CASE FinishBatch(c)
  BY <1>0, <1>5, EndedType DEF FinishBatch, MovesOn, Pcs
<1> QED  BY <1>1, <1>2, <1>3, <1>4, <1>5 DEF Loop

\* The drain of a channel.
LEMMA DrainUnseen ==
  ASSUME PubInv, NEW ch \in Channels, DrainResolves(ch) PROVE Unseen
<1> DEFINE Woken(c) == IF call[c].pc = "waiting" /\ ch \in call[c].races
                       THEN [call[c] EXCEPT !.pc = "resolved", !.races = {}] ELSE call[c]
<1>1. call' = [c \in Calls |-> Woken(c)]
  BY DEF DrainResolves
<1>2. ASSUME NEW c \in Calls
      PROVE  /\ Woken(c) \in CallStates /\ Woken(c).key = call[c].key
             /\ Woken(c) # call[c] => Woken(c).pc = "resolved" /\ call[c].pc = "waiting"
                                      /\ Woken(c).next = call[c].next
  BY DEF PubInv, TypeOK, CallStates, Pcs
<1> HIDE DEF Woken
<1> QED  BY <1>1, <1>2 DEF Unseen, PubInv, CallsKnowTheirs

\* Everything but the calls and the cache.
FieldTypes ==
  /\ rabbitConnected \in BOOLEAN /\ rabbitConnecting \in BOOLEAN
  /\ rawRabbitConnection \in BOOLEAN
  /\ channelPool \in 0 .. MaxLinks /\ nextChannelIndex \in 0 .. MaxChannels - 1
  /\ draining \subseteq Channels /\ backpressureActive \in BOOLEAN
  /\ kafkaConnected \in BOOLEAN /\ kafkaConnecting \in BOOLEAN /\ kafkaAdminConnected \in BOOLEAN
  /\ exists \subseteq Targets /\ partitions \in [Targets -> Nat]
  /\ links \in 0 .. MaxLinks /\ losses \in 0 .. MaxLosses

LEMMA TypesSplit ==
  TypeOK <=> FieldTypes /\ call \in [Calls -> CallStates] /\ assertionCache \in [Keys -> CacheStates]
  BY DEF TypeOK, FieldTypes

LEMMA FieldsKept == PubInv /\ [Next]_vars => FieldTypes'
<1> SUFFICES ASSUME PubInv, [Next]_vars PROVE FieldTypes'
  OBVIOUS
<1>0. FieldTypes
  BY TypesSplit DEF PubInv
<1> USE <1>0 DEF FieldTypes
<1>1. ASSUME NEW c \in Calls, StartCall(c) \/ Admit(c) \/ RequestAnswered(c) \/ RequestFails(c) \/ FinishBatch(c)
      PROVE  FieldTypes'
  BY <1>1 DEF StartCall, Admit, RequestAnswered, RequestFails, FinishBatch, rabbit, kafka, fallback, broker, bounds
<1>2. ASSUME NEW c \in Calls, TryChannel(c) \/ GiveUp(c) \/ Resume(c) PROVE FieldTypes'
  <2>1. nextChannelIndex' \in 0 .. MaxChannels - 1
    BY <1>2, ChannelType DEF TryChannel, GiveUp, Resume, PubInv
  <2>2. draining' \subseteq Channels
    BY <1>2, ChannelType DEF TryChannel, GiveUp, Resume, PubInv
  <2>3. backpressureActive' \in BOOLEAN
    BY <1>2 DEF TryChannel, GiveUp, Resume, BackpressureOver
  <2>4. UNCHANGED <<rabbit, kafka, broker, bounds>>
    BY <1>2 DEF TryChannel, GiveUp, Resume
  <2> QED  BY <2>1, <2>2, <2>3, <2>4 DEF rabbit, kafka, broker, bounds
<1>3. ASSUME NEW k \in Keys, Checked(k) \/ AssertAnswers(k) \/ AdminConnects(k) \/ AssertionFails(k)
      PROVE  FieldTypes'
  BY <1>3, BehindType DEF Checked, AssertAnswers, AdminConnects, AssertionFails, rabbit, kafka, fallback, broker, bounds
<1>4. ASSUME NEW k \in Keys, TopicCreated(k) PROVE FieldTypes'
  <2>1. Partition[Behind(k)] + 1 \in Nat
    BY BehindType, PublisherAssumption
  <2>2. partitions' \in [Targets -> Nat] /\ exists' \subseteq Targets
    BY <1>4, <2>1, BehindType DEF TopicCreated
  <2> QED  BY <1>4, <2>2 DEF TopicCreated, rabbit, kafka, fallback, bounds
<1>5. ASSUME NEW ch \in Channels, DrainResolves(ch) PROVE FieldTypes'
  BY <1>5 DEF DrainResolves, rabbit, kafka, broker, bounds
<1>6. CASE RabbitConnects
  <2>1. links' \in 0 .. MaxLinks /\ channelPool' \in 0 .. MaxLinks /\ nextChannelIndex' \in 0 .. MaxChannels - 1
    BY <1>6, PublisherAssumption DEF RabbitConnects
  <2>2. /\ rabbitConnected' \in BOOLEAN /\ rabbitConnecting' \in BOOLEAN
        /\ rawRabbitConnection' \in BOOLEAN /\ backpressureActive' \in BOOLEAN
    BY <1>6 DEF RabbitConnects
  <2>3. UNCHANGED <<kafka, draining, broker, losses>>
    BY <1>6 DEF RabbitConnects
  <2> QED  BY <2>1, <2>2, <2>3 DEF kafka, broker
<1>7. CASE RabbitDisconnects \/ RabbitRetries
  <2>1. channelPool' \in 0 .. MaxLinks
    BY <1>7, PublisherAssumption DEF RabbitDisconnects, RabbitRetries
  <2>2. rabbitConnected' \in BOOLEAN /\ rabbitConnecting' \in BOOLEAN /\ rawRabbitConnection' \in BOOLEAN
    BY <1>7 DEF RabbitDisconnects, RabbitRetries
  <2>3. UNCHANGED <<kafka, fallback, broker, bounds>>
    BY <1>7 DEF RabbitDisconnects, RabbitRetries
  <2> QED  BY <2>1, <2>2, <2>3 DEF kafka, fallback, broker, bounds
<1>8. CASE KafkaStarts \/ KafkaLinkChanges
  <2>1. losses' \in 0 .. MaxLosses
    BY <1>8, PublisherAssumption DEF KafkaStarts, KafkaLinkChanges, bounds
  <2>2. kafkaConnected' \in BOOLEAN /\ kafkaConnecting' \in BOOLEAN /\ UNCHANGED kafkaAdminConnected
    BY <1>8 DEF KafkaStarts, KafkaLinkChanges
  <2>3. UNCHANGED <<rabbit, fallback, broker, links>>
    BY <1>8 DEF KafkaStarts, KafkaLinkChanges, bounds
  <2> QED  BY <2>1, <2>2, <2>3 DEF rabbit, fallback, broker
<1>9. ASSUME NEW t \in Targets, TargetLost(t) PROVE FieldTypes'
  BY <1>9, PublisherAssumption DEF TargetLost, rabbit, kafka, fallback
<1>10. CASE UNCHANGED vars
  BY <1>10 DEF vars, rabbit, kafka, fallback, broker, bounds
<1> QED
  BY <1>1, <1>2, <1>3, <1>4, <1>5, <1>6, <1>7, <1>8, <1>9, <1>10 DEF Next, Loop

\* Every way the flag goes up leaves a call that waits, every way that call goes on takes
\* the flag down.
LEMMA BackpressureKept == PubInv /\ [Next]_vars => BackpressureHeld'
<1> SUFFICES ASSUME PubInv, [Next]_vars, backpressureActive' 
             PROVE  \E c \in Calls : call'[c].pc \in {"waiting", "resolved"}
  BY DEF BackpressureHeld
<1> DEFINE Waits(c) == call[c].pc \in {"waiting", "resolved"}
<1>0. call \in [Calls -> CallStates] /\ (backpressureActive => \E c \in Calls : Waits(c))
  BY DEF PubInv, TypeOK, BackpressureHeld
<1>1. ASSUME NEW c \in Calls, StartCall(c) \/ Admit(c) \/ RequestAnswered(c) \/ RequestFails(c)
                               \/ TryChannel(c) \/ FinishBatch(c)
      PROVE  \E d \in Calls : call'[d].pc \in {"waiting", "resolved"}
  <2>1. backpressureActive
    BY <1>1 DEF StartCall, Admit, RequestAnswered, RequestFails, TryChannel, FinishBatch, fallback
  <2>2. ~Waits(c)
    BY <1>1 DEF StartCall, Admit, RequestAnswered, RequestFails, TryChannel, InLoop, FinishBatch
  <2>3. \A d \in Calls \ {c} : call'[d] = call[d]
    BY <1>0, <1>1 DEF StartCall, Admit, RequestAnswered, RequestFails, TryChannel, Advanced, FinishBatch
  <2> QED  BY <1>0, <2>1, <2>2, <2>3
<1>2. ASSUME NEW c \in Calls, GiveUp(c) PROVE \E d \in Calls : call'[d].pc \in {"waiting", "resolved"}
  <2>1. call' = [call EXCEPT ![c].pc = "waiting", ![c].races = Races(c)]
    BY <1>2 DEF GiveUp
  <2>2. call'[c].pc = "waiting"
    BY <1>0, <2>1 DEF CallStates
  <2> QED  BY <2>2
<1>3. ASSUME NEW c \in Calls, Resume(c) PROVE FALSE
  BY <1>3 DEF Resume, BackpressureOver
<1>4. ASSUME NEW k \in Keys, AssertionFails(k) PROVE \E d \in Calls : call'[d].pc \in {"waiting", "resolved"}
  BY <1>0, <1>4 DEF AssertionFails, fallback
<1>5. ASSUME NEW ch \in Channels, DrainResolves(ch) PROVE \E d \in Calls : call'[d].pc \in {"waiting", "resolved"}
  <2>1. PICK c \in Calls : Waits(c)
    BY <1>0, <1>5 DEF DrainResolves
  <2>2. call'[c] = call[c] \/ call'[c] = [call[c] EXCEPT !.pc = "resolved", !.races = {}]
    BY <1>5 DEF DrainResolves
  <2>3. call[c] \in CallStates
    BY <1>0
  <2> QED  BY <2>1, <2>2, <2>3 DEF CallStates
<1>6. CASE RabbitConnects
  BY <1>6 DEF RabbitConnects
<1>7. CASE UNCHANGED <<call, backpressureActive>>
  BY <1>0, <1>7
<1>8. ASSUME NEW k \in Keys, Checked(k) \/ AssertAnswers(k) \/ AdminConnects(k) \/ TopicCreated(k)
      PROVE  UNCHANGED <<call, backpressureActive>>
  BY <1>8 DEF Checked, AssertAnswers, AdminConnects, TopicCreated, fallback
<1>9. CASE RabbitDisconnects \/ RabbitRetries \/ KafkaStarts \/ KafkaLinkChanges
  BY <1>7, <1>9 DEF RabbitDisconnects, RabbitRetries, KafkaStarts, KafkaLinkChanges, fallback
<1>10. ASSUME NEW t \in Targets, TargetLost(t) PROVE UNCHANGED <<call, backpressureActive>>
  BY <1>10 DEF TargetLost, fallback
<1>11. CASE UNCHANGED vars
  BY <1>7, <1>11 DEF vars, fallback
<1> QED
  BY <1>1, <1>2, <1>3, <1>4, <1>5, <1>6, <1>7, <1>8, <1>9, <1>10, <1>11 DEF Next, Loop

-----------------------------------------------------------------------------
(* The calls, the cache, and what the assertions see of a step.            *)

AssertionsKept ==
  /\ call' \in [Calls -> CallStates] /\ assertionCache' \in [Keys -> CacheStates]
  /\ CallsKnowTheirs' /\ NoRejectedPromise'
  /\ [Assertion!Next]_(Assertion!vars)

LEMMA UnseenKept ==
  ASSUME PubInv, Unseen, UNCHANGED assertionCache PROVE AssertionsKept
<1>1. assertionCache' \in [Keys -> CacheStates] /\ NoRejectedPromise'
  BY DEF PubInv, TypeOK, NoRejectedPromise
<1> QED
  BY <1>1, UnseenKeeps, UnseenIsStutter DEF AssertionsKept

\* A step of the attempt for key k.
LEMMA AttemptKept ==
  ASSUME PubInv, NEW k \in Keys,
         Checked(k) \/ AssertAnswers(k) \/ AdminConnects(k) \/ TopicCreated(k)
  PROVE  AssertionsKept
<1>1. /\ UNCHANGED call
      /\ assertionCache[k] \in {"checking", "asserting", "connecting", "creating"}
      /\ \E v \in {"done", "asserting", "creating"} : assertionCache' = [assertionCache EXCEPT ![k] = v]
  BY DEF Checked, AssertAnswers, AdminConnects, TopicCreated
<1>2. PICK v \in {"done", "asserting", "creating"} : assertionCache' = [assertionCache EXCEPT ![k] = v]
  BY <1>1
<1>3. assertionCache \in [Keys -> CacheStates] /\ call \in [Calls -> CallStates]
  BY DEF PubInv, TypeOK
<1>4. assertionCache' \in [Keys -> CacheStates] /\ NoRejectedPromise'
  BY <1>2, <1>3 DEF PubInv, NoRejectedPromise, CacheStates
<1>5. CallsKnowTheirs'
  BY <1>1 DEF PubInv, CallsKnowTheirs
<1>6. CASE v = "done"
  <2>1. Assertion!Succeed(k)
    BY <1>1, <1>2, <1>3, <1>6 DEF Assertion!Succeed
  <2> QED  BY <1>1, <1>3, <1>4, <1>5, <2>1 DEF AssertionsKept, Assertion!Next
<1>7. CASE v # "done"
  <2>1. UNCHANGED Assertion!vars
    BY <1>1, <1>2, <1>3, <1>7 DEF Assertion!vars
  <2> QED  BY <1>1, <1>3, <1>4, <1>5, <2>1 DEF AssertionsKept
<1> QED  BY <1>6, <1>7

LEMMA FailureKept ==
  ASSUME PubInv, NEW k \in Keys, AssertionFails(k) PROVE AssertionsKept
<1> DEFINE Refused(c) == IF call[c].pc = "asserting" /\ call[c].key = k THEN Ended(c, "refused") ELSE call[c]
<1>1. /\ call' = [c \in Calls |-> Refused(c)]
      /\ assertionCache' = [assertionCache EXCEPT ![k] = "none"]
      /\ assertionCache[k] \in {"asserting", "connecting", "creating"}
  BY DEF AssertionFails, Forgotten, PubInv, NoRejectedPromise
<1>2. assertionCache \in [Keys -> CacheStates] /\ call \in [Calls -> CallStates]
  BY DEF PubInv, TypeOK
<1>3. ASSUME NEW c \in Calls
      PROVE  /\ Refused(c) \in CallStates /\ Refused(c).key = call[c].key
             /\ Refused(c) # call[c] => /\ call[c].pc = "asserting" /\ call[c].key = k
                                       /\ Refused(c).pc = "refused"
             /\ call[c].pc = "asserting" /\ call[c].key = k => Refused(c).pc = "refused"
  <2>1. /\ Ended(c, "refused") \in CallStates /\ Ended(c, "refused").key = call[c].key
        /\ Ended(c, "refused").pc = "refused"
    BY <1>2, EndedType DEF Pcs
  <2> QED  BY <1>2, <2>1
<1> HIDE DEF Refused
<1>4. call' \in [Calls -> CallStates] /\ \A c \in Calls : call'[c] = Refused(c)
  BY <1>1, <1>3
<1>5. assertionCache' \in [Keys -> CacheStates] /\ NoRejectedPromise'
  BY <1>1, <1>2 DEF PubInv, NoRejectedPromise, CacheStates
<1>6. CallsKnowTheirs'
  BY <1>3, <1>4 DEF PubInv, CallsKnowTheirs
<1>7. k # NoKey
  BY PublisherAssumption
<1>8. Assertion!Fail(k)
  BY <1>1, <1>2, <1>3, <1>4, <1>7 DEF Assertion!Fail
<1> QED  BY <1>4, <1>5, <1>6, <1>8 DEF AssertionsKept, Assertion!Next

LEMMA AdmissionKept ==
  ASSUME PubInv, NEW c \in Calls, Admit(c) PROVE AssertionsKept
<1>1. /\ call[c].pc = "asserting" /\ assertionCache[call[c].key] = "done"
      /\ call' = [call EXCEPT ![c] = Dispatched(call[c])] /\ UNCHANGED assertionCache
  BY DEF Admit, Fulfilled
<1>2. assertionCache \in [Keys -> CacheStates] /\ call \in [Calls -> CallStates]
  BY DEF PubInv, TypeOK
<1> DEFINE r == Dispatched(call[c])
<1>3. /\ r \in CallStates /\ r.key = call[c].key /\ r.pc \in {"done", "skipped", "requesting", "running"}
      /\ r.pc = "requesting" => r.left # 0
  BY <1>2, DispatchedType
<1> HIDE DEF r
<1>4. call' = [call EXCEPT ![c] = r]
  BY <1>1 DEF r
<1>5. call[c].key \in Keys /\ call[c].key # NoKey
  BY <1>1, PublisherAssumption DEF PubInv, CallsKnowTheirs
<1>6. call' \in [Calls -> CallStates] /\ CallsKnowTheirs'
  BY <1>2, <1>3, <1>4 DEF PubInv, CallsKnowTheirs
<1>7. Assertion!Admit(c)
  BY <1>1, <1>2, <1>3, <1>4, <1>5 DEF Assertion!Admit
<1>8. NoRejectedPromise' /\ assertionCache' \in [Keys -> CacheStates]
  BY <1>1, <1>2 DEF PubInv, NoRejectedPromise
<1> QED  BY <1>6, <1>7, <1>8 DEF AssertionsKept, Assertion!Next

\* A call that does not assert asks for nothing; one that does asks for its key.
LEMMA StartKept ==
  ASSUME PubInv, NEW c \in Calls, StartCall(c) PROVE AssertionsKept
<1>1. assertionCache \in [Keys -> CacheStates] /\ call \in [Calls -> CallStates]
  BY DEF PubInv, TypeOK
<1>2. call[c].pc = "idle" /\ call[c].key = NoKey
  BY DEF StartCall, PubInv, CallsKnowTheirs
<1>3. ASSUME NEW r \in CallStates, r.key = NoKey, r.pc \in {"done", "skipped", "failed", "requesting", "running"},
             r.pc = "requesting" => r.left # 0, call' = [call EXCEPT ![c] = r], UNCHANGED assertionCache
      PROVE  AssertionsKept
  <2>1. MovesOn(c, r)
    BY <1>2, <1>3 DEF MovesOn
  <2> QED  BY <1>3, <2>1, MovingOnIsUnseen, UnseenKept DEF PubInv
<1>4. ASSUME NEW pc \in {"skipped", "failed"}, call' = [call EXCEPT ![c] = Ended(c, pc)], UNCHANGED assertionCache
      PROVE  AssertionsKept
  BY <1>1, <1>2, <1>3, <1>4, EndedType DEF Pcs
<1>5. ASSUME NEW d \in Destinations, NEW kind \in Kinds
      PROVE  /\ [NewCall EXCEPT !.kind = kind, !.dest = d] \in CallStates
             /\ [NewCall EXCEPT !.kind = kind, !.dest = d].key = NoKey
             /\ [NewCall EXCEPT !.kind = kind, !.dest = d, !.pc = "asserting", !.key = CacheKey[d]] \in CallStates
  BY NewCallType DEF CallStates, Pcs, Keys
<1>6. ASSUME NEW d \in Destinations, NEW kind \in Kinds, UNCHANGED assertionCache,
             call' = [call EXCEPT ![c] = Dispatched([NewCall EXCEPT !.kind = kind, !.dest = d])]
      PROVE  AssertionsKept
  BY <1>3, <1>5, <1>6, DispatchedType
<1>7. ASSUME NEW d \in Destinations, NEW r \in CallStates, r.pc = "asserting", r.key = CacheKey[d],
             call' = [call EXCEPT ![c] = r], assertionCache' = Begun(CacheKey[d])
      PROVE  AssertionsKept
  <2> DEFINE k == CacheKey[d]
  <2>1. k \in Keys /\ k # NoKey
    BY PublisherAssumption DEF Keys
  <2>2. \/ assertionCache[k] # "none" /\ UNCHANGED assertionCache
        \/ /\ assertionCache[k] = "none"
           /\ \E v \in {"creating", "connecting", "checking", "asserting"} :
                assertionCache' = [assertionCache EXCEPT ![k] = v]
    BY <1>7 DEF Begun
  <2> HIDE DEF k
  <2>3. r.key = k
    BY <1>7 DEF k
  <2>4. call' \in [Calls -> CallStates] /\ CallsKnowTheirs'
    BY <1>1, <1>7, <2>1, <2>3 DEF PubInv, CallsKnowTheirs
  <2>5. assertionCache' \in [Keys -> CacheStates] /\ NoRejectedPromise'
    BY <1>1, <2>1, <2>2 DEF PubInv, NoRejectedPromise, CacheStates
  <2>6. Assertion!Ask(c, k)
    BY <1>1, <1>2, <1>7, <2>1, <2>2, <2>3 DEF Assertion!Ask, PubInv, NoRejectedPromise
  <2> QED  BY <2>1, <2>4, <2>5, <2>6 DEF AssertionsKept, Assertion!Next
<1>8. PICK d \in Destinations, kind \in Kinds :
        LET r == [NewCall EXCEPT !.kind = kind, !.dest = d] IN
        \/ call' = [call EXCEPT ![c] = Ended(c, "skipped")] /\ UNCHANGED assertionCache
        \/ call' = [call EXCEPT ![c] = Ended(c, "failed")] /\ UNCHANGED assertionCache
        \/ call' = [call EXCEPT ![c] = Dispatched(r)] /\ UNCHANGED assertionCache
        \/ /\ call' = [call EXCEPT ![c] = [r EXCEPT !.pc = "asserting", !.key = CacheKey[d]]]
           /\ assertionCache' = Begun(CacheKey[d])
  BY DEF StartCall
<1> DEFINE n == [NewCall EXCEPT !.kind = kind, !.dest = d]
           a == [NewCall EXCEPT !.kind = kind, !.dest = d, !.pc = "asserting", !.key = CacheKey[d]]
<1>9. n \in CallStates /\ a \in CallStates /\ a.pc = "asserting" /\ a.key = CacheKey[d]
      /\ a = [n EXCEPT !.pc = "asserting", !.key = CacheKey[d]]
  BY <1>5, NewCallType DEF CallStates
<1> QED
  BY <1>4, <1>6, <1>7, <1>8, <1>9

LEMMA StepKept == PubInv /\ [Next]_vars => PubInv' /\ [Assertion!Next]_(Assertion!vars)
<1> SUFFICES ASSUME PubInv, [Next]_vars PROVE AssertionsKept
  BY FieldsKept, BackpressureKept, TypesSplit DEF AssertionsKept, PubInv, TypeOK, FieldTypes
<1>1. ASSUME NEW c \in Calls, RequestAnswered(c) \/ RequestFails(c) \/ Loop(c) PROVE AssertionsKept
  <2>1. UNCHANGED assertionCache
    BY <1>1 DEF RequestAnswered, RequestFails, Loop, TryChannel, GiveUp, Resume, FinishBatch
  <2>2. Unseen
    BY <1>1, CallMoves, MovingOnIsUnseen DEF PubInv
  <2> QED  BY <2>1, <2>2, UnseenKept
<1>2. ASSUME NEW ch \in Channels, DrainResolves(ch) PROVE AssertionsKept
  BY <1>2, DrainUnseen, UnseenKept DEF DrainResolves
<1>3. ASSUME UNCHANGED <<call, assertionCache>> PROVE AssertionsKept
  BY <1>3, SameCallsUnseen, UnseenKept DEF PubInv
<1>4. CASE RabbitConnects \/ RabbitDisconnects \/ RabbitRetries \/ KafkaStarts \/ KafkaLinkChanges
  BY <1>3, <1>4 DEF RabbitConnects, RabbitDisconnects, RabbitRetries, KafkaStarts, KafkaLinkChanges
<1>5. ASSUME NEW t \in Targets, TargetLost(t) PROVE AssertionsKept
  BY <1>3, <1>5 DEF TargetLost
<1>6. CASE UNCHANGED vars
  BY <1>3, <1>6 DEF vars
<1> QED
  BY <1>1, <1>2, <1>4, <1>5, <1>6, StartKept, AdmissionKept, AttemptKept, FailureKept DEF Next

-----------------------------------------------------------------------------
(* The theorems.                                                           *)

LEMMA PubInvStarts == Init => PubInv /\ Assertion!Init
<1> SUFFICES ASSUME Init PROVE PubInv /\ Assertion!Init
  OBVIOUS
<1>1. call \in [Calls -> CallStates] /\ \A c \in Calls : call[c] = NewCall
  BY NewCallType DEF Init
<1>2. assertionCache \in [Keys -> CacheStates] /\ \A k \in Keys : assertionCache[k] = "none"
  BY DEF Init, CacheStates
<1>3. FieldTypes
  <2>1. /\ rabbitConnected \in BOOLEAN /\ rabbitConnecting \in BOOLEAN /\ rawRabbitConnection \in BOOLEAN
        /\ backpressureActive \in BOOLEAN /\ kafkaConnected \in BOOLEAN /\ kafkaConnecting \in BOOLEAN
        /\ kafkaAdminConnected \in BOOLEAN
    BY DEF Init
  <2>2. /\ channelPool \in 0 .. MaxLinks /\ nextChannelIndex \in 0 .. MaxChannels - 1
        /\ links \in 0 .. MaxLinks /\ losses \in 0 .. MaxLosses
    BY PublisherAssumption DEF Init
  <2>3. draining \subseteq Channels /\ exists \subseteq Targets /\ partitions \in [Targets -> Nat]
    BY DEF Init
  <2> QED  BY <2>1, <2>2, <2>3 DEF FieldTypes
<1>4. CallsKnowTheirs /\ NoRejectedPromise
  BY <1>1, <1>2, NewCallType DEF CallsKnowTheirs, NoRejectedPromise
<1>5. BackpressureHeld
  BY DEF Init, BackpressureHeld
<1>6. Assertion!Init
  BY <1>1, <1>2, NewCallType DEF Assertion!Init
<1> QED  BY <1>1, <1>2, <1>3, <1>4, <1>5, <1>6, TypesSplit DEF PubInv

\* Every reachable state of the publisher is of its type.
THEOREM PublisherTypes == Spec => []TypeOK
<1>1. PubInv => TypeOK
  BY DEF PubInv
<1> QED  BY <1>1, PubInvStarts, StepKept, PTL DEF Spec

\* isBackpressured pauses the load tests only while some batch waits for a drain, whatever
\* other batches, reconnections and rejected assertions come between.
THEOREM BackpressureIsHeld == Spec => []BackpressureHeld
<1>1. PubInv => BackpressureHeld
  BY DEF PubInv
<1> QED  BY <1>1, PubInvStarts, StepKept, PTL DEF Spec

\* assertionCache with the promises in it implements one shared attempt per target.
THEOREM ImplementsTargetAssertion == Spec => AssertionSpec
<1> QED  BY PubInvStarts, StepKept, PTL DEF Spec, AssertionSpec, Assertion!Spec
=============================================================================
