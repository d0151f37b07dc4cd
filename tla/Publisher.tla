------------------------------ MODULE Publisher ------------------------------
(***************************************************************************)
(* PublisherService and the two publishers it dispatches to                *)
(* (apps/backend/src/core/publishing/publisher.service.ts,                 *)
(* rabbit-publisher.service.ts and kafka-publisher.service.ts): calls of   *)
(* prepareDestination, publish and publishBatch that share the cache of    *)
(* assertions, the broker links that come and go under them, and the       *)
(* fallback loop of handleStandardBatch over the amqp-connection-manager   *)
(* channels.  The path over RabbitConnectionPool is in ConnectionPool.     *)
(*                                                                         *)
(* A continuation of an await that is settled runs before the event loop   *)
(* takes a timer, a reply or a socket event, and a loop without an await   *)
(* runs to its end: EventLoopFree guards every event.                      *)
(*                                                                         *)
(* Abstractions: message contents, options and routing keys; how a client  *)
(* library answers is a choice.                                            *)
(***************************************************************************)
EXTENDS Naturals, FiniteSets

CONSTANTS
  Calls,          \* calls of the publisher
  Destinations,   \* destinations of the messages
  Transport,      \* Transport[d]: "rabbitmq" or "kafka"
  CacheKey,       \* CacheKey[d]: what buildAssertionCacheKey makes of d
  Target,         \* Target[d]: queue, exchange or topic
  Asserted,       \* the destinations with assertTarget
  Rpc,            \* the RabbitMQ destinations with isRpc
  Untyped,        \* the RabbitMQ destinations without a targetType
  Partition,      \* Partition[d]: kafkaPartition
  NoKey,
  MaxChannels,    \* RabbitPublisherService.MAX_CHANNELS
  BatchSize,      \* messages of a publishBatch
  MaxLinks,       \* bound: connections of the RabbitMQ link
  MaxLosses       \* bound: targets the broker drops, Kafka links lost

Keys == {CacheKey[d] : d \in Destinations}
Targets == {Target[d] : d \in Destinations}
Kinds == {"prepare", "publish", "batch"}

ASSUME PublisherAssumption ==
  /\ Destinations # {}
  /\ Asserted \subseteq Destinations /\ Rpc \subseteq Destinations /\ Untyped \subseteq Destinations
  /\ Transport \in [Destinations -> {"rabbitmq", "kafka"}]
  /\ Partition \in [Destinations -> Nat]
  /\ NoKey \notin Keys
  /\ MaxChannels \in Nat \ {0} /\ BatchSize \in Nat \ {0} /\ MaxLinks \in Nat /\ MaxLosses \in Nat
  /\ \A d, e \in Destinations :
       CacheKey[d] = CacheKey[e] => Transport[d] = Transport[e] /\ Target[d] = Target[e] /\ Partition[d] = Partition[e]

VARIABLES
  rabbitConnected, rabbitConnecting,
  rawRabbitConnection,   \* whether the raw connection is known
  channelPool,           \* the link whose channels are in channelPool, 0 when it is empty
  nextChannelIndex,      \* modulo the length of the pool
  draining,              \* the channels with a _drainPromise
  backpressureActive,
  kafkaConnected, kafkaConnecting, kafkaAdminConnected,
  assertionCache,        \* assertionCache[k]: how far the assertion of key k is
  exists,                \* the targets the brokers have
  partitions,            \* partitions[t] of a topic that exists
  call,                  \* call[c]: a call of the publisher
  links, losses          \* how many links and losses there were so far

rabbit == <<rabbitConnected, rabbitConnecting, rawRabbitConnection, channelPool>>
kafka == <<kafkaConnected, kafkaConnecting, kafkaAdminConnected>>
fallback == <<nextChannelIndex, draining, backpressureActive>>
broker == <<exists, partitions>>
bounds == <<links, losses>>
vars == <<rabbit, kafka, fallback, assertionCache, broker, call, bounds>>

Default == <<0, 0>>   \* amqpConnection.channel
Channels == {Default} \cup (1 .. MaxLinks) \X (1 .. MaxChannels)

\* "asserting": at the await of an assertion.  "running": it has the processor.
\* "waiting": races on drains.  "requesting": awaits the answers of the client library.
Pcs == {"idle", "asserting", "running", "waiting", "resolved", "requesting",
        "done", "failed", "refused", "skipped"}
CacheStates == {"none", "checking", "asserting", "connecting", "creating", "done", "failed"}

CallStates == [pc : Pcs, kind : Kinds, dest : Destinations, key : Keys \cup {NoKey},
               next : 1 .. BatchSize + 1, tried : 0 .. MaxChannels, size : {0, MaxChannels},
               races : SUBSET Channels, left : Nat, touched : BOOLEAN, lost : BOOLEAN]

TypeOK ==
  /\ rabbitConnected \in BOOLEAN /\ rabbitConnecting \in BOOLEAN
  /\ rawRabbitConnection \in BOOLEAN
  /\ channelPool \in 0 .. MaxLinks /\ nextChannelIndex \in 0 .. MaxChannels - 1
  /\ draining \subseteq Channels /\ backpressureActive \in BOOLEAN
  /\ kafkaConnected \in BOOLEAN /\ kafkaConnecting \in BOOLEAN /\ kafkaAdminConnected \in BOOLEAN
  /\ assertionCache \in [Keys -> CacheStates]
  /\ exists \subseteq Targets /\ partitions \in [Targets -> Nat]
  /\ call \in [Calls -> CallStates]
  /\ links \in 0 .. MaxLinks /\ losses \in 0 .. MaxLosses

NewCall == [pc |-> "idle", kind |-> "prepare", dest |-> CHOOSE d \in Destinations : TRUE,
            key |-> NoKey, next |-> 1, tried |-> 0, size |-> 0, races |-> {}, left |-> 0,
            touched |-> FALSE, lost |-> FALSE]

\* The link may be up when the service is made: then no "connect" tells it the raw connection.
Init ==
  /\ rabbitConnected \in BOOLEAN /\ rabbitConnecting = ~rabbitConnected
  /\ rawRabbitConnection = FALSE
  /\ channelPool = 0 /\ nextChannelIndex = 0 /\ draining = {} /\ backpressureActive = FALSE
  /\ kafkaConnected = FALSE /\ kafkaConnecting = TRUE /\ kafkaAdminConnected = FALSE
  /\ assertionCache = [k \in Keys |-> "none"]
  /\ exists \in {{}, Targets}
  /\ partitions = [t \in Targets |-> IF t \in exists THEN 1 ELSE 0]
  /\ call = [c \in Calls |-> NewCall]
  /\ links = 0 /\ losses = 0

\* Call c has the processor or will have it before the next event.
GoesOn(c) ==
  \/ call[c].pc \in {"running", "resolved"}
  \/ call[c].pc = "asserting" /\ assertionCache[call[c].key] = "done"

EventLoopFree == \A c \in Calls : ~GoesOn(c)
ProcessorFree == \A c \in Calls : call[c].pc # "running"
-----------------------------------------------------------------------------
(* Assertions.                                                             *)

\* A destination behind key k.
Behind(k) == CHOOSE d \in Destinations : CacheKey[d] = k

\* createAssertionPromise up to its first await.
Begun(k) ==
  IF assertionCache[k] # "none" THEN assertionCache
  ELSE [assertionCache EXCEPT ![k] =
         IF Transport[Behind(k)] = "kafka"
         THEN IF kafkaAdminConnected THEN "creating" ELSE "connecting"
         ELSE IF rawRabbitConnection THEN "checking" ELSE "asserting"]

\* The answer to checkResourceExists: a check that fails for any reason says no.
Checked(k) ==
  /\ EventLoopFree
  /\ assertionCache[k] = "checking"
  /\ \/ /\ Target[Behind(k)] \in exists /\ rabbitConnected
        /\ assertionCache' = [assertionCache EXCEPT ![k] = "done"]
     \/ assertionCache' = [assertionCache EXCEPT ![k] = "asserting"]
  /\ UNCHANGED <<rabbit, kafka, fallback, broker, call, bounds>>

\* assertQueue and assertExchange wait for a channel.
AssertAnswers(k) ==
  /\ EventLoopFree
  /\ assertionCache[k] = "asserting" /\ rabbitConnected
  /\ exists' = exists \cup {Target[Behind(k)]}
  /\ assertionCache' = [assertionCache EXCEPT ![k] = "done"]
  /\ UNCHANGED <<rabbit, kafka, fallback, partitions, call, bounds>>

\* Two assertions that find the admin client unconnected both connect it.
AdminConnects(k) ==
  /\ EventLoopFree
  /\ assertionCache[k] = "connecting"
  /\ kafkaAdminConnected' = TRUE
  /\ assertionCache' = [assertionCache EXCEPT ![k] = "creating"]
  /\ UNCHANGED <<rabbit, kafkaConnected, kafkaConnecting, fallback, broker, call, bounds>>

\* createTopics leaves a topic alone that exists, with however few partitions.
TopicCreated(k) ==
  LET t == Target[Behind(k)] IN
  /\ EventLoopFree
  /\ assertionCache[k] = "creating"
  /\ exists' = exists \cup {t}
  /\ partitions' = [partitions EXCEPT ![t] = IF t \in exists THEN @ ELSE Partition[Behind(k)] + 1]
  /\ assertionCache' = [assertionCache EXCEPT ![k] = "done"]
  /\ UNCHANGED <<rabbit, kafka, fallback, call, bounds>>

Forgotten_Mutant(k) == [assertionCache EXCEPT ![k] = "failed"]   \* the promise stays

\* What the cache is after the assertion of k failed.
Forgotten(k) == [assertionCache EXCEPT ![k] = "none"]

Ended(c, pc) == [NewCall EXCEPT !.pc = pc, !.key = call[c].key, !.lost = call[c].lost]

\* The promise of key k rejects for every call that awaits it.
AssertionFails(k) ==
  /\ EventLoopFree
  /\ assertionCache[k] \in {"asserting", "connecting", "creating", "failed"}
  /\ assertionCache' = Forgotten(k)
  /\ call' = [c \in Calls |-> IF call[c].pc = "asserting" /\ call[c].key = k
                              THEN Ended(c, "refused") ELSE call[c]]
  /\ UNCHANGED <<rabbit, kafka, fallback, broker, bounds>>

-----------------------------------------------------------------------------
(* Calls.                                                                  *)

\* What a call does once its destination is prepared, up to its next await.
Dispatched(r) ==
  IF r.kind = "prepare" THEN [r EXCEPT !.pc = "done"]
  ELSE IF Transport[r.dest] = "kafka" /\ ~kafkaConnected THEN [r EXCEPT !.pc = "skipped"]
  ELSE IF Transport[r.dest] = "kafka" \/ r.kind = "publish"
       THEN [r EXCEPT !.pc = "requesting", !.left = 1]
  ELSE IF r.dest \in Rpc THEN [r EXCEPT !.pc = "requesting", !.left = BatchSize]
  ELSE [r EXCEPT !.pc = "running", !.size = IF channelPool = 0 THEN 0 ELSE MaxChannels]

\* ensureRabbitConnection refuses.
OffRabbit(d) == Transport[d] = "rabbitmq" /\ ~rabbitConnected

StartCall(c) ==
  /\ EventLoopFree
  /\ call[c].pc = "idle"
  /\ \E d \in Destinations, kind \in Kinds :
       LET r == [NewCall EXCEPT !.kind = kind, !.dest = d] IN
          \/ /\ OffRabbit(d)
             /\ call' = [call EXCEPT ![c] = Ended(c, "skipped")]
             /\ UNCHANGED assertionCache
          \/ /\ ~OffRabbit(d) /\ d \in Untyped
             /\ call' = [call EXCEPT ![c] = Ended(c, "failed")]
             /\ UNCHANGED assertionCache
          \/ /\ ~OffRabbit(d) /\ d \notin Untyped \cup Asserted
             /\ call' = [call EXCEPT ![c] = Dispatched(r)]
             /\ UNCHANGED assertionCache
          \/ /\ ~OffRabbit(d) /\ d \in Asserted \ Untyped
             /\ call' = [call EXCEPT ![c] = [r EXCEPT !.pc = "asserting", !.key = CacheKey[d]]]
             /\ assertionCache' = Begun(CacheKey[d])
  /\ UNCHANGED <<rabbit, kafka, fallback, broker, bounds>>

\* Whether the assertion call c awaits is fulfilled.
Fulfilled(c) == assertionCache[call[c].key] = "done"

Admit(c) ==
  /\ ProcessorFree
  /\ call[c].pc = "asserting" /\ Fulfilled(c)
  /\ call' = [call EXCEPT ![c] = Dispatched(call[c])]
  /\ UNCHANGED <<rabbit, kafka, fallback, assertionCache, broker, bounds>>

\* A request, a send or a publish of the client library is answered.  Kafka cannot answer
\* a send to a partition its topic does not have.
RequestAnswered(c) ==
  /\ EventLoopFree
  /\ call[c].pc = "requesting"
  /\ LET d == call[c].dest
     IN Transport[d] = "kafka" /\ Target[d] \in exists => Partition[d] < partitions[Target[d]]
  /\ call' = [call EXCEPT ![c] = IF call[c].left = 1 THEN Ended(c, "done")
                                 ELSE [call[c] EXCEPT !.left = @ - 1]]
  /\ UNCHANGED <<rabbit, kafka, fallback, assertionCache, broker, bounds>>

\* It fails: handleRpcBatch turns the error into a response.
RequestFails(c) ==
  /\ EventLoopFree
  /\ call[c].pc = "requesting"
  /\ call' = [call EXCEPT ![c] =
       IF call[c].kind = "batch" /\ call[c].dest \in Rpc
       THEN IF call[c].left = 1 THEN Ended(c, "done") ELSE [call[c] EXCEPT !.left = @ - 1]
       ELSE Ended(c, "failed")]
  /\ UNCHANGED <<rabbit, kafka, fallback, assertionCache, broker, bounds>>

-----------------------------------------------------------------------------
(* handleStandardBatch over the fallback channels.                         *)

\* getChannel: the next channel of the pool, or the default channel.
NextChannel == IF channelPool = 0 THEN Default ELSE <<channelPool, nextChannelIndex + 1>>

Rotated == IF channelPool = 0 THEN nextChannelIndex ELSE (nextChannelIndex + 1) % MaxChannels

MaxTries(c) == IF call[c].size = 0 THEN 1 ELSE call[c].size

Advanced(c, written) ==
  [call EXCEPT ![c] = [call[c] EXCEPT !.pc = "running", !.next = @ + 1, !.tried = 0, !.races = {},
                                      !.touched = FALSE, !.lost = @ \/ ~written]]

InLoop(c) == call[c].pc = "running" /\ call[c].next <= BatchSize

\* One round of the inner loop.  A write that returns false was taken all the same; one to
\* a closed channel throws.
TryChannel(c) ==
  /\ InLoop(c) /\ call[c].tried < MaxTries(c)
  /\ nextChannelIndex' = Rotated
  /\ \/ /\ NextChannel \in draining
        /\ call' = [call EXCEPT ![c].tried = @ + 1]
        /\ UNCHANGED draining
     \/ /\ NextChannel \notin draining
        /\ call' = Advanced(c, TRUE)
        /\ UNCHANGED draining
     \/ /\ NextChannel \notin draining
        /\ call' = [call EXCEPT ![c].tried = @ + 1, ![c].touched = TRUE]
        /\ draining' = draining \cup {NextChannel}
     \/ /\ NextChannel \notin draining
        /\ call' = [call EXCEPT ![c] = Ended(c, "failed")]
        /\ UNCHANGED draining
  /\ UNCHANGED <<rabbit, kafka, backpressureActive, assertionCache, broker, bounds>>

\* drainRaces: without a pool at the start of the batch it is the next channel's promise.
Races(c) ==
  draining \cap (IF call[c].size = 0 THEN {NextChannel} ELSE {ch \in Channels : ch[1] = channelPool /\ ch # Default})

\* Every try failed: it waits if there is something to wait for, and goes on.
GiveUp(c) ==
  /\ InLoop(c) /\ call[c].tried >= MaxTries(c)
  /\ nextChannelIndex' = IF call[c].size = 0 THEN Rotated ELSE nextChannelIndex
  /\ IF Races(c) = {}
     THEN call' = Advanced(c, call[c].touched) /\ backpressureActive' = FALSE
     ELSE /\ call' = [call EXCEPT ![c].pc = "waiting", ![c].races = Races(c)]
          /\ backpressureActive' = TRUE
  /\ UNCHANGED <<rabbit, kafka, draining, assertionCache, broker, bounds>>

DrainResolves_Mutant(ch) ==   \* the timer forgets to resolve
  /\ EventLoopFree
  /\ ch \in draining
  /\ draining' = draining \ {ch}
  /\ UNCHANGED <<rabbit, kafka, nextChannelIndex, backpressureActive, assertionCache, broker, call, bounds>>

\* "drain" of the channel, or the 2000 ms without it.
DrainResolves(ch) ==
  /\ EventLoopFree
  /\ ch \in draining
  /\ draining' = draining \ {ch}
  /\ call' = [c \in Calls |-> IF call[c].pc = "waiting" /\ ch \in call[c].races
                              THEN [call[c] EXCEPT !.pc = "resolved", !.races = {}] ELSE call[c]]
  /\ UNCHANGED <<rabbit, kafka, nextChannelIndex, backpressureActive, assertionCache, broker, bounds>>

BackpressureOver_Mutant(c) == backpressureActive   \* the flag is left up

\* backpressureActive after the await of call c, though another call may still wait.
BackpressureOver(c) == FALSE

Resume(c) ==
  /\ ProcessorFree
  /\ call[c].pc = "resolved"
  /\ backpressureActive' = BackpressureOver(c)
  /\ call' = Advanced(c, call[c].touched)
  /\ UNCHANGED <<rabbit, kafka, nextChannelIndex, draining, assertionCache, broker, bounds>>

FinishBatch(c) ==
  /\ call[c].pc = "running" /\ call[c].next > BatchSize
  /\ call' = [call EXCEPT ![c] = Ended(c, "done")]
  /\ UNCHANGED <<rabbit, kafka, fallback, assertionCache, broker, bounds>>

-----------------------------------------------------------------------------
(* The links.                                                              *)

\* "connect": new channels take the place of the old ones, drain promises and all.
RabbitConnects ==
  /\ EventLoopFree
  /\ ~rabbitConnected /\ links < MaxLinks
  /\ links' = links + 1
  /\ rabbitConnected' = TRUE /\ rabbitConnecting' = FALSE /\ rawRabbitConnection' = TRUE
  /\ channelPool' = links + 1 /\ nextChannelIndex' = 0 /\ backpressureActive' = FALSE
  /\ UNCHANGED <<kafka, draining, assertionCache, broker, call, losses>>

\* "disconnect": the assertions stay in the cache.
RabbitDisconnects ==
  /\ EventLoopFree
  /\ rabbitConnected
  /\ rabbitConnected' = FALSE /\ rabbitConnecting' = FALSE /\ rawRabbitConnection' = FALSE
  /\ channelPool' = 0
  /\ UNCHANGED <<kafka, fallback, assertionCache, broker, call, bounds>>

RabbitRetries ==   \* "connecting"
  /\ EventLoopFree
  /\ ~rabbitConnected /\ ~rabbitConnecting
  /\ rabbitConnecting' = TRUE
  /\ UNCHANGED <<rabbitConnected, rawRabbitConnection, channelPool, kafka, fallback, assertionCache,
                 broker, call, bounds>>

\* The end of onModuleInit's connect.
KafkaStarts ==
  /\ EventLoopFree
  /\ kafkaConnecting
  /\ kafkaConnecting' = FALSE
  /\ kafkaConnected' \in BOOLEAN
  /\ UNCHANGED <<rabbit, kafkaAdminConnected, fallback, assertionCache, broker, call, bounds>>

\* "producer.disconnect" and "producer.connect".
KafkaLinkChanges ==
  /\ EventLoopFree
  /\ ~kafkaConnecting
  /\ kafkaConnected' = ~kafkaConnected
  /\ IF kafkaConnected THEN losses < MaxLosses /\ losses' = losses + 1 ELSE UNCHANGED losses
  /\ UNCHANGED <<rabbit, kafkaConnecting, kafkaAdminConnected, fallback, assertionCache, broker, call, links>>

\* An auto-deleted, expired or non-durable target goes.
TargetLost(t) ==
  /\ EventLoopFree
  /\ t \in exists /\ losses < MaxLosses
  /\ losses' = losses + 1
  /\ exists' = exists \ {t} /\ partitions' = [partitions EXCEPT ![t] = 0]
  /\ UNCHANGED <<rabbit, kafka, fallback, assertionCache, call, links>>

-----------------------------------------------------------------------------
Loop(c) == TryChannel(c) \/ GiveUp(c) \/ Resume(c) \/ FinishBatch(c)

Next ==
  \/ \E c \in Calls : StartCall(c) \/ Admit(c) \/ RequestAnswered(c) \/ RequestFails(c) \/ Loop(c)
  \/ \E k \in Keys : Checked(k) \/ AssertAnswers(k) \/ AdminConnects(k) \/ TopicCreated(k) \/ AssertionFails(k)
  \/ \E ch \in Channels : DrainResolves(ch)
  \/ RabbitConnects \/ RabbitDisconnects \/ RabbitRetries \/ KafkaStarts \/ KafkaLinkChanges
  \/ \E t \in Targets : TargetLost(t)

Spec == Init /\ [][Next]_vars

\* Loops run on and timers fire.
FairSpec ==
  /\ Spec
  /\ \A c \in Calls : WF_vars(Admit(c)) /\ WF_vars(Loop(c))
  /\ \A ch \in Channels : WF_vars(DrainResolves(ch))

-----------------------------------------------------------------------------
(* Properties.                                                             *)

\* assertRabbitDestination and prepareDestination share one attempt among the calls that
\* ask while it runs, let a call through only to a target that was found or made, and
\* forget an attempt that failed, whatever the links do meanwhile.
Assertion ==
  INSTANCE TargetAssertion WITH
    Targets <- Keys, Callers <- Calls, NoTarget <- NoKey,
    target <- [k \in Keys |-> IF assertionCache[k] \in {"none", "failed"} THEN "unknown"
                              ELSE IF assertionCache[k] = "done" THEN "ready" ELSE "pending"],
    caller <- [c \in Calls |-> [asked |-> call[c].key,
                 state |-> IF call[c].key = NoKey THEN "idle"
                           ELSE IF call[c].pc = "asserting" THEN "waiting"
                           ELSE IF call[c].pc = "refused" THEN "refused" ELSE "admitted"]]

AssertionSpec == Assertion!Spec

\* isBackpressured pauses every load test: the flag is up only while a batch waits for a
\* drain, also when the link is lost, comes back or another batch goes on.
BackpressureHeld == backpressureActive => \E c \in Calls : call[c].pc \in {"waiting", "resolved"}

\* A batch ends although the channels it waits for are full, replaced or dead.
BatchesEnd == \A c \in Calls : call[c].pc \in {"running", "waiting"} ~> call[c].pc \in {"done", "failed"}

\* handleStandardBatch says of every message of a batch that it was sent ("status: 'sent'",
\* rabbit-publisher.service.ts:552): some channel took it.
SentWasWritten == \A c \in Calls : ~call[c].lost
=============================================================================
