---------------------------- MODULE TestConsumer ----------------------------
(***************************************************************************)
(* The test consumer (apps/test-consumer/src): RabbitConsumersService,     *)
(* which registers a handler for every scenario as soon as the exchange or *)
(* queue it reads from exists, KafkaConsumersService, the registry both    *)
(* record receipts in, and the endpoints of the controller.                *)
(*                                                                         *)
(* One loop registers handlers at a time: whoever asks for a refresh while *)
(* it runs waits for it.  Code between two awaits is one step.             *)
(*                                                                         *)
(* Abstractions: a receipt is its scenario; the loop takes handlers in any *)
(* order; @golevelup/nestjs-rabbitmq keeps a consumer over reconnections.  *)
(***************************************************************************)
EXTENDS Naturals, Sequences, FiniteSets

CONSTANTS
  Handlers,     \* getHandlerRegistrations
  Topics,       \* getTopics, each with its scenario
  Counters,     \* keys of schemaCounts, exchangeCounts, queueCounts and topicCounts
  CountersOf,   \* CountersOf[s]: the counters a receipt of scenario s is counted in
  Requests,     \* requests of GET /health
  NoHandler,
  MaxReceipts,  \* receipts kept
  MaxReceived,  \* bound: messages
  MaxFaults     \* bound: links and targets lost, registrations and Kafka calls that throw

Scenarios == Handlers \cup Topics

ASSUME TestConsumerAssumption ==
  /\ NoHandler \notin Handlers
  /\ CountersOf \in [Scenarios -> SUBSET Counters]
  /\ MaxReceipts \in Nat \ {0} /\ MaxReceived \in Nat /\ MaxFaults \in Nat

VARIABLES
  amqpUp,              \* amqpConnection.connection
  targets,             \* handlers whose exchange or queue exists
  registeredHandlers, pendingHandlers, missingTargets,
  loop,                \* registerRabbitHandlers: handlers it has to look at, the one it is at, and where
  refreshing,          \* refreshPromise
  init,                \* onModuleInit of RabbitConsumersService: "new", "refreshing", then "listening"
  health,              \* health[r]: "new", "waiting" or "answered"
  consumers,           \* consumers[h]: how often the broker was asked to consume for h
  kafka,               \* onModuleInit of KafkaConsumersService: "new", "subscribing", "running" or "failed"
  subscribed,          \* topics
  receipts, totalCount, counts,
  received,            \* the messages since the last DELETE of the receipts, oldest first
  faults

registryVars == <<receipts, totalCount, counts, received>>
kafkaVars == <<kafka, subscribed>>
handlerVars == <<registeredHandlers, pendingHandlers, missingTargets, consumers>>
waiting == <<init, health>>
vars == <<amqpUp, targets, handlerVars, loop, refreshing, waiting, kafkaVars, registryVars, faults>>

AtRest == [left |-> {}, at |-> NoHandler, step |-> "rest"]

Init ==
  /\ amqpUp \in BOOLEAN /\ targets = {}
  /\ registeredHandlers = {} /\ pendingHandlers = {} /\ missingTargets = {}
  /\ loop = AtRest /\ refreshing = FALSE
  /\ init = "new" /\ health = [r \in Requests |-> "new"]
  /\ consumers = [h \in Handlers |-> 0]
  /\ kafka = "new" /\ subscribed = {}
  /\ receipts = <<>> /\ totalCount = 0 /\ counts = [k \in Counters |-> 0] /\ received = <<>>
  /\ faults = 0

Fault == faults < MaxFaults /\ faults' = faults + 1

-----------------------------------------------------------------------------
(* refreshStatus and its callers. *)

\* A loop is started unless one runs: the caller shares its promise.
RefreshStatus ==
  /\ refreshing' = TRUE
  /\ loop' = IF refreshing THEN loop ELSE [AtRest EXCEPT !.left = Handlers, !.step = "next"]

\* The listener of 'connect' and the retry timer come after the first refresh.
OnModuleInit ==
  /\ init = "new"
  /\ IF amqpUp THEN RefreshStatus /\ init' = "refreshing"
               ELSE UNCHANGED <<refreshing, loop>> /\ init' = "listening"
  /\ UNCHANGED <<amqpUp, targets, handlerVars, health, kafkaVars, registryVars, faults>>

\* The link is back.
Connected ==
  /\ ~amqpUp /\ amqpUp' = TRUE
  /\ IF init = "listening" THEN RefreshStatus ELSE UNCHANGED <<refreshing, loop>>
  /\ UNCHANGED <<targets, handlerVars, waiting, kafkaVars, registryVars, faults>>

RetryTimerFires ==
  /\ init = "listening" /\ pendingHandlers \cup missingTargets # {}
  /\ ~refreshing /\ RefreshStatus
  /\ UNCHANGED <<amqpUp, targets, handlerVars, waiting, kafkaVars, registryVars, faults>>

GetHealth(r) ==
  /\ health[r] = "new" /\ health' = [health EXCEPT ![r] = "waiting"]
  /\ RefreshStatus
  /\ UNCHANGED <<amqpUp, targets, handlerVars, init, kafkaVars, registryVars, faults>>

-----------------------------------------------------------------------------
(* registerRabbitHandlers. *)

Settled_Mutant(h) == h \in pendingHandlers

Settled(h) == h \in registeredHandlers \/ h \in pendingHandlers

Resumes(next) == loop' = [loop EXCEPT !.at = NoHandler, !.step = next]

\* The next handler without a consumer: its target is checked over a channel of its own.
NextHandler ==
  /\ loop.step = "next"
  /\ \E h \in loop.left :
       IF Settled(h)
         THEN loop' = [loop EXCEPT !.left = @ \ {h}] /\ UNCHANGED pendingHandlers
         ELSE /\ loop' = [left |-> loop.left \ {h}, at |-> h, step |-> "checking"]
              /\ pendingHandlers' = pendingHandlers \cup {h}
  /\ UNCHANGED <<amqpUp, targets, registeredHandlers, missingTargets, consumers, refreshing, waiting, kafkaVars, registryVars, faults>>

\* checkTargetExists: whatever goes wrong counts as missing.
TargetChecked ==
  /\ loop.step = "checking"
  /\ IF amqpUp /\ loop.at \in targets
       THEN loop' = [loop EXCEPT !.step = "registering"] /\ UNCHANGED <<pendingHandlers, missingTargets>>
       ELSE /\ missingTargets' = missingTargets \cup {loop.at}
            /\ pendingHandlers' = pendingHandlers \ {loop.at}
            /\ Resumes("next")
  /\ UNCHANGED <<amqpUp, targets, registeredHandlers, consumers, refreshing, waiting, kafkaVars, registryVars, faults>>

\* createRpc or createSubscriber is done.
HandlerRegistered ==
  /\ loop.step = "registering"
  /\ consumers' = [consumers EXCEPT ![loop.at] = @ + 1]
  /\ registeredHandlers' = registeredHandlers \cup {loop.at}
  /\ missingTargets' = missingTargets \ {loop.at} /\ pendingHandlers' = pendingHandlers \ {loop.at}
  /\ Resumes("next")
  /\ UNCHANGED <<amqpUp, targets, refreshing, waiting, kafkaVars, registryVars, faults>>

RegistrationThrows_Mutant ==
  /\ loop.step = "registering" /\ Fault
  /\ Resumes("next")
  /\ UNCHANGED <<amqpUp, targets, handlerVars, refreshing, waiting, kafkaVars, registryVars>>

\* It throws: the handler is neither pending nor, unless an earlier check said so, missing.
RegistrationThrows ==
  /\ loop.step = "registering" /\ Fault
  /\ pendingHandlers' = pendingHandlers \ {loop.at}
  /\ Resumes("next")
  /\ UNCHANGED <<amqpUp, targets, registeredHandlers, missingTargets, consumers, refreshing, waiting, kafkaVars, registryVars>>

\* The promise settles: the first refresh goes on to listen, and requests are answered.
LoopEnds ==
  /\ loop.step = "next" /\ loop.left = {}
  /\ loop' = AtRest /\ refreshing' = FALSE
  /\ init' = IF init = "refreshing" THEN "listening" ELSE init
  /\ health' = [r \in Requests |-> IF health[r] = "waiting" THEN "answered" ELSE health[r]]
  /\ UNCHANGED <<amqpUp, targets, handlerVars, kafkaVars, registryVars, faults>>

-----------------------------------------------------------------------------
(* The broker. *)

LinkDrops ==
  /\ amqpUp /\ Fault /\ amqpUp' = FALSE
  /\ UNCHANGED <<targets, handlerVars, loop, refreshing, waiting, kafkaVars, registryVars>>

TargetDeclared(h) ==
  /\ h \notin targets /\ targets' = targets \cup {h}
  /\ UNCHANGED <<amqpUp, handlerVars, loop, refreshing, waiting, kafkaVars, registryVars, faults>>

TargetDeleted(h) ==
  /\ h \in targets /\ Fault /\ targets' = targets \ {h}
  /\ UNCHANGED <<amqpUp, handlerVars, loop, refreshing, waiting, kafkaVars, registryVars>>

-----------------------------------------------------------------------------
(* Kafka, and the registry. *)

\* connect, then one subscribe per topic, then run; an error ends the process.
KafkaGoesOn ==
  /\ \/ kafka = "new" /\ kafka' = "subscribing" /\ UNCHANGED <<subscribed, faults>>
     \/ /\ kafka = "subscribing"
        /\ \E t \in Topics \ subscribed : subscribed' = subscribed \cup {t}
        /\ UNCHANGED <<kafka, faults>>
     \/ kafka = "subscribing" /\ subscribed = Topics /\ kafka' = "running" /\ UNCHANGED <<subscribed, faults>>
     \/ kafka \in {"new", "subscribing"} /\ Fault /\ kafka' = "failed" /\ UNCHANGED subscribed
  /\ UNCHANGED <<amqpUp, targets, handlerVars, loop, refreshing, waiting, registryVars>>

Newest_Mutant(s) ==
  LET longer == Append(receipts, s)
  IN  IF Len(longer) > MaxReceipts THEN SubSeq(longer, 1, MaxReceipts) ELSE longer

Newest(s) ==
  LET longer == <<s>> \o receipts
  IN  IF Len(longer) > MaxReceipts THEN SubSeq(longer, 1, MaxReceipts) ELSE longer

\* record: counted by scenario, exchange, queue and topic.
Record(s) ==
  /\ Len(received) < MaxReceived /\ received' = Append(received, s)
  /\ totalCount' = totalCount + 1
  /\ counts' = [k \in Counters |-> IF k \in CountersOf[s] THEN counts[k] + 1 ELSE counts[k]]
  /\ receipts' = Newest(s)
  /\ UNCHANGED <<amqpUp, targets, handlerVars, loop, refreshing, waiting, kafkaVars, faults>>

RabbitReceives(h) == amqpUp /\ consumers[h] > 0 /\ Record(h)
KafkaReceives(t) == kafka = "running" /\ t \in subscribed /\ Record(t)

\* DELETE /receipts.
Clear ==
  /\ receipts # <<>>
  /\ receipts' = <<>> /\ totalCount' = 0 /\ counts' = [k \in Counters |-> 0]
  /\ received' = <<>>
  /\ UNCHANGED <<amqpUp, targets, handlerVars, loop, refreshing, waiting, kafkaVars, faults>>

-----------------------------------------------------------------------------
Next ==
  /\ kafka # "failed"
  /\ \/ OnModuleInit \/ Connected \/ RetryTimerFires
     \/ NextHandler \/ TargetChecked \/ HandlerRegistered \/ RegistrationThrows \/ LoopEnds
     \/ LinkDrops \/ KafkaGoesOn \/ Clear
     \/ \E r \in Requests : GetHealth(r)
     \/ \E h \in Handlers : TargetDeclared(h) \/ TargetDeleted(h)
     \/ \E h \in Handlers : RabbitReceives(h)
     \/ \E t \in Topics : KafkaReceives(t)

Spec == Init /\ [][Next]_vars

\* Awaits settle, the interval fires, and the link comes back.
Live(A) == kafka # "failed" /\ A
Fairness ==
  /\ WF_vars(Live(OnModuleInit)) /\ WF_vars(Live(Connected)) /\ WF_vars(Live(RetryTimerFires))
  /\ WF_vars(Live(NextHandler)) /\ WF_vars(Live(TargetChecked)) /\ WF_vars(Live(LoopEnds))
  /\ WF_vars(Live(HandlerRegistered))
FairSpec == Spec /\ Fairness

-----------------------------------------------------------------------------
TypeOK ==
  /\ amqpUp \in BOOLEAN /\ targets \subseteq Handlers
  /\ registeredHandlers \subseteq Handlers /\ pendingHandlers \subseteq Handlers /\ missingTargets \subseteq Handlers
  /\ loop \in [left : SUBSET Handlers, at : Handlers \cup {NoHandler}, step : {"rest", "next", "checking", "registering"}]
  /\ refreshing \in BOOLEAN
  /\ init \in {"new", "refreshing", "listening"}
  /\ health \in [Requests -> {"new", "waiting", "answered"}]
  /\ consumers \in [Handlers -> Nat]
  /\ kafka \in {"new", "subscribing", "running", "failed"} /\ subscribed \subseteq Topics
  /\ receipts \in Seq(Scenarios) /\ totalCount \in Nat /\ counts \in [Counters -> Nat]
  /\ received \in Seq(Scenarios)
  /\ faults \in 0 .. MaxFaults

\* However refreshes of the timer, of 'connect' and of health requests overlap, no handler
\* consumes twice (each message would be recorded twice), and the ready ones are those that
\* consume (refreshPromise, registeredHandlers).
RegisteredOnce ==
  \A h \in Handlers : consumers[h] = IF h \in registeredHandlers THEN 1 ELSE 0

\* What GET /health shows as pending is what the running loop is at: no handler is left
\* pending by a loop that is over, where every later loop would skip it.
PendingIsAt ==
  pendingHandlers = IF loop.step \in {"checking", "registering"} THEN {loop.at} ELSE {}

\* The list of receipts and all counters tell the same story: that of the messages since the
\* receipts were last deleted (ConsumerRegistryService.record and clear).
ReceiptsAddUp ==
  /\ totalCount = Len(received)
  /\ \A k \in Counters : counts[k] = Cardinality({i \in DOMAIN received : k \in CountersOf[received[i]]})
  /\ Len(receipts) = IF totalCount < MaxReceipts THEN totalCount ELSE MaxReceipts
  /\ \A i \in DOMAIN receipts : receipts[i] = received[Len(received) - i + 1]

\* Everyone who waits for a refresh is served: health requests are answered.
HealthAnswered ==
  \A r \in Requests : health[r] = "waiting" ~> (health[r] = "answered" \/ kafka = "failed")

\* A handler whose target was missing is registered once the target and the link are there to
\* stay, even if registrations throw in between (the retry timer).
MissingGetReady ==
  \A h \in Handlers :
    <>[](amqpUp /\ h \in targets /\ kafka # "failed") => (h \in missingTargets ~> h \in registeredHandlers)

\* Refreshes serve everyone who shares them: both of the above.
RefreshesServe == HealthAnswered /\ MissingGetReady
=============================================================================
