--------------------------- MODULE ConnectionPool ---------------------------
(***************************************************************************)
(* RabbitConnectionPool                                                    *)
(* (apps/backend/src/core/publishing/rabbit-connection-pool.ts) and the    *)
(* batches RabbitPublisherService.handleStandardBatch publishes through it *)
(* (rabbit-publisher.service.ts).                                          *)
(*                                                                         *)
(* A batch is a loop that runs, without giving up the processor, until it  *)
(* ends or awaits a drain.  A promise that is resolved already continues   *)
(* its await before any timer or socket event is looked at: the event      *)
(* loop takes its next event only when no batch can go on.                 *)
(*                                                                         *)
(* Abstractions: the message contents; the two round-robin cursors, which  *)
(* become a choice among the channels they rotate over; the channels of a  *)
(* connection are created in one step after it is opened, which all of     *)
(* them survive or the connection does not get its slot.                   *)
(***************************************************************************)
EXTENDS Integers, FiniteSets

CONSTANTS
  ConnectionCount,   \* CONNECTION_COUNT
  ChannelsPerConn,   \* CHANNELS_PER_CONN
  HighWater,         \* writes a channel buffers before publish returns false
  Batches,
  BatchSize,         \* messages of a batch
  MaxSockets,        \* bound: connections opened in all
  MaxInits,          \* bound: calls of initialize
  MaxLost,           \* bound: connections that close or cannot be opened with their channels
  MaxChannelErrors,  \* bound: channels the broker closes
  MayShutDown        \* whether onModuleDestroy is called

ASSUME PoolAssumption ==
  /\ ConnectionCount \in Nat \ {0} /\ ChannelsPerConn \in Nat \ {0}
  /\ HighWater \in Nat \ {0} /\ BatchSize \in Nat /\ MayShutDown \in BOOLEAN

ASSUME PoolBounds ==
  MaxSockets \in Nat /\ MaxInits \in Nat /\ MaxLost \in Nat /\ MaxChannelErrors \in Nat

Conns == 1 .. ConnectionCount
Sockets == 1 .. MaxSockets
Inits == 1 .. MaxInits
Messages == 1 .. BatchSize
Channels == Sockets \X (1 .. ChannelsPerConn)
NoSocket == 0

VARIABLES
  ready, closing,
  connections,   \* connections[i]: the socket this.connections holds, or a hole
  socket,        \* socket[s]: [index, state] of a connection, a ManagedConnection once it is alive
  reconnects,    \* reconnects[i]: pending reconnect timers of connection i
  awaited,       \* awaited[j]: the openConnection calls initialize j waits for
  initCount,     \* calls of initialize so far
  channel,       \* channel[c]: [buffered, draining, closed] of a PoolSlot
  batch,         \* batch[b]: [pc, next, drains] of a handleStandardBatch call
  written,       \* written[b][m]: how often message m was given to a channel, up to 2
  backpressureActive,
  lost, channelErrors   \* how many connections and channels were lost so far

pool == <<ready, closing, connections, socket, reconnects, awaited, initCount>>
faults == <<lost, channelErrors>>
vars == <<pool, channel, batch, written, backpressureActive, faults>>

\* "connecting": amqplib.connect is awaited.  "opening": the connection is open and its
\* channels are being created; only openConnection knows it.  "abandoned": open still, but
\* createChannel threw and openConnection dropped it.  A "shut" connection was closed by
\* onModuleDestroy: not alive, its slots are kept.
SocketStates == {"unused", "connecting", "opening", "alive", "abandoned", "closed", "shut"}

\* "running": the loop has the processor.  "resolved": its await is resolved.
Pcs == {"idle", "running", "resolved", "waiting", "done", "failed", "threw"}

TypeOK ==
  /\ ready \in BOOLEAN /\ closing \in BOOLEAN
  /\ connections \in [Conns -> Sockets \cup {NoSocket}]
  /\ socket \in [Sockets -> [index : Conns, state : SocketStates]]
  /\ reconnects \in [Conns -> Nat]
  /\ awaited \in [Inits -> SUBSET Sockets]
  /\ initCount \in 0 .. MaxInits
  /\ channel \in [Channels -> [buffered : 0 .. HighWater, draining : BOOLEAN, closed : BOOLEAN]]
  /\ batch \in [Batches -> [pc : Pcs, next : 1 .. BatchSize + 1, drains : SUBSET Channels]]
  /\ written \in [Batches -> [Messages -> 0 .. 2]]
  /\ backpressureActive \in BOOLEAN
  /\ lost \in Nat /\ channelErrors \in Nat

Init ==
  /\ ready = FALSE /\ closing = FALSE
  /\ connections = [i \in Conns |-> NoSocket]
  /\ socket = [s \in Sockets |-> [index |-> 1, state |-> "unused"]]
  /\ reconnects = [i \in Conns |-> 0]
  /\ awaited = [j \in Inits |-> {}]
  /\ initCount = 0
  /\ channel = [c \in Channels |-> [buffered |-> 0, draining |-> FALSE, closed |-> FALSE]]
  /\ batch = [b \in Batches |-> [pc |-> "idle", next |-> 1, drains |-> {}]]
  /\ written = [b \in Batches |-> [m \in Messages |-> 0]]
  /\ backpressureActive = FALSE
  /\ lost = 0 /\ channelErrors = 0

-----------------------------------------------------------------------------
(* What the pool offers.                                                   *)

isReady == ready /\ ~closing

Installed == {connections[i] : i \in Conns} \ {NoSocket}
ChannelsOf(sockets) == {c \in Channels : c[1] \in sockets}
AliveIn(sockets) == {s \in sockets : socket[s].state = "alive"}

\* A hole of the array below its length: connection i was never opened.
Holes == {i \in Conns : connections[i] = NoSocket /\ \E j \in Conns : j > i /\ connections[j] # NoSocket}

\* The channels writeToPool writes to.
Usable == {c \in ChannelsOf(AliveIn(Installed)) : ~channel[c].draining}

Draining_Mutant(ch) == {}   \* it awaits nothing

\* The slots waitForAnyDrain awaits; a closed connection has none.
Draining(ch) ==
  {c \in ChannelsOf({s \in Installed : socket[s].state \in {"alive", "shut"}}) : ch[c].draining}

isFullySaturated ==
  /\ ready
  /\ \A s \in Installed : /\ socket[s].state = "alive"
                          /\ \A c \in ChannelsOf({s}) : channel[c].draining

\* RabbitPublisherService.isBackpressured.
isBackpressured == IF isReady THEN isFullySaturated ELSE backpressureActive

\* No loop has the processor, no await is resolved: the event loop may take an event.
EventLoopFree == \A b \in Batches : batch[b].pc \notin {"running", "resolved"}

-----------------------------------------------------------------------------
(* Connections.                                                            *)

Opened == Cardinality({s \in Sockets : socket[s].state # "unused"})

\* openConnection up to the await of amqplib.connect, for the next sockets: "index" says
\* which connection each of them is opened for.
Opening(index) ==
  /\ DOMAIN index \subseteq Sockets
  /\ socket' = [s \in Sockets |-> IF s \in DOMAIN index
                                  THEN [index |-> index[s], state |-> "connecting"]
                                  ELSE socket[s]]

\* initialize, on the broker's "connect" event while the pool is not ready.
Initialize ==
  /\ EventLoopFree
  /\ ~isReady /\ ~closing
  /\ initCount < MaxInits
  /\ LET next == Opened + 1 .. Opened + ConnectionCount IN
       /\ Opening([s \in next |-> s - Opened])
       /\ awaited' = [awaited EXCEPT ![initCount + 1] = next]
  /\ initCount' = initCount + 1
  /\ UNCHANGED <<ready, closing, connections, reconnects, channel, batch, written,
                 backpressureActive, faults>>

\* The first openConnection of socket s returned; initialize sets ready with the last
\* one it awaits, whether or not they could connect.
OpenReturned(s) ==
  /\ awaited' = [j \in Inits |-> awaited[j] \ {s}]
  /\ ready' = (ready \/ \E j \in Inits : awaited[j] = {s})

Stored_Mutant(s) ==   \* a dead connection is not replaced
  IF connections[socket[s].index] = NoSocket
  THEN [connections EXCEPT ![socket[s].index] = s] ELSE connections

\* connections[index] = mc.
Stored(s) == [connections EXCEPT ![socket[s].index] = s]

\* amqplib.connect resolved: openConnection goes on to the channels.
Connected(s) ==
  /\ EventLoopFree
  /\ socket[s].state = "connecting"
  /\ socket' = [socket EXCEPT ![s].state = "opening"]
  /\ UNCHANGED <<ready, closing, connections, reconnects, awaited, initCount, channel, batch,
                 written, backpressureActive, faults>>

\* The last createChannel resolved: the connection gets its listeners and its slot.
ChannelsCreated(s) ==
  /\ EventLoopFree
  /\ socket[s].state = "opening"
  /\ socket' = [socket EXCEPT ![s].state = "alive"]
  /\ connections' = Stored(s)
  /\ OpenReturned(s)
  /\ UNCHANGED <<closing, reconnects, initCount, channel, batch, written,
                 backpressureActive, faults>>

Reconnecting_Mutant(i) == [reconnects EXCEPT ![i] = @ + 2]   \* on "error" and on "close"

\* setTimeout(openConnection, RECONNECT_DELAY_MS).
Reconnecting(i) == [reconnects EXCEPT ![i] = @ + 1]

\* The catch block of openConnection, which leaves the connection of socket s in "state".
Caught(s, state) ==
  /\ lost < MaxLost
  /\ lost' = lost + 1
  /\ socket' = [socket EXCEPT ![s].state = state]
  /\ reconnects' = IF closing THEN reconnects ELSE Reconnecting(socket[s].index)
  /\ OpenReturned(s)
  /\ UNCHANGED <<closing, connections, initCount, channel, batch, written,
                 backpressureActive, channelErrors>>

\* amqplib.connect threw: nothing was opened.
ConnectFailed(s) ==
  /\ EventLoopFree
  /\ socket[s].state = "connecting"
  /\ Caught(s, "closed")

\* createChannel threw: the connection went away, or it is open still and nobody closes it.
CreateChannelFailed(s) ==
  /\ EventLoopFree
  /\ socket[s].state = "opening"
  /\ \E state \in {"closed", "abandoned"} : Caught(s, state)

\* An abandoned connection ends; it has no listeners.
AbandonedCloses(s) ==
  /\ EventLoopFree
  /\ socket[s].state = "abandoned"
  /\ socket' = [socket EXCEPT ![s].state = "closed"]
  /\ UNCHANGED <<ready, closing, connections, reconnects, awaited, initCount, channel, batch,
                 written, backpressureActive, faults>>

\* The reconnect timer of connection i fires.
Reconnect(i) ==
  /\ EventLoopFree
  /\ reconnects[i] > 0
  /\ reconnects' = [reconnects EXCEPT ![i] = @ - 1]
  /\ IF closing THEN UNCHANGED socket ELSE Opening([s \in {Opened + 1} |-> i])
  /\ UNCHANGED <<ready, closing, connections, awaited, initCount, channel, batch, written,
                 backpressureActive, faults>>

\* The "close" event of a connection.
ConnectionCloses(s) ==
  /\ EventLoopFree
  /\ socket[s].state = "alive" /\ ~closing
  /\ lost < MaxLost
  /\ lost' = lost + 1
  /\ socket' = [socket EXCEPT ![s].state = "closed"]
  /\ reconnects' = Reconnecting(socket[s].index)
  /\ UNCHANGED <<ready, closing, connections, awaited, initCount, channel, batch, written,
                 backpressureActive, channelErrors>>

\* The broker closes a channel; nothing listens but the empty "error" handler.
ChannelCloses(c) ==
  /\ EventLoopFree
  /\ socket[c[1]].state = "alive" /\ ~channel[c].closed
  /\ channelErrors < MaxChannelErrors
  /\ channelErrors' = channelErrors + 1
  /\ channel' = [channel EXCEPT ![c].closed = TRUE, ![c].buffered = 0]
  /\ UNCHANGED <<pool, batch, written, backpressureActive, lost>>

\* onModuleDestroy.
ShutDown ==
  /\ EventLoopFree
  /\ MayShutDown /\ ~closing
  /\ closing' = TRUE
  /\ socket' = [s \in Sockets |-> IF s \in AliveIn(Installed)
                                  THEN [socket[s] EXCEPT !.state = "shut"] ELSE socket[s]]
  /\ UNCHANGED <<ready, connections, reconnects, awaited, initCount, channel, batch, written,
                 backpressureActive, faults>>

-----------------------------------------------------------------------------
(* Drains.                                                                 *)

Resolved_Mutant(c) == batch   \* drainPromise is dropped and not resolved

\* drainPromise of channel c is resolved: whoever races on it goes on.
Resolved(c) ==
  [b \in Batches |-> IF batch[b].pc = "waiting" /\ c \in batch[b].drains
                     THEN [batch[b] EXCEPT !.pc = "resolved", !.drains = {}]
                     ELSE batch[b]]

\* The broker took what channel c buffered: "drain" is emitted.
Drain(c) ==
  /\ EventLoopFree
  /\ socket[c[1]].state = "alive" /\ channel[c].buffered > 0
  /\ channel' = [channel EXCEPT ![c].buffered = 0, ![c].draining = FALSE]
  /\ batch' = IF channel[c].draining THEN Resolved(c) ELSE batch
  /\ UNCHANGED <<pool, written, backpressureActive, faults>>

\* DRAIN_TIMEOUT_MS passed since armDrain.
DrainTimeout(c) ==
  /\ EventLoopFree
  /\ channel[c].draining
  /\ channel' = [channel EXCEPT ![c].draining = FALSE]
  /\ batch' = Resolved(c)
  /\ UNCHANGED <<pool, written, backpressureActive, faults>>

-----------------------------------------------------------------------------
(* handleStandardBatch, while the pool is ready at its start.              *)

StartBatch(b) ==
  /\ EventLoopFree
  /\ batch[b].pc = "idle"
  /\ isReady
  /\ batch' = [batch EXCEPT ![b].pc = "running"]
  /\ UNCHANGED <<pool, channel, written, backpressureActive, faults>>

\* waitForAnyDrain up to its await, when the channels are "ch": it throws at a hole of
\* the array, and it has nothing to await when no slot is draining.
WaitForAnyDrain(b, ch) ==
  /\ backpressureActive' = TRUE
  /\ batch' = [batch EXCEPT ![b].pc = IF Holes # {} THEN "threw"
                                      ELSE IF Draining(ch) = {} THEN "resolved" ELSE "waiting",
                            ![b].drains = IF Holes # {} THEN {} ELSE Draining(ch)]

Accepted(b, m) == [batch EXCEPT ![b].next = m + 1]

\* One round of the loop that finds a channel.  A channel that buffers its HighWater-th
\* write returns false, though it took the message.
WriteMessage(b) ==
  /\ batch[b].pc = "running" /\ batch[b].next <= BatchSize
  /\ \E c \in Usable :
       LET m == batch[b].next
           level == channel[c].buffered + 1
       IN IF channel[c].closed
          THEN /\ batch' = [batch EXCEPT ![b].pc = "failed"]
               /\ UNCHANGED <<channel, written, backpressureActive>>
          ELSE /\ written' = [written EXCEPT ![b][m] = IF @ < 2 THEN @ + 1 ELSE @]
               /\ IF level < HighWater
                  THEN /\ channel' = [channel EXCEPT ![c].buffered = level]
                       /\ batch' = Accepted(b, m)
                       /\ UNCHANGED backpressureActive
                  ELSE LET armed == [channel EXCEPT ![c].buffered = HighWater,
                                                    ![c].draining = TRUE]
                       IN channel' = armed /\ WaitForAnyDrain(b, armed)
  /\ UNCHANGED <<pool, faults>>

\* One round that finds none.
FindNoChannel(b) ==
  /\ batch[b].pc = "running" /\ batch[b].next <= BatchSize
  /\ Usable = {} /\ Holes = {}
  /\ WaitForAnyDrain(b, channel)
  /\ UNCHANGED <<pool, channel, written, faults>>

\* writeToPool comes upon a hole of the array: it reads a property of undefined.
MeetHole(b) ==
  /\ batch[b].pc = "running" /\ batch[b].next <= BatchSize
  /\ Holes # {}
  /\ batch' = [batch EXCEPT ![b].pc = "threw"]
  /\ UNCHANGED <<pool, channel, written, backpressureActive, faults>>

Retried_Mutant(b) ==   \* index-- is missing
  [batch EXCEPT ![b].pc = "running", ![b].next = @ + 1]

Retried(b) == [batch EXCEPT ![b].pc = "running"]

\* After the await of waitForAnyDrain: index-- and the next round.
Resume(b) ==
  /\ batch[b].pc = "resolved"
  /\ \A d \in Batches : batch[d].pc # "running"
  /\ backpressureActive' = FALSE
  /\ batch' = Retried(b)
  /\ UNCHANGED <<pool, channel, written, faults>>

FinishBatch(b) ==
  /\ batch[b].pc = "running" /\ batch[b].next > BatchSize
  /\ batch' = [batch EXCEPT ![b].pc = "done"]
  /\ UNCHANGED <<pool, channel, written, backpressureActive, faults>>

BatchStep(b) == WriteMessage(b) \/ FindNoChannel(b) \/ MeetHole(b) \/ Resume(b) \/ FinishBatch(b)

\* openConnection goes on after one of its awaits.
OpenStep(s) ==
  Connected(s) \/ ChannelsCreated(s) \/ ConnectFailed(s) \/ CreateChannelFailed(s)

Next ==
  \/ Initialize \/ ShutDown
  \/ \E s \in Sockets : OpenStep(s) \/ ConnectionCloses(s) \/ AbandonedCloses(s)
  \/ \E i \in Conns : Reconnect(i)
  \/ \E c \in Channels : ChannelCloses(c) \/ Drain(c) \/ DrainTimeout(c)
  \/ \E b \in Batches : StartBatch(b) \/ BatchStep(b)

Spec == Init /\ [][Next]_vars

\* The loops run, timers fire and connection attempts end.  The broker takes what was
\* written whatever the event loop does meanwhile.
FairSpec ==
  /\ Spec
  /\ \A b \in Batches : WF_vars(BatchStep(b))
  /\ \A s \in Sockets : WF_vars(OpenStep(s))
  /\ \A i \in Conns : WF_vars(Reconnect(i))
  /\ \A c \in Channels : WF_vars(DrainTimeout(c)) /\ SF_vars(Drain(c))

-----------------------------------------------------------------------------
(* Properties.                                                             *)

\* A batch never leaves a message behind that no channel took: not when a channel
\* drains, times out or closes while the batch waits, nor when its connection is replaced.
NothingSkipped ==
  \A b \in Batches, m \in Messages : m < batch[b].next => written[b][m] > 0

\* A batch that waits will be woken: the drain it races on is pending, whatever became
\* of the connection meanwhile.
WaitersWillWake ==
  \A b \in Batches : batch[b].pc = "waiting" =>
    \E c \in batch[b].drains : channel[c].draining

\* An index is served once and never given up: openConnection is at work on it, its
\* connection is alive or one reconnect timer runs for it, whichever of connect and
\* createChannel failed and whatever closed since; before initialize, and once the process
\* shuts down, there may be nothing.  A connection abandoned by the catch block is no
\* owner of its index: see ConnectionsAsConfigured.
OneOwnerPerIndex ==
  \A i \in Conns :
    LET owners == {s \in Sockets : /\ socket[s].index = i
                                   /\ socket[s].state \in {"connecting", "opening", "alive"}}
    IN /\ Cardinality(owners) + reconnects[i] <= 1
       /\ initCount > 0 /\ ~closing => Cardinality(owners) + reconnects[i] = 1

\* "Replace any existing dead connection at this index" (rabbit-connection-pool.ts:234):
\* a connection that is alive is the one its slot holds, where batches write to it and
\* onModuleDestroy finds it, also after its predecessor closed.
LiveConnectionsHeld ==
  \A s \in Sockets : socket[s].state = "alive" => connections[socket[s].index] = s

\* A batch ends, with or without an error, unless the process is shut down meanwhile.
BatchesEnd ==
  \A b \in Batches : batch[b].pc = "running" ~> batch[b].pc \in {"done", "failed", "threw"} \/ closing

\* Back-pressure passes: the load tests isBackpressured throttles can go on.
BackpressureEnds == isBackpressured ~> ~isBackpressured

\* "Publish connection ... closed. Reconnecting in ...ms" (rabbit-connection-pool.ts:229):
\* the timer fires, also while batches "Wait for the first available channel across all
\* connections to drain" (line 124).
\* A process that shuts down need not open connections again.
ReconnectsFire == \A i \in Conns : reconnects[i] > 0 ~> reconnects[i] = 0 \/ closing

\* "Number of separate TCP connections to RabbitMQ" (rabbit-connection-pool.ts:30): no more
\* are open than CONNECTION_COUNT.
ConnectionsAsConfigured ==
  Cardinality({s \in Sockets : socket[s].state \in {"opening", "alive", "abandoned"}})
    <= ConnectionCount

\* "Returns false if all channels are currently draining (caller should wait)"
\* (rabbit-connection-pool.ts:109): a message that is retried was not written before.
WrittenOnce == \A b \in Batches, m \in Messages : written[b][m] <= 1

=============================================================================
