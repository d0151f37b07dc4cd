------------------------ MODULE ConnectionPoolProofs ------------------------
(***************************************************************************)
(* Proofs about ConnectionPool, for every number of connections, channels  *)
(* and batches, every buffer size and every bound.                         *)
(***************************************************************************)
EXTENDS ConnectionPool, FiniteSetTheorems, TLAPS

-----------------------------------------------------------------------------
(* Types.                                                                  *)

LEMMA ConstantFacts ==
  /\ ConnectionCount \in Nat /\ ConnectionCount > 0
  /\ HighWater \in Nat /\ HighWater > 0
  /\ BatchSize \in Nat /\ MaxSockets \in Nat /\ MaxInits \in Nat
  /\ 1 \in Conns
  BY PoolAssumption, PoolBounds DEF Conns

\* The sockets used so far are counted by a number.
LEMMA OpenedNat == Opened \in Nat
<1> DEFINE used == {s \in Sockets : socket[s].state # "unused"}
<1>1. IsFiniteSet(Sockets)
  BY ConstantFacts, FS_Interval DEF Sockets
<1>2. IsFiniteSet(used)
  BY <1>1, FS_Subset
<1> QED
  BY <1>2, FS_CardinalityType DEF Opened

\* The type of a handleStandardBatch call.
BatchRecords == [pc : Pcs, next : 1 .. BatchSize + 1, drains : SUBSET Channels]

\* A batch that goes on at another place, with other drains to wait for.
LEMMA BatchGoesOn ==
  ASSUME NEW r \in BatchRecords, NEW p \in Pcs, NEW d \in SUBSET Channels
  PROVE  /\ [r EXCEPT !.pc = p] \in BatchRecords
         /\ [r EXCEPT !.pc = p, !.drains = d] \in BatchRecords
  BY DEF BatchRecords

LEMMA InitTypes == Init => TypeOK
<1> SUFFICES ASSUME Init PROVE TypeOK
  OBVIOUS
<1>1. socket \in [Sockets -> [index : Conns, state : SocketStates]]
  BY ConstantFacts DEF Init, SocketStates
<1>2. channel \in [Channels -> [buffered : 0 .. HighWater, draining : BOOLEAN, closed : BOOLEAN]]
  BY ConstantFacts DEF Init
<1>3. batch \in [Batches -> BatchRecords]
  <2>1. 1 \in 1 .. BatchSize + 1
    BY ConstantFacts
  <2> QED
    BY <2>1 DEF Init, BatchRecords, Pcs
<1>4. written \in [Batches -> [Messages -> 0 .. 2]]
  BY DEF Init
<1>5. initCount \in 0 .. MaxInits /\ lost \in Nat /\ channelErrors \in Nat
  BY ConstantFacts DEF Init
<1>7. ready \in BOOLEAN /\ closing \in BOOLEAN /\ backpressureActive \in BOOLEAN
  BY Zenon DEF Init
<1>6. /\ connections \in [Conns -> Sockets \cup {NoSocket}]
      /\ reconnects \in [Conns -> Nat]
      /\ awaited \in [Inits -> SUBSET Sockets]
  BY DEF Init
<1> QED
  BY <1>1, <1>2, <1>3, <1>4, <1>5, <1>6, <1>7 DEF TypeOK, BatchRecords

\* Opening sockets keeps their records.
LEMMA OpeningTypes ==
  ASSUME TypeOK, NEW D, NEW index \in [D -> Conns], Opening(index)
  PROVE  socket' \in [Sockets -> [index : Conns, state : SocketStates]]
  BY DEF TypeOK, Opening, SocketStates

LEMMA OpenReturnedTypes ==
  ASSUME TypeOK, NEW s \in Sockets, OpenReturned(s)
  PROVE  /\ awaited' \in [Inits -> SUBSET Sockets]
         /\ ready' \in BOOLEAN
  BY DEF TypeOK, OpenReturned

LEMMA ResolvedTypes ==
  ASSUME TypeOK, NEW c
  PROVE  Resolved(c) \in [Batches -> BatchRecords]
<1>1. batch \in [Batches -> BatchRecords]
  BY DEF TypeOK, BatchRecords
<1>2. "resolved" \in Pcs
  BY DEF Pcs
<1>3. ASSUME NEW b \in Batches
      PROVE  [batch[b] EXCEPT !.pc = "resolved", !.drains = {}] \in BatchRecords
  BY <1>1, <1>2, BatchGoesOn
<1> QED
  BY <1>1, <1>3 DEF Resolved

LEMMA WaitTypes ==
  ASSUME TypeOK, NEW b \in Batches, NEW ch, WaitForAnyDrain(b, ch)
  PROVE  /\ backpressureActive' \in BOOLEAN
         /\ batch' \in [Batches -> BatchRecords]
<1>1. Draining(ch) \in SUBSET Channels
  BY DEF Draining, ChannelsOf
<1>2. batch \in [Batches -> BatchRecords]
  BY DEF TypeOK, BatchRecords
<1> DEFINE p == IF Holes # {} THEN "threw" ELSE IF Draining(ch) = {} THEN "resolved" ELSE "waiting"
           d == IF Holes # {} THEN {} ELSE Draining(ch)
<1>3. p \in Pcs /\ d \in SUBSET Channels
  BY <1>1 DEF Pcs
<1>4. batch' = [batch EXCEPT ![b] = [batch[b] EXCEPT !.pc = p, !.drains = d]]
  BY <1>2 DEF WaitForAnyDrain
<1>5. [batch[b] EXCEPT !.pc = p, !.drains = d] \in BatchRecords
  <2> HIDE DEF p, d
  <2> QED
    BY <1>2, <1>3, BatchGoesOn
<1>6. backpressureActive' \in BOOLEAN
  BY DEF WaitForAnyDrain
<1> HIDE DEF p, d
<1> QED
  BY <1>2, <1>4, <1>5, <1>6

\* The records of a channel, and how one action changes them.
ChannelRecords == [buffered : 0 .. HighWater, draining : BOOLEAN, closed : BOOLEAN]

LEMMA ChannelGoesOn ==
  ASSUME channel \in [Channels -> ChannelRecords], NEW c \in Channels, NEW n \in 0 .. HighWater
  PROVE  /\ [channel EXCEPT ![c].buffered = n] \in [Channels -> ChannelRecords]
         /\ [channel EXCEPT ![c].draining = FALSE] \in [Channels -> ChannelRecords]
         /\ [channel EXCEPT ![c].closed = TRUE, ![c].buffered = n] \in [Channels -> ChannelRecords]
         /\ [channel EXCEPT ![c].buffered = n, ![c].draining = FALSE] \in [Channels -> ChannelRecords]
         /\ [channel EXCEPT ![c].buffered = n, ![c].draining = TRUE] \in [Channels -> ChannelRecords]
<1>1. channel[c] \in ChannelRecords
  OBVIOUS
<1>2. /\ [channel[c] EXCEPT !.buffered = n] \in ChannelRecords
      /\ [channel[c] EXCEPT !.draining = FALSE] \in ChannelRecords
      /\ [channel[c] EXCEPT !.closed = TRUE, !.buffered = n] \in ChannelRecords
      /\ [channel[c] EXCEPT !.buffered = n, !.draining = FALSE] \in ChannelRecords
      /\ [channel[c] EXCEPT !.buffered = n, !.draining = TRUE] \in ChannelRecords
  BY <1>1 DEF ChannelRecords
<1>3. ASSUME NEW r \in ChannelRecords
      PROVE  [channel EXCEPT ![c] = r] \in [Channels -> ChannelRecords]
  OBVIOUS
<1> QED
  BY <1>2, <1>3


\* What a round of the loop that found channel c does.
Writes(b, c) ==
  LET m == batch[b].next
      armed == [channel EXCEPT ![c].buffered = HighWater, ![c].draining = TRUE]
      counted == written' = [written EXCEPT ![b][m] = IF @ < 2 THEN @ + 1 ELSE @]
  IN \/ /\ batch' = [batch EXCEPT ![b].pc = "failed"]
        /\ UNCHANGED <<channel, written, backpressureActive>>
     \/ /\ counted
        /\ channel[c].buffered + 1 < HighWater
        /\ channel' = [channel EXCEPT ![c].buffered = channel[c].buffered + 1]
        /\ batch' = Accepted(b, m)
        /\ UNCHANGED backpressureActive
     \/ counted /\ channel' = armed /\ WaitForAnyDrain(b, armed)

LEMMA WriteCases ==
  ASSUME TypeOK, NEW b \in Batches, WriteMessage(b)
  PROVE  batch[b].next \in Messages /\ \E c \in Channels : Writes(b, c)
<1>1. batch[b].next \in Messages
  BY ConstantFacts DEF WriteMessage, Messages, TypeOK
<1>2. Usable \subseteq Channels
  BY DEF Usable, ChannelsOf
<1>3. \E c \in Usable : Writes(b, c)
  BY Zenon DEF WriteMessage, Writes
<1> QED
  BY <1>1, <1>2, <1>3

\* The loop of a batch keeps the types.
LEMMA StepTypes ==
  ASSUME TypeOK, NEW b \in Batches, BatchStep(b)
  PROVE  TypeOK'
<1> USE DEF pool, faults
<1>b. batch \in [Batches -> BatchRecords]
  BY DEF TypeOK, BatchRecords
<1>p. {"threw", "failed", "running", "done"} \subseteq Pcs
  BY DEF Pcs
<1>1. CASE WriteMessage(b)
  <2> DEFINE m == batch[b].next
  <2>1. m \in Messages
    BY <1>1, WriteCases
  <2>2. PICK c \in Channels : Writes(b, c)
    BY <1>1, WriteCases
  <2>3. c \in Channels
    OBVIOUS
  <2>4. written' \in [Batches -> [Messages -> 0 .. 2]]
    <3>1. written[b][m] \in 0 .. 2
      BY <2>1 DEF TypeOK
    <3>2. (IF written[b][m] < 2 THEN written[b][m] + 1 ELSE written[b][m]) \in 0 .. 2
      BY <3>1
    <3> DEFINE w == IF written[b][m] < 2 THEN written[b][m] + 1 ELSE written[b][m]
    <3>3. written' = written \/ written' = [written EXCEPT ![b] = [written[b] EXCEPT ![m] = w]]
      BY <2>1, <2>2 DEF TypeOK, Writes
    <3>4. w \in 0 .. 2
      BY <3>2
    <3>5. written \in [Batches -> [Messages -> 0 .. 2]]
      BY DEF TypeOK
    <3> HIDE DEF w, m
    <3>6. [written[b] EXCEPT ![m] = w] \in [Messages -> 0 .. 2]
      BY <2>1, <3>4, <3>5
    <3> QED
      BY <3>3, <3>5, <3>6
  <2>5. channel' \in [Channels -> [buffered : 0 .. HighWater, draining : BOOLEAN, closed : BOOLEAN]]
    <3> DEFINE n == channel[c].buffered + 1
    <3>1. channel \in [Channels -> ChannelRecords]
      BY DEF TypeOK, ChannelRecords
    <3>2. HighWater \in 0 .. HighWater
      BY ConstantFacts
    <3>3. CASE n < HighWater /\ channel' = [channel EXCEPT ![c].buffered = n]
      <4>1. n \in 0 .. HighWater
        BY <3>3, <2>3, <3>1, ConstantFacts DEF ChannelRecords
      <4> HIDE DEF n
      <4> QED
        BY <2>3, <3>1, <3>3, <4>1, ChannelGoesOn DEF ChannelRecords
    <3>4. CASE channel' = [channel EXCEPT ![c].buffered = HighWater, ![c].draining = TRUE]
      BY <2>3, <3>1, <3>2, <3>4, ChannelGoesOn DEF ChannelRecords
    <3> QED
      BY <2>2, <3>1, <3>3, <3>4 DEF ChannelRecords, Writes
  <2>6. batch' \in [Batches -> BatchRecords] /\ backpressureActive' \in BOOLEAN
    <3>1. CASE batch' = [batch EXCEPT ![b].pc = "failed"] /\ UNCHANGED backpressureActive
      <4>1. batch' = [batch EXCEPT ![b] = [batch[b] EXCEPT !.pc = "failed"]]
        BY <1>b, <3>1
      <4> QED
        <5>1. [batch[b] EXCEPT !.pc = "failed"] \in BatchRecords
          BY <1>b, <1>p, BatchGoesOn
        <5>2. backpressureActive' \in BOOLEAN
          BY <3>1 DEF TypeOK
        <5> QED
          BY <1>b, <4>1, <5>1, <5>2
    <3>2. CASE batch' = Accepted(b, m) /\ UNCHANGED backpressureActive
      <4>1. m + 1 \in 1 .. BatchSize + 1
        BY <2>1, ConstantFacts DEF Messages
      <4>2. batch' = [batch EXCEPT ![b] = [batch[b] EXCEPT !.next = m + 1]]
        BY <1>b, <3>2 DEF Accepted
      <4> HIDE DEF m
      <4>3. [batch[b] EXCEPT !.next = m + 1] \in BatchRecords
        BY <1>b, <4>1 DEF BatchRecords
      <4> QED
        BY <1>b, <3>2, <4>2, <4>3 DEF TypeOK
    <3>3. CASE \E ch : WaitForAnyDrain(b, ch)
      BY <3>3, WaitTypes
    <3> QED
      BY <2>2, <3>1, <3>2, <3>3, Zenon DEF Writes
  <2> QED
    BY <1>1, <2>4, <2>5, <2>6 DEF WriteMessage, TypeOK, BatchRecords
<1>2. CASE FindNoChannel(b)
  <2>1. batch' \in [Batches -> BatchRecords] /\ backpressureActive' \in BOOLEAN
    BY <1>2, WaitTypes DEF FindNoChannel
  <2> QED
    BY <1>2, <2>1 DEF FindNoChannel, TypeOK, BatchRecords
<1>3. CASE MeetHole(b)
  <2>1. batch' = [batch EXCEPT ![b] = [batch[b] EXCEPT !.pc = "threw"]]
    BY <1>3, <1>b DEF MeetHole
  <2>2. batch' \in [Batches -> BatchRecords]
    BY <1>b, <1>p, <2>1, BatchGoesOn
  <2> QED
    BY <1>3, <2>2 DEF MeetHole, TypeOK, BatchRecords
<1>4. CASE Resume(b)
  <2>1. batch' = [batch EXCEPT ![b] = [batch[b] EXCEPT !.pc = "running"]]
    BY <1>4, <1>b DEF Resume, Retried
  <2>2. batch' \in [Batches -> BatchRecords]
    BY <1>b, <1>p, <2>1, BatchGoesOn
  <2>3. backpressureActive' \in BOOLEAN
    BY <1>4 DEF Resume
  <2> QED
    BY <1>4, <2>2, <2>3 DEF Resume, TypeOK, BatchRecords
<1>5. CASE FinishBatch(b)
  <2>1. batch' = [batch EXCEPT ![b] = [batch[b] EXCEPT !.pc = "done"]]
    BY <1>5, <1>b DEF FinishBatch
  <2>2. batch' \in [Batches -> BatchRecords]
    BY <1>b, <1>p, <2>1, BatchGoesOn
  <2> QED
    BY <1>5, <2>2 DEF FinishBatch, TypeOK, BatchRecords
<1> QED
  BY <1>1, <1>2, <1>3, <1>4, <1>5 DEF BatchStep

\* openConnection keeps the types.
LEMMA OpenTypes ==
  ASSUME TypeOK, NEW s \in Sockets, OpenStep(s)
  PROVE  TypeOK'
<1> USE DEF pool, faults
<1>1. CASE Connected(s)
  <2>1. socket' \in [Sockets -> [index : Conns, state : SocketStates]]
    BY <1>1 DEF Connected, TypeOK, SocketStates
  <2> QED
    BY <1>1, <2>1 DEF Connected, TypeOK
<1>2. CASE ChannelsCreated(s)
  <2>1. socket' \in [Sockets -> [index : Conns, state : SocketStates]]
    BY <1>2 DEF ChannelsCreated, TypeOK, SocketStates
  <2>2. connections' \in [Conns -> Sockets \cup {NoSocket}]
    BY <1>2 DEF ChannelsCreated, Stored, TypeOK
  <2>3. awaited' \in [Inits -> SUBSET Sockets] /\ ready' \in BOOLEAN
    BY <1>2, OpenReturnedTypes DEF ChannelsCreated
  <2> QED
    BY <1>2, <2>1, <2>2, <2>3 DEF ChannelsCreated, TypeOK
<1>3. ASSUME NEW state \in SocketStates, Caught(s, state) PROVE TypeOK'
  <2>1. socket' \in [Sockets -> [index : Conns, state : SocketStates]]
    BY <1>3 DEF Caught, TypeOK
  <2>2. reconnects' \in [Conns -> Nat] /\ lost' \in Nat
    BY <1>3 DEF Caught, Reconnecting, TypeOK
  <2>3. awaited' \in [Inits -> SUBSET Sockets] /\ ready' \in BOOLEAN
    BY <1>3, OpenReturnedTypes DEF Caught
  <2> QED
    BY <1>3, <2>1, <2>2, <2>3 DEF Caught, TypeOK
<1>4. CASE ConnectFailed(s) \/ CreateChannelFailed(s)
  BY <1>3, <1>4 DEF ConnectFailed, CreateChannelFailed, SocketStates
<1> QED
  BY <1>1, <1>2, <1>4 DEF OpenStep

\* Every action keeps the types.
LEMMA NextTypes == TypeOK /\ [Next]_vars => TypeOK'
<1> SUFFICES ASSUME TypeOK, [Next]_vars PROVE TypeOK'
  OBVIOUS
<1> USE DEF vars, pool, faults
<1>b. batch \in [Batches -> BatchRecords]
  BY DEF TypeOK, BatchRecords
<1>z. 0 \in 0 .. HighWater
  BY ConstantFacts
<1>1. CASE Initialize
  <2> DEFINE next == Opened + 1 .. Opened + ConnectionCount
             index == [s \in next |-> s - Opened]
  <2>1. index \in [next -> Conns]
    BY OpenedNat, ConstantFacts DEF Conns
  <2>2. Opening(index)
    BY <1>1 DEF Initialize
  <2>3. socket' \in [Sockets -> [index : Conns, state : SocketStates]]
    <3> HIDE DEF index, next
    <3> QED BY <2>1, <2>2, OpeningTypes
  <2>4. next \subseteq Sockets
    BY <2>2 DEF Opening
  <2>5. awaited' \in [Inits -> SUBSET Sockets] /\ initCount' \in 0 .. MaxInits
    <3>1. awaited' = [awaited EXCEPT ![initCount + 1] = next] /\ initCount' = initCount + 1
      BY <1>1 DEF Initialize
    <3>2. initCount < MaxInits
      BY <1>1 DEF Initialize
    <3> HIDE DEF next
    <3> QED
      BY <2>4, <3>1, <3>2, ConstantFacts DEF TypeOK, Inits
  <2> QED
    BY <1>1, <2>3, <2>5 DEF Initialize, TypeOK
<1>2. CASE ShutDown
  <2>1. socket' \in [Sockets -> [index : Conns, state : SocketStates]]
    BY <1>2 DEF ShutDown, TypeOK, SocketStates
  <2>2. closing' \in BOOLEAN
    BY <1>2 DEF ShutDown
  <2> QED
    BY <1>2, <2>1, <2>2 DEF ShutDown, TypeOK
<1>3. ASSUME NEW s \in Sockets, OpenStep(s) PROVE TypeOK'
  BY <1>3, OpenTypes
<1>4. ASSUME NEW s \in Sockets, AbandonedCloses(s) PROVE TypeOK'
  <2>1. socket' \in [Sockets -> [index : Conns, state : SocketStates]]
    BY <1>4 DEF AbandonedCloses, TypeOK, SocketStates
  <2> QED
    BY <1>4, <2>1 DEF AbandonedCloses, TypeOK
<1>5. ASSUME NEW s \in Sockets, ConnectionCloses(s) PROVE TypeOK'
  <2>1. socket' \in [Sockets -> [index : Conns, state : SocketStates]]
    BY <1>5 DEF ConnectionCloses, TypeOK, SocketStates
  <2>2. reconnects' \in [Conns -> Nat] /\ lost' \in Nat
    BY <1>5 DEF ConnectionCloses, Reconnecting, TypeOK
  <2> QED
    BY <1>5, <2>1, <2>2 DEF ConnectionCloses, TypeOK
<1>6. ASSUME NEW i \in Conns, Reconnect(i) PROVE TypeOK'
  <2>1. socket' \in [Sockets -> [index : Conns, state : SocketStates]]
    <3>1. CASE closing
      BY <1>6, <3>1 DEF Reconnect, TypeOK
    <3>2. CASE ~closing
      <4> DEFINE index == [s \in {Opened + 1} |-> i]
      <4>1. index \in [{Opened + 1} -> Conns] /\ Opening(index)
        BY <1>6, <3>2 DEF Reconnect
      <4> HIDE DEF index
      <4> QED BY <4>1, OpeningTypes
    <3> QED BY <3>1, <3>2
  <2>2. reconnects' \in [Conns -> Nat]
    BY <1>6 DEF Reconnect, TypeOK
  <2> QED
    BY <1>6, <2>1, <2>2 DEF Reconnect, TypeOK
<1>7. ASSUME NEW c \in Channels, ChannelCloses(c) PROVE TypeOK'
  <2>1. channel' \in [Channels -> [buffered : 0 .. HighWater, draining : BOOLEAN, closed : BOOLEAN]]
    BY <1>7, <1>z, ChannelGoesOn DEF ChannelCloses, TypeOK, ChannelRecords
  <2>2. channelErrors' \in Nat
    BY <1>7 DEF ChannelCloses, TypeOK
  <2> QED
    BY <1>7, <2>1, <2>2 DEF ChannelCloses, TypeOK
<1>8. ASSUME NEW c \in Channels, Drain(c) PROVE TypeOK'
  <2>1. channel' \in [Channels -> [buffered : 0 .. HighWater, draining : BOOLEAN, closed : BOOLEAN]]
    BY <1>8, <1>z, ChannelGoesOn DEF Drain, TypeOK, ChannelRecords
  <2>2. batch' \in [Batches -> BatchRecords]
    BY <1>8, <1>b, ResolvedTypes DEF Drain
  <2> QED
    BY <1>8, <2>1, <2>2 DEF Drain, TypeOK, BatchRecords
<1>9. ASSUME NEW c \in Channels, DrainTimeout(c) PROVE TypeOK'
  <2>1. channel' \in [Channels -> [buffered : 0 .. HighWater, draining : BOOLEAN, closed : BOOLEAN]]
    BY <1>9, <1>z, ChannelGoesOn DEF DrainTimeout, TypeOK, ChannelRecords
  <2>2. batch' \in [Batches -> BatchRecords]
    BY <1>9, ResolvedTypes DEF DrainTimeout
  <2> QED
    BY <1>9, <2>1, <2>2 DEF DrainTimeout, TypeOK, BatchRecords
<1>10. ASSUME NEW b \in Batches, StartBatch(b) PROVE TypeOK'
  <2>1. "running" \in Pcs
    BY DEF Pcs
  <2>2. batch' = [batch EXCEPT ![b] = [batch[b] EXCEPT !.pc = "running"]]
    BY <1>10, <1>b DEF StartBatch
  <2>3. batch' \in [Batches -> BatchRecords]
    BY <1>b, <2>1, <2>2, BatchGoesOn
  <2> QED
    BY <1>10, <2>3 DEF StartBatch, TypeOK, BatchRecords
<1>11. ASSUME NEW b \in Batches, BatchStep(b) PROVE TypeOK'
  BY <1>11, StepTypes
<1>12. CASE UNCHANGED vars
  BY <1>12 DEF TypeOK
<1> QED
  BY <1>1, <1>2, <1>3, <1>4, <1>5, <1>6, <1>7, <1>8, <1>9, <1>10, <1>11, <1>12 DEF Next

\* openConnection leaves the batches and their channels alone.
LEMMA OpenKeepsBatches ==
  ASSUME NEW s, OpenStep(s)
  PROVE  UNCHANGED <<channel, batch, written, backpressureActive>>
BY DEF OpenStep, Connected, ChannelsCreated, ConnectFailed, CreateChannelFailed, Caught

-----------------------------------------------------------------------------
(* No message is left behind.                                              *)

\* A step that writes nothing and leaves the places of the batches keeps it; so does one
\* that counts the message before the batch goes on to the next.
LEMMA SkipsNothing == TypeOK /\ NothingSkipped /\ [Next]_vars => NothingSkipped'
<1> SUFFICES ASSUME TypeOK, NothingSkipped, [Next]_vars PROVE NothingSkipped'
  OBVIOUS
<1> USE DEF vars, pool, faults
<1>t. /\ batch \in [Batches -> BatchRecords]
      /\ written \in [Batches -> [Messages -> 0 .. 2]]
  BY DEF TypeOK, BatchRecords
<1>s. ASSUME \A d \in Batches : batch'[d].next = batch[d].next, UNCHANGED written
      PROVE  NothingSkipped'
  BY <1>s DEF NothingSkipped
<1>k. ASSUME UNCHANGED <<batch, written>> PROVE NothingSkipped'
  BY <1>k DEF NothingSkipped
<1>r. ASSUME NEW c, NEW d \in Batches PROVE Resolved(c)[d].next = batch[d].next
  BY <1>t DEF Resolved, BatchRecords
<1>w. ASSUME NEW b \in Batches, NEW ch, WaitForAnyDrain(b, ch), NEW d \in Batches
      PROVE  batch'[d].next = batch[d].next
  BY <1>w, <1>t DEF WaitForAnyDrain, BatchRecords
<1>1. CASE Initialize
  BY <1>1, <1>k DEF Initialize
<1>2. CASE ShutDown
  BY <1>2, <1>k DEF ShutDown
<1>3. ASSUME NEW s \in Sockets, OpenStep(s) \/ ConnectionCloses(s) \/ AbandonedCloses(s)
      PROVE  NothingSkipped'
  BY <1>3, <1>k, OpenKeepsBatches DEF ConnectionCloses, AbandonedCloses
<1>4. ASSUME NEW i \in Conns, Reconnect(i) PROVE NothingSkipped'
  BY <1>4, <1>k DEF Reconnect
<1>5. ASSUME NEW c \in Channels, ChannelCloses(c) PROVE NothingSkipped'
  BY <1>5, <1>k DEF ChannelCloses
<1>6. ASSUME NEW c \in Channels, Drain(c) PROVE NothingSkipped'
  BY <1>6, <1>s, <1>r DEF Drain
<1>7. ASSUME NEW c \in Channels, DrainTimeout(c) PROVE NothingSkipped'
  BY <1>7, <1>s, <1>r DEF DrainTimeout
<1>8. ASSUME NEW b \in Batches, StartBatch(b) PROVE NothingSkipped'
  <2>1. \A d \in Batches : batch'[d].next = batch[d].next
    BY <1>8, <1>t DEF StartBatch, BatchRecords
  <2> QED
    BY <1>8, <2>1, <1>s DEF StartBatch
<1>9. ASSUME NEW b \in Batches, WriteMessage(b) PROVE NothingSkipped'
  <2> DEFINE m == batch[b].next
             w == IF written[b][m] < 2 THEN written[b][m] + 1 ELSE written[b][m]
  <2>1. PICK c \in Channels : Writes(b, c)
    BY <1>9, WriteCases
  <2>2. m \in Messages
    BY <1>9, WriteCases
  <2>3. CASE batch' = [batch EXCEPT ![b].pc = "failed"] /\ UNCHANGED written
    <3>1. \A d \in Batches : batch'[d].next = batch[d].next
      BY <2>3, <1>t DEF BatchRecords
    <3> QED
      BY <2>3, <3>1, <1>s
  <2>4. CASE written' = [written EXCEPT ![b][m] = IF @ < 2 THEN @ + 1 ELSE @]
    <3>1. written[b][m] \in 0 .. 2
      BY <1>t, <2>2
    <3>2. w \in 1 .. 2
      BY <3>1
    <3>3. written' = [written EXCEPT ![b] = [written[b] EXCEPT ![m] = w]]
      BY <2>4, <2>2, <1>t
    <3>4. \A d \in Batches, k \in Messages : written[d][k] > 0 => written'[d][k] > 0
      <4> HIDE DEF w, m
      <4> QED
        BY <1>t, <2>2, <3>2, <3>3
    <3>5. written'[b][m] > 0
      <4> HIDE DEF w, m
      <4> QED
        BY <1>t, <2>2, <3>2, <3>3
    <3>6. \A d \in Batches : \/ batch'[d].next = batch[d].next
                             \/ d = b /\ batch'[d].next = m + 1
      <4>1. CASE batch' = Accepted(b, m)
        BY <4>1, <1>t DEF Accepted, BatchRecords
      <4>2. CASE \E ch : WaitForAnyDrain(b, ch)
        BY <4>2, <1>w
      <4>3. CASE batch' = [batch EXCEPT ![b].pc = "failed"]
        BY <4>3, <1>t DEF BatchRecords
      <4> QED
        BY <2>1, <4>1, <4>2, <4>3, Zenon DEF Writes
    <3>7. m \in Nat /\ Messages \subseteq Nat
      BY <2>2 DEF Messages
    <3> SUFFICES ASSUME NEW d \in Batches, NEW k \in Messages, k < batch'[d].next
                 PROVE  written'[d][k] > 0
      BY DEF NothingSkipped
    <3> HIDE DEF m
    <3>8. CASE k < batch[d].next
      BY <3>4, <3>8 DEF NothingSkipped
    <3>9. CASE ~(k < batch[d].next)
      <4>1. d = b /\ k < m + 1
        BY <3>6, <3>9
      <4>2. ~(k < m)
        BY <3>9, <4>1 DEF m
      <4>3. k = m
        BY <3>7, <4>1, <4>2
      <4> QED
        BY <3>5, <4>1, <4>3
    <3> QED
      BY <3>8, <3>9
  <2> QED
    BY <2>1, <2>3, <2>4, Zenon DEF Writes
<1>10. ASSUME NEW b \in Batches, FindNoChannel(b) PROVE NothingSkipped'
  BY <1>10, <1>s, <1>w DEF FindNoChannel
<1>11. ASSUME NEW b \in Batches, MeetHole(b) \/ Resume(b) \/ FinishBatch(b) PROVE NothingSkipped'
  <2>1. \A d \in Batches : batch'[d].next = batch[d].next
    BY <1>11, <1>t DEF MeetHole, Resume, Retried, FinishBatch, BatchRecords
  <2> QED
    BY <1>11, <2>1, <1>s DEF MeetHole, Resume, FinishBatch
<1>12. CASE UNCHANGED vars
  BY <1>12, <1>k
<1> QED
  BY <1>1, <1>2, <1>3, <1>4, <1>5, <1>6, <1>7, <1>8, <1>9, <1>10, <1>11, <1>12 DEF Next, BatchStep

-----------------------------------------------------------------------------
(* Who waits is woken.                                                     *)

\* A drain promise that is dropped is resolved in the same step, and a batch begins to
\* wait only for drains that are pending.
LEMMA WakesWaiters == TypeOK /\ WaitersWillWake /\ [Next]_vars => WaitersWillWake'
<1> SUFFICES ASSUME TypeOK, WaitersWillWake, [Next]_vars PROVE WaitersWillWake'
  OBVIOUS
<1> USE DEF vars, pool, faults
<1>t. /\ batch \in [Batches -> BatchRecords]
      /\ channel \in [Channels -> ChannelRecords]
  BY DEF TypeOK, BatchRecords, ChannelRecords
<1>k. ASSUME UNCHANGED <<batch, channel>> PROVE WaitersWillWake'
  BY <1>k DEF WaitersWillWake
<1>s. ASSUME \A c \in Channels : channel[c].draining => channel'[c].draining,
             \A d \in Batches : batch'[d].pc = "waiting" => batch'[d] = batch[d]
      PROVE  WaitersWillWake'
  BY <1>s, <1>t DEF WaitersWillWake, BatchRecords
<1>d. ASSUME NEW c \in Channels,
             \A e \in Channels \ {c} : channel[e].draining => channel'[e].draining,
             batch' = Resolved(c)
      PROVE  WaitersWillWake'
  <2> SUFFICES ASSUME NEW d \in Batches, batch'[d].pc = "waiting"
               PROVE  \E e \in batch'[d].drains : channel'[e].draining
    BY DEF WaitersWillWake
  <2>1. batch'[d] = batch[d] /\ c \notin batch[d].drains
    <3>1. CASE batch[d].pc = "waiting" /\ c \in batch[d].drains
      BY <1>d, <1>t, <3>1 DEF Resolved, BatchRecords
    <3>2. CASE ~(batch[d].pc = "waiting" /\ c \in batch[d].drains)
      BY <1>d, <1>t, <3>2 DEF Resolved
    <3> QED
      BY <3>1, <3>2
  <2>2. PICK e \in batch[d].drains : channel[e].draining
    BY <2>1 DEF WaitersWillWake
  <2>3. e \in Channels \ {c}
    BY <1>t, <2>1, <2>2 DEF BatchRecords
  <2> QED
    BY <1>d, <2>1, <2>2, <2>3
<1>w. ASSUME NEW b \in Batches, WaitForAnyDrain(b, channel'),
             \A c \in Channels : channel[c].draining => channel'[c].draining
      PROVE  WaitersWillWake'
  <2> SUFFICES ASSUME NEW d \in Batches, batch'[d].pc = "waiting"
               PROVE  \E e \in batch'[d].drains : channel'[e].draining
    BY DEF WaitersWillWake
  <2>1. CASE d # b
    <3>1. batch'[d] = batch[d]
      BY <1>w, <1>t, <2>1 DEF WaitForAnyDrain
    <3> QED
      BY <1>w, <1>t, <3>1 DEF WaitersWillWake, BatchRecords
  <2>2. CASE d = b
    <3> DEFINE p == IF Holes # {} THEN "threw" ELSE IF Draining(channel') = {} THEN "resolved" ELSE "waiting"
               D == IF Holes # {} THEN {} ELSE Draining(channel')
    <3>1. batch' = [batch EXCEPT ![b] = [batch[b] EXCEPT !.pc = p, !.drains = D]]
      BY <1>w, <1>t DEF WaitForAnyDrain
    <3>2. batch'[b].pc = p /\ batch'[b].drains = D
      <4> HIDE DEF p, D
      <4> QED
        BY <1>t, <3>1 DEF BatchRecords
    <3>3. Holes = {} /\ Draining(channel') # {}
      BY <2>2, <3>2
    <3>4. batch'[b].drains = Draining(channel')
      BY <3>2, <3>3
    <3>5. \A e \in Draining(channel') : channel'[e].draining
      BY DEF Draining
    <3> QED
      BY <2>2, <3>3, <3>4, <3>5
  <2> QED
    BY <2>1, <2>2
<1>1. CASE Initialize
  BY <1>1, <1>k DEF Initialize
<1>2. CASE ShutDown
  BY <1>2, <1>k DEF ShutDown
<1>3. ASSUME NEW s \in Sockets, OpenStep(s) \/ ConnectionCloses(s) \/ AbandonedCloses(s)
      PROVE  WaitersWillWake'
  BY <1>3, <1>k, OpenKeepsBatches DEF ConnectionCloses, AbandonedCloses
<1>4. ASSUME NEW i \in Conns, Reconnect(i) PROVE WaitersWillWake'
  BY <1>4, <1>k DEF Reconnect
<1>5. ASSUME NEW c \in Channels, ChannelCloses(c) PROVE WaitersWillWake'
  <2>1. \A e \in Channels : channel[e].draining => channel'[e].draining
    BY <1>5, <1>t DEF ChannelCloses, ChannelRecords
  <2> QED
    BY <1>5, <2>1, <1>s DEF ChannelCloses
<1>6. ASSUME NEW c \in Channels, Drain(c) PROVE WaitersWillWake'
  <2>1. \A e \in Channels \ {c} : channel[e].draining => channel'[e].draining
    BY <1>6, <1>t DEF Drain, ChannelRecords
  <2>2. CASE channel[c].draining
    BY <1>6, <2>1, <2>2, <1>d DEF Drain
  <2>3. CASE ~channel[c].draining
    BY <1>6, <2>1, <2>3, <1>s DEF Drain
  <2> QED
    BY <2>2, <2>3
<1>7. ASSUME NEW c \in Channels, DrainTimeout(c) PROVE WaitersWillWake'
  <2>1. \A e \in Channels \ {c} : channel[e].draining => channel'[e].draining
    BY <1>7, <1>t DEF DrainTimeout, ChannelRecords
  <2> QED
    BY <1>7, <2>1, <1>d DEF DrainTimeout
<1>8. ASSUME NEW b \in Batches, StartBatch(b) PROVE WaitersWillWake'
  <2>1. \A d \in Batches : batch'[d].pc = "waiting" => batch'[d] = batch[d]
    BY <1>8, <1>t DEF StartBatch, BatchRecords
  <2> QED
    BY <1>8, <2>1, <1>s DEF StartBatch
<1>9. ASSUME NEW b \in Batches, WriteMessage(b) PROVE WaitersWillWake'
  <2>1. PICK c \in Channels : Writes(b, c)
    BY <1>9, WriteCases
  <2>2. \A e \in Channels : channel[e].draining => channel'[e].draining
    BY <1>t, <2>1 DEF Writes, ChannelRecords
  <2>3. batch[b].pc = "running"
    BY <1>9 DEF WriteMessage
  <2>4. CASE batch' = [batch EXCEPT ![b].pc = "failed"] \/ batch' = Accepted(b, batch[b].next)
    <3>1. \A d \in Batches : batch'[d].pc = "waiting" => batch'[d] = batch[d]
      BY <1>t, <2>3, <2>4 DEF Accepted, BatchRecords
    <3> QED
      BY <2>2, <3>1, <1>s
  <2>5. CASE WaitForAnyDrain(b, channel')
    BY <2>2, <2>5, <1>w
  <2> QED
    BY <2>1, <2>4, <2>5, Zenon DEF Writes
<1>10. ASSUME NEW b \in Batches, FindNoChannel(b) PROVE WaitersWillWake'
  <2>1. WaitForAnyDrain(b, channel')
    BY <1>10 DEF FindNoChannel
  <2> QED
    BY <1>10, <2>1, <1>w DEF FindNoChannel
<1>11. ASSUME NEW b \in Batches, MeetHole(b) \/ Resume(b) \/ FinishBatch(b) PROVE WaitersWillWake'
  <2>1. \A d \in Batches : batch'[d].pc = "waiting" => batch'[d] = batch[d]
    BY <1>11, <1>t DEF MeetHole, Resume, Retried, FinishBatch, BatchRecords
  <2>2. UNCHANGED channel
    BY <1>11 DEF MeetHole, Resume, FinishBatch
  <2> QED
    BY <2>1, <2>2, <1>s
<1>12. CASE UNCHANGED vars
  BY <1>12, <1>k
<1> QED
  BY <1>1, <1>2, <1>3, <1>4, <1>5, <1>6, <1>7, <1>8, <1>9, <1>10, <1>11, <1>12 DEF Next, BatchStep

-----------------------------------------------------------------------------
(* Every connection has one owner, when initialize is called once.         *)

Live(s) == socket[s].state \in {"connecting", "opening", "alive"}

\* Sockets are used in the order of their numbers, so that the next one is unused.
UsedInOrder == \E k \in Nat : \A s \in Sockets : socket[s].state # "unused" <=> s <= k

\* Connection i is not given up.
Owned(i) == reconnects[i] = 1 \/ \E s \in Sockets : Live(s) /\ socket[s].index = i

\* What the events of one connection rely on: it is alive, being opened or waiting for its
\* timer, one of them only, and nothing happens to it before initialize.
OneOwner ==
  /\ initCount = 0 => \A i \in Conns : reconnects[i] = 0
  /\ initCount = 0 => \A s \in Sockets : socket[s].state = "unused"
  /\ \A i \in Conns : reconnects[i] <= 1
  /\ \A s \in Sockets : Live(s) => reconnects[socket[s].index] = 0
  /\ \A s, t \in Sockets : Live(s) /\ Live(t) /\ socket[s].index = socket[t].index => s = t

NoneGivenUp == initCount > 0 /\ ~closing => \A i \in Conns : Owned(i)

OwnerInv == TypeOK /\ UsedInOrder /\ OneOwner /\ NoneGivenUp /\ LiveConnectionsHeld

LEMMA OpenedIsLast ==
  ASSUME NEW k \in Nat, \A s \in Sockets : socket[s].state # "unused" <=> s <= k
  PROVE  \A s \in Sockets : socket[s].state # "unused" <=> s <= Opened
<1> DEFINE used == {s \in Sockets : socket[s].state # "unused"}
           n == IF k < MaxSockets THEN k ELSE MaxSockets
<1>1. n \in Nat /\ used = 1 .. n
  BY ConstantFacts DEF Sockets
<1>2. Cardinality(1 .. n) = n
  <2> HIDE DEF n
  <2> QED
    BY <1>1, FS_Interval
<1>3. Opened = n
  BY <1>1, <1>2 DEF Opened
<1> QED
  BY <1>3, ConstantFacts DEF Sockets

LEMMA InitOwner == Init => OwnerInv
<1> SUFFICES ASSUME Init PROVE OwnerInv
  OBVIOUS
<1>1. TypeOK
  BY InitTypes
<1>2. \A s \in Sockets : socket[s].state = "unused"
  BY DEF Init
<1>3. UsedInOrder
  <2>1. \A s \in Sockets : socket[s].state # "unused" <=> s <= 0
    BY <1>2 DEF Sockets
  <2> QED
    BY <2>1 DEF UsedInOrder
<1>4. OneOwner
  BY <1>2 DEF Init, OneOwner, Live
<1>5. LiveConnectionsHeld
  BY <1>2 DEF LiveConnectionsHeld
<1>6. NoneGivenUp
  BY DEF Init, NoneGivenUp
<1> QED
  BY <1>1, <1>3, <1>4, <1>5, <1>6 DEF OwnerInv

LEMMA KeepsOneOwner ==
  ASSUME MaxInits = 1
  PROVE  OwnerInv /\ [Next]_vars => OwnerInv'
<1> SUFFICES ASSUME OwnerInv, [Next]_vars PROVE OwnerInv'
  OBVIOUS
<1> USE DEF vars, pool, faults
<1>i. TypeOK /\ UsedInOrder /\ OneOwner /\ NoneGivenUp /\ LiveConnectionsHeld
  BY DEF OwnerInv
<1>p. TypeOK'
  BY <1>i, NextTypes
<1>t. /\ socket \in [Sockets -> [index : Conns, state : SocketStates]]
      /\ reconnects \in [Conns -> Nat]
      /\ connections \in [Conns -> Sockets \cup {NoSocket}]
      /\ initCount \in 0 .. 1
  BY <1>i DEF TypeOK
<1>o. \A s \in Sockets : socket[s].state # "unused" <=> s <= Opened
  BY <1>i, OpenedIsLast DEF UsedInOrder
<1>n. Opened \in Nat
  BY OpenedNat
<1>k. ASSUME UNCHANGED <<socket, reconnects, connections, initCount, closing>> PROVE OwnerInv'
  BY <1>k, <1>i, <1>p DEF OwnerInv, UsedInOrder, OneOwner, NoneGivenUp, Owned, LiveConnectionsHeld, Live
<1>u. ASSUME \A s \in Sockets : socket'[s].state # "unused" <=> socket[s].state # "unused"
      PROVE  UsedInOrder'
  BY <1>u, <1>i DEF UsedInOrder
<1>q. ASSUME NEW s \in Sockets, socket[s].state # "unused" PROVE initCount = 1
  BY <1>q, <1>i, <1>t DEF OneOwner
<1>1. CASE Initialize
  <2>1. initCount = 0 /\ initCount' = 1
    BY <1>1, <1>t DEF Initialize
  <2>2. \A s \in Sockets : ~(s <= Opened)
    BY <2>1, <1>i, <1>o DEF OneOwner
  <2>3. \A s \in Sockets : s > Opened /\ s \in Nat
    BY <2>2, <1>n, ConstantFacts DEF Sockets
  <2> DEFINE next == Opened + 1 .. Opened + ConnectionCount
             index == [s \in next |-> s - Opened]
  <2>4. Opening(index) /\ UNCHANGED <<reconnects, connections>>
    BY <1>1 DEF Initialize
  <2>5. \A s \in Sockets : /\ s \in next => socket'[s].index = s - Opened /\ socket'[s].state = "connecting"
                           /\ s \notin next => socket'[s].state = "unused"
    <3> SUFFICES ASSUME NEW s \in Sockets
                 PROVE  /\ s \in next => socket'[s].index = s - Opened /\ socket'[s].state = "connecting"
                        /\ s \notin next => socket'[s].state = "unused"
      OBVIOUS
    <3>1. socket'[s] = IF s \in next THEN [index |-> s - Opened, state |-> "connecting"] ELSE socket[s]
      BY <2>4 DEF Opening
    <3>2. socket[s].state = "unused"
      BY <2>1, <1>i DEF OneOwner
    <3> HIDE DEF next
    <3>3. CASE s \in next
      BY <3>1, <3>3
    <3>4. CASE s \notin next
      BY <3>1, <3>2, <3>4
    <3> QED
      BY <3>3, <3>4
  <2>6. UsedInOrder'
    <3>1. Opened + ConnectionCount \in Nat
      BY <1>n, ConstantFacts
    <3>2. \A s \in Sockets : socket'[s].state # "unused" <=> s <= Opened + ConnectionCount
      <4>1. \A s \in Sockets : s \in next <=> s <= Opened + ConnectionCount
        BY <2>3, <1>n, ConstantFacts
      <4> HIDE DEF next
      <4> QED
        BY <4>1, <2>5
    <3> QED
      BY <3>1, <3>2 DEF UsedInOrder
  <2>7. \A s \in Sockets : Live(s)' => s \in next /\ socket'[s].index = s - Opened
    <3> HIDE DEF next
    <3> QED
      BY <2>5 DEF Live
  <2>8. OneOwner'
    <3>1. \A s, t \in Sockets : Live(s)' /\ Live(t)' /\ socket'[s].index = socket'[t].index => s = t
      BY <2>7, <2>3, <1>n
    <3>2. \A i \in Conns : reconnects'[i] = 0
      BY <2>4, <2>1, <1>i DEF OneOwner
    <3>3. \A s \in Sockets : Live(s)' => socket'[s].index \in Conns
      BY <2>7, <2>3, <1>n, ConstantFacts DEF Conns
    <3> QED
      BY <2>1, <3>1, <3>2, <3>3 DEF OneOwner
  <2>9. LiveConnectionsHeld'
    <3> HIDE DEF next
    <3> QED
      BY <2>5 DEF LiveConnectionsHeld
  <2>10. NoneGivenUp'
    <3> SUFFICES ASSUME NEW i \in Conns PROVE \E s \in Sockets : Live(s)' /\ socket'[s].index = i
      BY DEF NoneGivenUp, Owned
    <3>1. PICK s \in next : s - Opened = i
      <4>1. Opened + i \in next /\ (Opened + i) - Opened = i
        BY <1>n, ConstantFacts DEF Conns
      <4> HIDE DEF next
      <4> QED
        BY <4>1
    <3>2. s \in Sockets
      BY <2>4, <3>1 DEF Opening
    <3> HIDE DEF next
    <3>3. Live(s)' /\ socket'[s].index = i
      BY <2>5, <3>1, <3>2 DEF Live
    <3> QED
      BY <3>2, <3>3
  <2> QED
    BY <1>p, <2>6, <2>8, <2>9, <2>10 DEF OwnerInv
<1>2. CASE ShutDown
  <2>1. \A s \in Sockets : \/ socket'[s] = socket[s]
                           \/ socket'[s].state = "shut" /\ socket[s].state = "alive"
    BY <1>2, <1>t DEF ShutDown, AliveIn
  <2>2. UNCHANGED <<reconnects, connections, initCount>>
    BY <1>2 DEF ShutDown
  <2>3. UsedInOrder'
    BY <2>1, <1>u
  <2>4. \A s \in Sockets : Live(s)' => Live(s) /\ socket'[s] = socket[s]
    BY <2>1 DEF Live
  <2>5. OneOwner'
    BY <2>1, <2>2, <2>4, <1>i DEF OneOwner
  <2>6. LiveConnectionsHeld'
    BY <2>1, <2>2, <1>i DEF LiveConnectionsHeld
  <2>7. NoneGivenUp'
    BY <1>2 DEF ShutDown, NoneGivenUp
  <2> QED
    BY <1>p, <2>3, <2>5, <2>6, <2>7 DEF OwnerInv
<1>3. ASSUME NEW s \in Sockets, Connected(s) \/ AbandonedCloses(s) PROVE OwnerInv'
  <2>0. PICK state \in {"opening", "closed"} :
          /\ socket' = [socket EXCEPT ![s] = [socket[s] EXCEPT !.state = state]]
          /\ \/ socket[s].state = "connecting" /\ state = "opening"
             \/ socket[s].state = "abandoned" /\ state = "closed"
          /\ UNCHANGED <<connections, reconnects, initCount, closing>>
    <3>1. CASE Connected(s)
      BY <3>1, <1>t DEF Connected
    <3>2. CASE AbandonedCloses(s)
      BY <3>2, <1>t DEF AbandonedCloses
    <3> QED
      BY <1>3, <3>1, <3>2
  <2>1. /\ \A r \in Sockets : /\ socket'[r].index = socket[r].index
                              /\ r # s => socket'[r].state = socket[r].state
        /\ socket'[s].state = state
        /\ UNCHANGED <<connections, reconnects, initCount, closing>>
    BY <2>0, <1>t
  <2>2. UsedInOrder'
    BY <2>0, <2>1, <1>u
  <2>3. \A r \in Sockets : Live(r)' <=> Live(r)
    BY <2>0, <2>1 DEF Live
  <2>4. OneOwner'
    <3>1. initCount' = 1
      BY <2>0, <2>1, <1>q
    <3>2. \A r \in Sockets : Live(r)' => reconnects'[socket'[r].index] = 0
      BY <2>1, <2>3, <1>i DEF OneOwner
    <3>3. \A r, t \in Sockets : Live(r)' /\ Live(t)' /\ socket'[r].index = socket'[t].index => r = t
      BY <2>1, <2>3, <1>i DEF OneOwner
    <3> QED
      BY <2>1, <3>1, <3>2, <3>3, <1>i DEF OneOwner
  <2>5. NoneGivenUp'
    BY <2>1, <2>3, <1>i DEF NoneGivenUp, Owned
  <2>6. LiveConnectionsHeld'
    BY <2>0, <2>1, <1>i DEF LiveConnectionsHeld
  <2> QED
    BY <1>p, <2>2, <2>4, <2>5, <2>6 DEF OwnerInv
<1>9. ASSUME NEW s \in Sockets, ChannelsCreated(s) PROVE OwnerInv'
  <2>1. /\ socket[s].state = "opening" /\ Live(s)
        /\ socket' = [socket EXCEPT ![s] = [socket[s] EXCEPT !.state = "alive"]]
        /\ connections' = [connections EXCEPT ![socket[s].index] = s]
        /\ UNCHANGED <<reconnects, initCount, closing>>
    BY <1>9, <1>t DEF ChannelsCreated, Stored, Live
  <2>2. \A r \in Sockets : /\ socket'[r].index = socket[r].index
                           /\ r # s => socket'[r].state = socket[r].state
    BY <2>1, <1>t
  <2>3. socket'[s].state = "alive"
    BY <2>1, <1>t
  <2>4. UsedInOrder'
    BY <2>1, <2>2, <2>3, <1>u
  <2>5. \A r \in Sockets : Live(r)' <=> Live(r)
    BY <2>1, <2>2, <2>3 DEF Live
  <2>6. OneOwner'
    BY <2>1, <2>2, <2>5, <1>i, <1>q DEF OneOwner
  <2>8. NoneGivenUp'
    BY <2>1, <2>2, <2>5, <1>i DEF NoneGivenUp, Owned
  <2>7. LiveConnectionsHeld'
    <3> SUFFICES ASSUME NEW r \in Sockets, socket'[r].state = "alive"
                 PROVE  connections'[socket'[r].index] = r
      BY DEF LiveConnectionsHeld
    <3>1. CASE r = s
      BY <2>1, <2>2, <3>1, <1>t
    <3>2. CASE r # s
      <4>1. socket[r].state = "alive" /\ Live(r)
        BY <2>2, <3>2 DEF Live
      <4>2. socket[r].index # socket[s].index
        BY <4>1, <2>1, <3>2, <1>i DEF OneOwner
      <4> QED
        BY <4>1, <4>2, <2>1, <2>2, <1>t, <1>i DEF LiveConnectionsHeld
    <3> QED
      BY <3>1, <3>2
  <2> QED
    BY <1>p, <2>4, <2>6, <2>7, <2>8 DEF OwnerInv
<1>4. ASSUME NEW s \in Sockets, ConnectFailed(s) \/ CreateChannelFailed(s) \/ ConnectionCloses(s)
      PROVE  OwnerInv'
  <2>1. PICK state \in {"closed", "abandoned"} :
          /\ Live(s)
          /\ socket' = [socket EXCEPT ![s] = [socket[s] EXCEPT !.state = state]]
          /\ reconnects' = (IF closing THEN reconnects ELSE Reconnecting(socket[s].index))
          /\ UNCHANGED <<connections, initCount, closing>>
    <3>1. CASE ConnectFailed(s)
      BY <3>1, <1>t DEF ConnectFailed, Caught, Live
    <3>2. CASE CreateChannelFailed(s)
      BY <3>2, <1>t DEF CreateChannelFailed, Caught, Live
    <3>3. CASE ConnectionCloses(s)
      BY <3>3, <1>t DEF ConnectionCloses, Live
    <3> QED
      BY <1>4, <3>1, <3>2, <3>3
  <2>2. \A i \in Conns : \/ reconnects'[i] = reconnects[i] /\ (closing \/ i # socket[s].index)
                         \/ i = socket[s].index /\ reconnects'[i] = reconnects[i] + 1
    BY <2>1, <1>t DEF Reconnecting
  <2>3. \A r \in Sockets : /\ socket'[r].index = socket[r].index
                           /\ r # s => socket'[r].state = socket[r].state
    BY <2>1, <1>t
  <2>4. socket'[s].state \in {"closed", "abandoned"} /\ socket[s].state # "unused"
    BY <2>1, <1>t DEF Live
  <2>5. UsedInOrder'
    BY <2>3, <2>4, <1>u
  <2>6. \A r \in Sockets : Live(r)' => Live(r) /\ r # s
    BY <2>3, <2>4 DEF Live
  <2>7. \A r \in Sockets : Live(r)' => socket[r].index # socket[s].index
    BY <2>1, <2>6, <1>i DEF OneOwner
  <2>8. OneOwner'
    <3>1. initCount' = 1
      BY <2>1, <2>4, <1>q
    <3>2. \A i \in Conns : reconnects'[i] <= 1
      BY <2>1, <2>2, <1>i, <1>t DEF OneOwner
    <3>3. \A r \in Sockets : Live(r)' => reconnects'[socket'[r].index] = 0
      BY <2>2, <2>3, <2>6, <2>7, <1>i, <1>t DEF OneOwner
    <3>4. \A r, t \in Sockets : Live(r)' /\ Live(t)' /\ socket'[r].index = socket'[t].index => r = t
      BY <2>3, <2>6, <1>i DEF OneOwner
    <3> QED
      BY <3>1, <3>2, <3>3, <3>4 DEF OneOwner
  <2>9. LiveConnectionsHeld'
    BY <2>1, <2>3, <2>4, <1>i DEF LiveConnectionsHeld
  <2>10. NoneGivenUp'
    <3> SUFFICES ASSUME initCount' > 0, ~closing', NEW i \in Conns PROVE Owned(i)'
      BY DEF NoneGivenUp
    <3>1. Owned(i) /\ ~closing
      BY <2>1, <1>i DEF NoneGivenUp
    <3>2. CASE i = socket[s].index
      <4>1. reconnects[i] = 0
        BY <2>1, <3>2, <1>i DEF OneOwner
      <4> QED
        BY <2>2, <3>1, <3>2, <4>1 DEF Owned
    <3>3. CASE i # socket[s].index
      <4>1. reconnects'[i] = reconnects[i]
        BY <2>2, <3>3
      <4>2. \A r \in Sockets : Live(r) /\ r # s => Live(r)'
        BY <2>3 DEF Live
      <4> QED
        BY <2>3, <3>1, <3>3, <4>1, <4>2 DEF Owned
    <3> QED
      BY <3>2, <3>3
  <2> QED
    BY <1>p, <2>5, <2>8, <2>9, <2>10 DEF OwnerInv
<1>5. ASSUME NEW i \in Conns, Reconnect(i) PROVE OwnerInv'
  <2>1. /\ reconnects[i] = 1
        /\ reconnects' = [reconnects EXCEPT ![i] = 0]
        /\ UNCHANGED <<connections, initCount, closing>>
    <3>1. reconnects[i] = 1
      BY <1>5, <1>i, <1>t DEF Reconnect, OneOwner
    <3>2. reconnects' = [reconnects EXCEPT ![i] = 0]
      BY <1>5, <3>1 DEF Reconnect
    <3>3. UNCHANGED <<connections, initCount, closing>>
      BY <1>5 DEF Reconnect
    <3> QED
      BY <3>1, <3>2, <3>3
  <2>2. initCount = 1
    BY <2>1, <1>i, <1>t DEF OneOwner
  <2>3. CASE closing /\ UNCHANGED socket
    <3>1. UsedInOrder' /\ LiveConnectionsHeld'
      BY <2>1, <2>3, <1>i DEF UsedInOrder, LiveConnectionsHeld
    <3>2. OneOwner'
      BY <2>1, <2>2, <2>3, <1>i, <1>t DEF OneOwner, Live
    <3>3. NoneGivenUp'
      BY <2>1, <2>3 DEF NoneGivenUp
    <3> QED
      BY <1>p, <3>1, <3>2, <3>3 DEF OwnerInv
  <2>4. CASE Opening([s \in {Opened + 1} |-> i])
    <3>1. \A s \in Sockets : socket'[s] = IF s = Opened + 1 THEN [index |-> i, state |-> "connecting"]
                                          ELSE socket[s]
      BY <2>4 DEF Opening
    <3>2. \A s \in Sockets : s = Opened + 1 => socket[s].state = "unused"
      BY <1>n, <1>o
    <3>3. UsedInOrder'
      <4>1. \A s \in Sockets : socket'[s].state # "unused" <=> s <= Opened + 1
        BY <1>n, <1>o, <3>1 DEF Sockets
      <4> QED
        BY <4>1, <1>n DEF UsedInOrder
    <3>4. \A s \in Sockets : Live(s) => socket[s].index # i
      BY <2>1, <1>i DEF OneOwner
    <3>5. \A s \in Sockets : Live(s)' => \/ s = Opened + 1 /\ socket'[s].index = i
                                         \/ Live(s) /\ socket'[s] = socket[s]
      BY <3>1 DEF Live
    <3>6. OneOwner'
      <4>1. \A j \in Conns : reconnects'[j] <= 1
        BY <2>1, <1>i, <1>t DEF OneOwner
      <4>2. \A s \in Sockets : Live(s)' => reconnects'[socket'[s].index] = 0
        BY <2>1, <3>5, <1>i, <1>t DEF OneOwner
      <4>3. \A s, t \in Sockets : Live(s)' /\ Live(t)' /\ socket'[s].index = socket'[t].index => s = t
        BY <3>4, <3>5, <1>i DEF OneOwner
      <4> QED
        BY <2>1, <2>2, <4>1, <4>2, <4>3 DEF OneOwner
    <3>7. LiveConnectionsHeld'
      BY <2>1, <3>1, <1>i DEF LiveConnectionsHeld
    <3>8. NoneGivenUp'
      <4> SUFFICES ASSUME initCount' > 0, ~closing', NEW j \in Conns PROVE Owned(j)'
        BY DEF NoneGivenUp
      <4>1. Owned(j)
        BY <2>1, <1>i DEF NoneGivenUp
      <4>2. Opened + 1 \in Sockets
        BY <2>4 DEF Opening
      <4>3. CASE j = i
        BY <3>1, <4>2, <4>3 DEF Owned, Live
      <4>4. CASE j # i
        <5>1. reconnects'[j] = reconnects[j]
          BY <2>1, <4>4, <1>t
        <5>2. \A s \in Sockets : Live(s) => socket'[s] = socket[s]
          BY <3>1, <3>2 DEF Live
        <5> QED
          BY <4>1, <5>1, <5>2 DEF Owned, Live
      <4> QED
        BY <4>3, <4>4
    <3> QED
      BY <1>p, <3>3, <3>6, <3>7, <3>8 DEF OwnerInv
  <2> QED
    BY <1>5, <2>3, <2>4 DEF Reconnect
<1>6. ASSUME NEW c \in Channels, ChannelCloses(c) \/ Drain(c) \/ DrainTimeout(c) PROVE OwnerInv'
  BY <1>6, <1>k DEF ChannelCloses, Drain, DrainTimeout
<1>7. ASSUME NEW b \in Batches, StartBatch(b) \/ BatchStep(b) PROVE OwnerInv'
  BY <1>7, <1>k DEF StartBatch, BatchStep, WriteMessage, FindNoChannel, MeetHole, Resume, FinishBatch
<1>8. CASE UNCHANGED vars
  BY <1>8, <1>k
<1> QED
  BY <1>1, <1>2, <1>3, <1>4, <1>5, <1>6, <1>7, <1>8, <1>9 DEF Next, OpenStep

\* The sockets that are alive or being opened for one connection are none or one.
LEMMA OwnersCounted == OwnerInv => OneOwnerPerIndex
<1> SUFFICES ASSUME OwnerInv, NEW i \in Conns
             PROVE  LET owners == {s \in Sockets : /\ socket[s].index = i
                                                   /\ socket[s].state \in {"connecting", "opening", "alive"}}
                    IN /\ Cardinality(owners) + reconnects[i] <= 1
                       /\ initCount > 0 /\ ~closing => Cardinality(owners) + reconnects[i] = 1
  BY DEF OneOwnerPerIndex
<1> DEFINE owners == {s \in Sockets : /\ socket[s].index = i
                                      /\ socket[s].state \in {"connecting", "opening", "alive"}}
<1>1. /\ OneOwner /\ NoneGivenUp
      /\ reconnects[i] \in Nat /\ reconnects[i] <= 1
  BY DEF OwnerInv, TypeOK, OneOwner
<1>2. CASE owners = {}
  <2>1. Cardinality(owners) = 0
    BY <1>2, FS_EmptySet
  <2>2. initCount > 0 /\ ~closing => reconnects[i] = 1
    BY <1>1, <1>2 DEF NoneGivenUp, Owned, Live
  <2> HIDE DEF owners
  <2>3. /\ Cardinality(owners) + reconnects[i] <= 1
        /\ initCount > 0 /\ ~closing => Cardinality(owners) + reconnects[i] = 1
    BY <1>1, <2>1, <2>2
  <2> QED
    BY <2>3 DEF owners
<1>3. CASE owners # {}
  <2>1. PICK s \in owners : TRUE
    BY <1>3
  <2>2. owners = {s}
    BY <1>1, <2>1 DEF OneOwner, Live
  <2>3. Cardinality(owners) = 1
    BY <2>2, FS_Singleton
  <2>4. reconnects[i] = 0
    BY <1>1, <2>1 DEF OneOwner, Live
  <2> QED
    BY <2>3, <2>4
<1> QED
  BY <1>2, <1>3

-----------------------------------------------------------------------------
(* Theorems.                                                               *)

\* The variables of the pool and of its batches have their types.
THEOREM PoolTypes == Spec => []TypeOK
<1> QED
  BY InitTypes, NextTypes, PTL DEF Spec

\* RabbitPublisherService.handleStandardBatch: whatever drains, times out, closes or is
\* replaced while a batch waits, it never goes past a message that no channel took.
THEOREM PoolSkipsNothing == Spec => []NothingSkipped
<1>1. Init => NothingSkipped
  BY ConstantFacts DEF Init, NothingSkipped, Messages
<1> QED
  BY <1>1, PoolTypes, SkipsNothing, InitTypes, NextTypes, PTL DEF Spec

\* RabbitConnectionPool.waitForAnyDrain: a batch that waits races on a drain that is
\* pending still, so that its event or its timeout wakes it.
THEOREM PoolWakesWaiters == Spec => []WaitersWillWake
<1>1. Init => WaitersWillWake
  BY DEF Init, WaitersWillWake
<1> QED
  BY <1>1, PoolTypes, WakesWaiters, InitTypes, NextTypes, PTL DEF Spec

\* RabbitConnectionPool.openConnection: with one call of initialize an index is served once
\* and, until the process shuts down, never given up, whichever of connect and
\* createChannel fails and whatever closes.  It says nothing of a connection the catch
\* block abandoned.
THEOREM PoolOneOwner ==
  ASSUME MaxInits = 1
  PROVE  Spec => []OneOwnerPerIndex
<1> QED
  BY InitOwner, KeepsOneOwner, OwnersCounted, PTL DEF Spec

\* ... and a connection that is alive is the one in its slot, where batches write to it and
\* onModuleDestroy finds it.
THEOREM PoolHoldsLiveConnections ==
  ASSUME MaxInits = 1
  PROVE  Spec => []LiveConnectionsHeld
<1>1. OwnerInv => LiveConnectionsHeld
  BY DEF OwnerInv
<1> QED
  BY <1>1, InitOwner, KeepsOneOwner, PTL DEF Spec

=============================================================================
