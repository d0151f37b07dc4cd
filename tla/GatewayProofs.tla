---------------------------- MODULE GatewayProofs ----------------------------
(***************************************************************************)
(* Proofs about what a browser is told: of flows and bursts                *)
(* (StatusGateway), of nodes (NodeDisplay), of the receipts of the test    *)
(* consumer (TestConsumer) and of published messages (LiveUpdates), for    *)
(* every number of browsers, schemas, flows, nodes, handlers and batches.  *)
(***************************************************************************)
EXTENDS StatusGateway, LiveUpdates, NodeDisplay, TestConsumer, FiniteSetTheorems,
        SequenceTheorems, WellFoundedInduction, TLAPS

-----------------------------------------------------------------------------
(* What a steady browser shows of flows and bursts.                        *)

Events == [type : {"flow_started", "flow_stopped"}, ids : SUBSET Flows]
  \cup [type : {"test_started", "test_stopped", "burst_started", "burst_finished", "status_update"},
        ids : SUBSET Schemas]
Asked == [type : {"start_flow", "stop_flow"}, id : Flows]
  \cup [type : Starts \cup {"stop_test", "burst_test"}, id : Schemas]

GatewayTypes ==
  /\ activeTests \subseteq Schemas /\ activeFlows \subseteq Flows
  /\ preparing \in [Starts -> [Schemas -> Nat]] /\ bursts \in [Schemas -> Nat]
  /\ linked \subseteq Clients /\ steady \subseteq linked
  /\ view \in [Clients -> Views]
  /\ inbox \in [Clients -> Seq(Events)] /\ outbox \in [Clients -> Seq(Asked)]

\* The events on their way that tell of flow f, of the start and of the end of a burst.
TellsFlow(e, f) == e.type \in {"flow_started", "flow_stopped"} /\ f \in e.ids
TellsBurst(e, s) == e.type = "burst_started" /\ s \in e.ids
TellsEnd(e, s) == e.type = "burst_finished" /\ s \in e.ids

\* The last event on its way that tells of f tells what is true of it.
LastIsTrue(q, f, runs) ==
  \A i \in 1 .. Len(q) :
    TellsFlow(q[i], f) /\ (\A j \in 1 .. Len(q) : j > i => ~TellsFlow(q[j], f))
      => (runs <=> q[i].type = "flow_started")
NothingTells(q, f) == \A i \in 1 .. Len(q) : ~TellsFlow(q[i], f)

FlowFollowed(c, f) ==
  /\ LastIsTrue(inbox[c], f, f \in activeFlows)
  /\ NothingTells(inbox[c], f) => (f \in activeFlows <=> f \in view[c].activeFlowIds)

\* Of a burst that is over, the end is on its way, after its start.
EndComes(q, s) ==
  \A i \in 1 .. Len(q) : TellsBurst(q[i], s) => \E j \in 1 .. Len(q) : j > i /\ TellsEnd(q[j], s)
SomeEndComes(q, s) == \E i \in 1 .. Len(q) : TellsEnd(q[i], s)

BurstFollowed(c, s) ==
  bursts[s] = 0 => /\ EndComes(inbox[c], s)
                   /\ s \in view[c].activeBurstIds => SomeEndComes(inbox[c], s)

Followed(c) == (\A f \in Flows : FlowFollowed(c, f)) /\ (\A s \in Schemas : BurstFollowed(c, s))

GatewayInv == GatewayTypes /\ \A c \in steady : Followed(c)

LEMMA Appended ==
  ASSUME NEW S, NEW q \in Seq(S), NEW e \in S
  PROVE  /\ Append(q, e) \in Seq(S) /\ Len(Append(q, e)) = Len(q) + 1 /\ Len(q) \in Nat
         /\ Append(q, e)[Len(q) + 1] = e
         /\ \A i \in 1 .. Len(q) : Append(q, e)[i] = q[i]
         /\ \A i \in 1 .. Len(q) + 1 : i \in 1 .. Len(q) \/ i = Len(q) + 1
         /\ 1 .. Len(q) \subseteq 1 .. Len(q) + 1
OBVIOUS

LEMMA TailOf ==
  ASSUME NEW S, NEW q \in Seq(S), q # <<>>
  PROVE  /\ Tail(q) \in Seq(S) /\ Len(q) \in Nat \ {0} /\ Len(Tail(q)) = Len(q) - 1
         /\ Head(q) \in S /\ Head(q) = q[1]
         /\ \A i \in 1 .. Len(Tail(q)) : i + 1 \in 1 .. Len(q) /\ Tail(q)[i] = q[i + 1]
         /\ \A i \in 1 .. Len(q) : i = 1 \/ (i - 1 \in 1 .. Len(Tail(q)) /\ Tail(q)[i - 1] = q[i])
OBVIOUS

\* What an event at the end of the queue changes for a flow: nothing, unless it tells of it.
LEMMA FlowAppended ==
  ASSUME NEW q \in Seq(Events), NEW e \in Events, NEW f, NEW runs \in BOOLEAN, NEW runs2 \in BOOLEAN,
         LastIsTrue(q, f, runs),
         TellsFlow(e, f) => (runs2 <=> e.type = "flow_started"),
         ~TellsFlow(e, f) => (runs2 <=> runs)
  PROVE  /\ LastIsTrue(Append(q, e), f, runs2)
         /\ NothingTells(Append(q, e), f) => NothingTells(q, f) /\ ~TellsFlow(e, f)
<1> DEFINE p == Append(q, e)
           n == Len(q)
<1>1. /\ Len(p) = n + 1 /\ n \in Nat /\ p[n + 1] = e
      /\ \A i \in 1 .. n : p[i] = q[i]
      /\ \A i \in 1 .. n + 1 : i \in 1 .. n \/ i = n + 1
  BY Appended
<1> HIDE DEF p, n
<1>2. n + 1 \in 1 .. n + 1 /\ \A i \in 1 .. n : i \in 1 .. n + 1 /\ n + 1 > i
  BY <1>1
<1>3. LastIsTrue(p, f, runs2)
  <2> SUFFICES ASSUME NEW i \in 1 .. n + 1, TellsFlow(p[i], f),
                      \A j \in 1 .. n + 1 : j > i => ~TellsFlow(p[j], f)
               PROVE  runs2 <=> p[i].type = "flow_started"
    BY <1>1 DEF LastIsTrue
  <2>1. CASE i = n + 1
    BY <1>1, <2>1
  <2>2. CASE i \in 1 .. n
    <3>1. ~TellsFlow(e, f)
      BY <1>1, <1>2, <2>2
    <3>2. \A j \in 1 .. n : j > i => ~TellsFlow(q[j], f)
      BY <1>1, <1>2
    <3>3. runs <=> q[i].type = "flow_started"
      BY <1>1, <2>2, <3>2 DEF LastIsTrue, n
    <3> QED  BY <1>1, <2>2, <3>1, <3>3
  <2> QED  BY <1>1, <2>1, <2>2
<1>4. NothingTells(p, f) => NothingTells(q, f) /\ ~TellsFlow(e, f)
  BY <1>1, <1>2 DEF NothingTells, n
<1> QED  BY <1>3, <1>4 DEF p

\* What is left once the first event was taken.
LEMMA FlowTail ==
  ASSUME NEW q \in Seq(Events), q # <<>>, NEW f, NEW runs \in BOOLEAN, LastIsTrue(q, f, runs)
  PROVE  /\ LastIsTrue(Tail(q), f, runs)
         /\ NothingTells(Tail(q), f) /\ TellsFlow(Head(q), f) => (runs <=> Head(q).type = "flow_started")
         /\ NothingTells(Tail(q), f) /\ ~TellsFlow(Head(q), f) => NothingTells(q, f)
<1> DEFINE t == Tail(q)
<1>1. /\ Len(q) \in Nat \ {0} /\ Len(t) = Len(q) - 1 /\ Head(q) = q[1]
      /\ \A i \in 1 .. Len(t) : i + 1 \in 1 .. Len(q) /\ t[i] = q[i + 1]
      /\ \A i \in 1 .. Len(q) : i = 1 \/ (i - 1 \in 1 .. Len(t) /\ t[i - 1] = q[i])
  BY TailOf
<1> HIDE DEF t
<1>2. LastIsTrue(t, f, runs)
  <2> SUFFICES ASSUME NEW i \in 1 .. Len(t), TellsFlow(t[i], f),
                      \A j \in 1 .. Len(t) : j > i => ~TellsFlow(t[j], f)
               PROVE  runs <=> t[i].type = "flow_started"
    BY DEF LastIsTrue
  <2>1. \A j \in 1 .. Len(q) : j > i + 1 => ~TellsFlow(q[j], f)
    BY <1>1
  <2> QED  BY <1>1, <2>1 DEF LastIsTrue
<1>3. ASSUME NothingTells(t, f)
      PROVE  \A j \in 1 .. Len(q) : j > 1 => ~TellsFlow(q[j], f)
  BY <1>1, <1>3 DEF NothingTells
<1>4. 1 \in 1 .. Len(q)
  BY <1>1
<1>5. NothingTells(t, f) /\ TellsFlow(Head(q), f) => (runs <=> Head(q).type = "flow_started")
  BY <1>1, <1>3, <1>4 DEF LastIsTrue
<1>6. NothingTells(t, f) /\ ~TellsFlow(Head(q), f) => NothingTells(q, f)
  BY <1>1, <1>3 DEF NothingTells
<1> QED  BY <1>2, <1>5, <1>6 DEF t

\* The same for the end of a burst.
LEMMA EndAppended ==
  ASSUME NEW q \in Seq(Events), NEW e \in Events, NEW s
  PROVE  /\ TellsEnd(e, s) => EndComes(Append(q, e), s) /\ SomeEndComes(Append(q, e), s)
         /\ EndComes(q, s) /\ ~TellsBurst(e, s) => EndComes(Append(q, e), s)
         /\ SomeEndComes(q, s) => SomeEndComes(Append(q, e), s)
<1> DEFINE p == Append(q, e)
           n == Len(q)
<1>1. /\ Len(p) = n + 1 /\ n \in Nat /\ p[n + 1] = e
      /\ \A i \in 1 .. n : p[i] = q[i]
      /\ \A i \in 1 .. n + 1 : i \in 1 .. n \/ i = n + 1
  BY Appended
<1> HIDE DEF p, n
<1>2. n + 1 \in 1 .. n + 1 /\ \A i \in 1 .. n : i \in 1 .. n + 1 /\ n + 1 > i
  BY <1>1
<1>3. TellsEnd(e, s) => ~TellsBurst(e, s)
  BY DEF TellsEnd, TellsBurst
<1>4. TellsEnd(e, s) => EndComes(p, s) /\ SomeEndComes(p, s)
  BY <1>1, <1>2, <1>3 DEF EndComes, SomeEndComes
<1>5. EndComes(q, s) /\ ~TellsBurst(e, s) => EndComes(p, s)
  <2> SUFFICES ASSUME EndComes(q, s), ~TellsBurst(e, s), NEW i \in 1 .. n + 1, TellsBurst(p[i], s)
               PROVE  \E j \in 1 .. n + 1 : j > i /\ TellsEnd(p[j], s)
    BY <1>1 DEF EndComes
  <2>1. i \in 1 .. n /\ TellsBurst(q[i], s)
    BY <1>1
  <2>2. PICK j \in 1 .. n : j > i /\ TellsEnd(q[j], s)
    BY <2>1 DEF EndComes, n
  <2> QED  BY <1>1, <1>2, <2>2
<1>6. SomeEndComes(q, s) => SomeEndComes(p, s)
  BY <1>1, <1>2 DEF SomeEndComes, n
<1> QED  BY <1>4, <1>5, <1>6 DEF p

LEMMA EndTail ==
  ASSUME NEW q \in Seq(Events), q # <<>>, NEW s, EndComes(q, s)
  PROVE  /\ EndComes(Tail(q), s)
         /\ TellsBurst(Head(q), s) => SomeEndComes(Tail(q), s)
         /\ SomeEndComes(q, s) /\ ~TellsEnd(Head(q), s) => SomeEndComes(Tail(q), s)
<1> DEFINE t == Tail(q)
<1>1. /\ Len(q) \in Nat \ {0} /\ Len(t) = Len(q) - 1 /\ Head(q) = q[1]
      /\ \A i \in 1 .. Len(t) : i + 1 \in 1 .. Len(q) /\ t[i] = q[i + 1]
      /\ \A i \in 1 .. Len(q) : i = 1 \/ (i - 1 \in 1 .. Len(t) /\ t[i - 1] = q[i])
  BY TailOf
<1> HIDE DEF t
<1>2. EndComes(t, s)
  <2> SUFFICES ASSUME NEW i \in 1 .. Len(t), TellsBurst(t[i], s)
               PROVE  \E j \in 1 .. Len(t) : j > i /\ TellsEnd(t[j], s)
    BY DEF EndComes
  <2>1. PICK j \in 1 .. Len(q) : j > i + 1 /\ TellsEnd(q[j], s)
    BY <1>1 DEF EndComes
  <2>2. j - 1 \in 1 .. Len(t) /\ j - 1 > i /\ TellsEnd(t[j - 1], s)
    BY <1>1, <2>1
  <2> QED  BY <2>2
<1>3. ASSUME TellsBurst(Head(q), s) PROVE SomeEndComes(t, s)
  <2>1. PICK j \in 1 .. Len(q) : j > 1 /\ TellsEnd(q[j], s)
    BY <1>1, <1>3 DEF EndComes
  <2> QED  BY <1>1, <2>1 DEF SomeEndComes
<1>4. ASSUME SomeEndComes(q, s), ~TellsEnd(Head(q), s) PROVE SomeEndComes(t, s)
  <2>1. PICK j \in 1 .. Len(q) : TellsEnd(q[j], s)
    BY <1>4 DEF SomeEndComes
  <2> QED  BY <1>1, <1>4, <2>1 DEF SomeEndComes
<1> QED  BY <1>2, <1>3, <1>4 DEF t

-----------------------------------------------------------------------------
(* What a browser keeps of the state of the backend, step by step.         *)

LEMMA ToldView ==
  ASSUME NEW v \in Views, NEW e \in Events
  PROVE  /\ Told(v, e) \in Views
         /\ \A f \in Flows : f \in Told(v, e).activeFlowIds <=>
              IF TellsFlow(e, f) THEN e.type = "flow_started" ELSE f \in v.activeFlowIds
         /\ \A s \in Schemas : s \in Told(v, e).activeBurstIds =>
              TellsBurst(e, s) \/ (s \in v.activeBurstIds /\ ~TellsEnd(e, s))
<1>1. \A ids : Forgotten(v.pendingSchemaActions, ids) \in [Schemas -> Actions]
  BY DEF Views, Forgotten, Actions
<1>2. \A ids : Forgotten(v.pendingFlowActions, ids) \in [Flows -> Actions]
  BY DEF Views, Forgotten, Actions
<1>3. \A ids : Reconciled(v.pendingSchemaActions, ids) \in [Schemas -> Actions]
  BY DEF Views, Reconciled, Actions
<1> USE DEF TellsFlow, TellsBurst, TellsEnd
<1>4. CASE e.type \in {"test_started", "test_stopped"}
  <2>1. Told(v, e) = [v EXCEPT !.pendingSchemaActions = Forgotten(v.pendingSchemaActions, e.ids)]
    BY <1>4 DEF Told
  <2> QED  BY <1>1, <1>4, <2>1 DEF Views
<1>5. CASE e.type = "flow_started"
  <2>1. Told(v, e) = [v EXCEPT !.activeFlowIds = v.activeFlowIds \cup e.ids,
                               !.pendingFlowActions = Forgotten(v.pendingFlowActions, e.ids)]
    BY <1>5 DEF Told, Views
  <2>2. e.ids \subseteq Flows
    BY <1>5 DEF Events
  <2> QED  BY <1>2, <1>5, <2>1, <2>2 DEF Views
<1>6. CASE e.type = "flow_stopped"
  <2>1. Told(v, e) = [v EXCEPT !.activeFlowIds = v.activeFlowIds \ e.ids,
                               !.pendingFlowActions = Forgotten(v.pendingFlowActions, e.ids)]
    BY <1>6 DEF Told, Views
  <2> QED  BY <1>2, <1>6, <2>1 DEF Views
<1>7. CASE e.type = "burst_started"
  <2>1. Told(v, e) = [v EXCEPT !.activeBurstIds = v.activeBurstIds \cup e.ids]
    BY <1>7 DEF Told, Views
  <2>2. e.ids \subseteq Schemas
    BY <1>7 DEF Events
  <2> QED  BY <1>7, <2>1, <2>2 DEF Views
<1>8. CASE e.type = "burst_finished"
  <2>1. Told(v, e) = [v EXCEPT !.activeBurstIds = v.activeBurstIds \ e.ids]
    BY <1>8 DEF Told, Views
  <2> QED  BY <1>8, <2>1 DEF Views
<1>9. CASE e.type = "status_update"
  <2>1. Told(v, e) = [v EXCEPT !.activeSchemaIds = e.ids,
                               !.pendingSchemaActions = Reconciled(v.pendingSchemaActions, e.ids)]
    BY <1>9 DEF Told, Views
  <2>2. e.ids \subseteq Schemas
    BY <1>9 DEF Events
  <2>3. Reconciled(v.pendingSchemaActions, e.ids) \in [Schemas -> Actions]
    BY <1>3
  <2>4. Told(v, e) \in Views
    BY <2>1, <2>2, <2>3 DEF Views
  <2>5. /\ Told(v, e).activeFlowIds = v.activeFlowIds
        /\ Told(v, e).activeBurstIds = v.activeBurstIds
    BY <2>1 DEF Views
  <2> QED  BY <1>9, <2>4, <2>5
<1> QED  BY <1>4, <1>5, <1>6, <1>7, <1>8, <1>9 DEF Events

\* A browser about which nothing changes.
LEMMA StillFollowed ==
  ASSUME NEW c, Followed(c), inbox'[c] = inbox[c], UNCHANGED activeFlows,
         view'[c].activeFlowIds = view[c].activeFlowIds,
         view'[c].activeBurstIds = view[c].activeBurstIds,
         \A s \in Schemas : bursts'[s] = 0 => bursts[s] = 0
  PROVE  Followed(c)'
BY DEF Followed, FlowFollowed, BurstFollowed

\* A browser that is sent an event, which tells of what the backend just did.
Tells(e) ==
  /\ \A f \in Flows : IF TellsFlow(e, f) THEN f \in activeFlows' <=> e.type = "flow_started"
                                         ELSE f \in activeFlows' <=> f \in activeFlows
  /\ \A s \in Schemas : bursts'[s] = 0 => TellsEnd(e, s) \/ (~TellsBurst(e, s) /\ bursts[s] = 0)

LEMMA ToldFollowed ==
  ASSUME GatewayTypes, NEW c \in Clients, Followed(c), NEW e \in Events, Tells(e),
         inbox'[c] = Append(inbox[c], e), view'[c] = view[c]
  PROVE  Followed(c)'
<1>1. inbox[c] \in Seq(Events)
  BY DEF GatewayTypes
<1>2. ASSUME NEW f \in Flows PROVE FlowFollowed(c, f)'
  <2>1. /\ LastIsTrue(inbox[c], f, f \in activeFlows)
        /\ NothingTells(inbox[c], f) => (f \in activeFlows <=> f \in view[c].activeFlowIds)
    BY DEF Followed, FlowFollowed
  <2>2. /\ TellsFlow(e, f) => (f \in activeFlows' <=> e.type = "flow_started")
        /\ ~TellsFlow(e, f) => (f \in activeFlows' <=> f \in activeFlows)
    BY DEF Tells
  <2> DEFINE runs == f \in activeFlows
             runs2 == f \in activeFlows'
  <2>3. runs \in BOOLEAN /\ runs2 \in BOOLEAN
    OBVIOUS
  <2>4. /\ LastIsTrue(inbox[c], f, runs)
        /\ TellsFlow(e, f) => (runs2 <=> e.type = "flow_started")
        /\ ~TellsFlow(e, f) => (runs2 <=> runs)
    BY <2>1, <2>2
  <2>5. /\ LastIsTrue(Append(inbox[c], e), f, runs2)
        /\ NothingTells(Append(inbox[c], e), f) => NothingTells(inbox[c], f) /\ ~TellsFlow(e, f)
    <3> HIDE DEF runs, runs2
    <3> QED  BY <1>1, <2>3, <2>4, FlowAppended
  <2>6. LastIsTrue(inbox'[c], f, f \in activeFlows')
    BY <2>5
  <2>7. NothingTells(inbox'[c], f) => (f \in activeFlows' <=> f \in view'[c].activeFlowIds)
    BY <2>1, <2>2, <2>5
  <2> QED  BY <2>6, <2>7 DEF FlowFollowed, LastIsTrue, NothingTells, TellsFlow
<1>3. ASSUME NEW s \in Schemas PROVE BurstFollowed(c, s)'
  <2> SUFFICES ASSUME bursts'[s] = 0
               PROVE  /\ EndComes(inbox'[c], s)
                      /\ s \in view'[c].activeBurstIds => SomeEndComes(inbox'[c], s)
    BY DEF BurstFollowed, EndComes, SomeEndComes, TellsEnd, TellsBurst
  <2>1. TellsEnd(e, s) \/ (~TellsBurst(e, s) /\ bursts[s] = 0)
    BY DEF Tells
  <2>2. bursts[s] = 0 => /\ EndComes(inbox[c], s)
                         /\ s \in view[c].activeBurstIds => SomeEndComes(inbox[c], s)
    BY DEF Followed, BurstFollowed
  <2> QED  BY <1>1, <2>1, <2>2, EndAppended
<1> QED  BY <1>2, <1>3 DEF Followed

\* A step of the backend: it tells all browsers what it did, or nothing that concerns them.
LEMMA BackendKeeps ==
  ASSUME GatewayInv, GatewayTypes', UNCHANGED <<linked, view, steady>>,
         \/ /\ Silent /\ UNCHANGED activeFlows
            /\ \A s \in Schemas : bursts'[s] = 0 => bursts[s] = 0
         \/ \E e \in Events : Broadcast(e) /\ Tells(e)
  PROVE  GatewayInv'
<1> SUFFICES ASSUME NEW c \in steady PROVE Followed(c)'
  BY DEF GatewayInv
<1>1. GatewayTypes /\ c \in linked /\ c \in Clients /\ Followed(c)
  BY DEF GatewayInv, GatewayTypes
<1>2. CASE /\ Silent /\ UNCHANGED activeFlows
           /\ \A s \in Schemas : bursts'[s] = 0 => bursts[s] = 0
  BY <1>1, <1>2, StillFollowed DEF Silent
<1>3. ASSUME NEW e \in Events, Broadcast(e), Tells(e) PROVE Followed(c)'
  <2>1. inbox'[c] = Append(inbox[c], e)
    BY <1>1, <1>3 DEF Broadcast
  <2> QED  BY <1>1, <1>3, <2>1, ToldFollowed
<1> QED  BY <1>2, <1>3

-----------------------------------------------------------------------------
(* The browser's steps.                                                    *)

LEMMA GatewayStarts == GatewayInit => GatewayInv
<1> SUFFICES ASSUME GatewayInit PROVE GatewayInv
  OBVIOUS
<1>1. Idle(Schemas) \in [Schemas -> Actions] /\ Idle(Flows) \in [Flows -> Actions]
  BY DEF Idle, Actions
<1>2. GatewayTypes
  BY <1>1 DEF GatewayInit, GatewayTypes, Views
<1>3. \A c \in Clients : inbox[c] = <<>> /\ view[c].activeFlowIds = {} /\ view[c].activeBurstIds = {}
  BY DEF GatewayInit
<1>4. activeFlows = {} /\ steady = Clients
  BY DEF GatewayInit
<1>5. ASSUME NEW c \in Clients PROVE Followed(c)
  BY <1>3, <1>4, <1>5 DEF Followed, FlowFollowed, BurstFollowed, LastIsTrue, NothingTells, EndComes
<1> QED  BY <1>2, <1>4, <1>5 DEF GatewayInv

LEMMA DeliverKeeps ==
  ASSUME GatewayInv, NEW c \in Clients, Deliver(c)
  PROVE  GatewayInv'
<1> DEFINE q == inbox[c]
           e == Head(q)
           v == view[c]
<1>1. GatewayTypes /\ q \in Seq(Events) /\ q # <<>> /\ v \in Views
  BY DEF GatewayInv, GatewayTypes, Deliver
<1>2. e \in Events /\ Tail(q) \in Seq(Events)
  BY <1>1, TailOf
<1>3. /\ view' = [view EXCEPT ![c] = Told(v, e)] /\ inbox' = [inbox EXCEPT ![c] = Tail(q)]
      /\ UNCHANGED <<backendVars, linked, outbox, steady, requests, drops>>
  BY <1>1 DEF Deliver, GatewayTypes
<1>4. UNCHANGED <<activeTests, activeFlows, preparing, bursts>>
  BY <1>3 DEF backendVars
<1>5. GatewayTypes'
  BY <1>1, <1>2, <1>3, <1>4, ToldView DEF GatewayTypes
<1>6. inbox'[c] = Tail(q) /\ view'[c] = Told(v, e)
  BY <1>1, <1>3 DEF GatewayTypes
<1>7. \A b \in Clients \ {c} : inbox'[b] = inbox[b] /\ view'[b] = view[b]
  BY <1>1, <1>3 DEF GatewayTypes
<1> HIDE DEF e, v, q
<1>8. ASSUME NEW f \in Flows, FlowFollowed(c, f) PROVE FlowFollowed(c, f)'
  <2> DEFINE runs == f \in activeFlows
  <2>1. runs \in BOOLEAN /\ LastIsTrue(q, f, runs)
    BY <1>8 DEF FlowFollowed, q
  <2>2. /\ LastIsTrue(Tail(q), f, runs)
        /\ NothingTells(Tail(q), f) /\ TellsFlow(e, f) => (runs <=> e.type = "flow_started")
        /\ NothingTells(Tail(q), f) /\ ~TellsFlow(e, f) => NothingTells(q, f)
    <3> HIDE DEF runs
    <3> QED  BY <1>1, <2>1, FlowTail DEF e
  <2>3. NothingTells(q, f) => (runs <=> f \in v.activeFlowIds)
    BY <1>8 DEF FlowFollowed, q, v
  <2>4. f \in view'[c].activeFlowIds <=>
          IF TellsFlow(e, f) THEN e.type = "flow_started" ELSE f \in v.activeFlowIds
    BY <1>1, <1>2, <1>6, ToldView
  <2>5. LastIsTrue(inbox'[c], f, f \in activeFlows')
    BY <1>4, <1>6, <2>2
  <2>6. NothingTells(inbox'[c], f) => (f \in activeFlows' <=> f \in view'[c].activeFlowIds)
    BY <1>4, <1>6, <2>2, <2>3, <2>4
  <2> QED  BY <2>5, <2>6 DEF FlowFollowed, LastIsTrue, NothingTells, TellsFlow
<1>9. ASSUME NEW s \in Schemas, BurstFollowed(c, s) PROVE BurstFollowed(c, s)'
  <2> SUFFICES ASSUME bursts'[s] = 0
               PROVE  /\ EndComes(inbox'[c], s)
                      /\ s \in view'[c].activeBurstIds => SomeEndComes(inbox'[c], s)
    BY DEF BurstFollowed, EndComes, SomeEndComes, TellsEnd, TellsBurst
  <2>1. EndComes(q, s) /\ (s \in v.activeBurstIds => SomeEndComes(q, s))
    BY <1>4, <1>9 DEF BurstFollowed, q, v
  <2>2. s \in view'[c].activeBurstIds =>
          TellsBurst(e, s) \/ (s \in v.activeBurstIds /\ ~TellsEnd(e, s))
    BY <1>1, <1>2, <1>6, ToldView
  <2>3. /\ EndComes(Tail(q), s)
        /\ TellsBurst(e, s) => SomeEndComes(Tail(q), s)
        /\ SomeEndComes(q, s) /\ ~TellsEnd(e, s) => SomeEndComes(Tail(q), s)
    BY <1>1, <2>1, EndTail DEF e
  <2> QED  BY <1>6, <2>1, <2>2, <2>3
<1>10. ASSUME NEW b \in steady, b # c PROVE Followed(b)'
  BY <1>1, <1>4, <1>7, <1>10, StillFollowed DEF GatewayInv, GatewayTypes
<1>11. c \in steady => Followed(c)'
  BY <1>8, <1>9 DEF GatewayInv, Followed
<1> QED  BY <1>3, <1>5, <1>10, <1>11 DEF GatewayInv

LEMMA DisconnectKeeps ==
  ASSUME GatewayInv, NEW c \in Clients, Disconnect(c)
  PROVE  GatewayInv'
<1> DEFINE v == [view[c] EXCEPT !.activeFlowIds = {}, !.pendingSchemaActions = Idle(Schemas),
                                !.pendingFlowActions = Idle(Flows)]
<1>1. GatewayTypes /\ view[c] \in Views
  BY DEF GatewayInv, GatewayTypes
<1>2. /\ view' = [view EXCEPT ![c] = v]
      /\ inbox' = [inbox EXCEPT ![c] = <<>>] /\ outbox' = [outbox EXCEPT ![c] = <<>>]
      /\ linked' = linked \ {c} /\ steady' = steady \ {c}
      /\ UNCHANGED <<activeTests, activeFlows, preparing, bursts>>
  BY <1>1 DEF Disconnect, backendVars, GatewayTypes
<1>3. v \in Views
  <2>1. Idle(Schemas) \in [Schemas -> Actions] /\ Idle(Flows) \in [Flows -> Actions]
    BY DEF Idle, Actions
  <2> QED  BY <1>1, <2>1 DEF Views
<1> HIDE DEF v
<1>4. GatewayTypes'
  BY <1>1, <1>2, <1>3 DEF GatewayTypes
<1>5. \A b \in Clients \ {c} : inbox'[b] = inbox[b] /\ view'[b] = view[b]
  BY <1>1, <1>2 DEF GatewayTypes
<1>6. ASSUME NEW b \in steady' PROVE Followed(b)'
  BY <1>1, <1>2, <1>5, StillFollowed DEF GatewayInv, GatewayTypes
<1> QED  BY <1>4, <1>6 DEF GatewayInv

LEMMA StatusIsEvent ==
  ASSUME GatewayTypes
  PROVE  /\ StatusUpdate \in Events /\ \A f \in Flows : ~TellsFlow(StatusUpdate, f)
         /\ \A s \in Schemas : ~TellsBurst(StatusUpdate, s)
BY DEF GatewayTypes, StatusUpdate, Events, TellsFlow, TellsBurst

LEMMA ConnectKeeps ==
  ASSUME GatewayInv, NEW c \in Clients, Connect(c)
  PROVE  GatewayInv'
<1>1. GatewayTypes
  BY DEF GatewayInv
<1>2. /\ linked' = linked \cup {c} /\ inbox' = [inbox EXCEPT ![c] = <<StatusUpdate>>] /\ c \notin steady
      /\ UNCHANGED <<activeTests, activeFlows, preparing, bursts, outbox, view, steady>>
  BY <1>1 DEF Connect, backendVars, GatewayTypes
<1>3. <<StatusUpdate>> \in Seq(Events)
  BY <1>1, StatusIsEvent
<1>4. GatewayTypes'
  BY <1>1, <1>2, <1>3 DEF GatewayTypes
<1>5. \A b \in Clients \ {c} : inbox'[b] = inbox[b] /\ view'[b] = view[b]
  BY <1>1, <1>2 DEF GatewayTypes
<1>6. ASSUME NEW b \in steady' PROVE Followed(b)'
  BY <1>1, <1>2, <1>5, StillFollowed DEF GatewayInv, GatewayTypes
<1> QED  BY <1>4, <1>6 DEF GatewayInv

\* A button asks for something and shows that it waits: the browser's flows and bursts stay.
LEMMA ButtonKeeps ==
  ASSUME GatewayInv, NEW c \in Clients, NEW r \in Asked, outbox' = [outbox EXCEPT ![c] = Append(@, r)],
         NEW v \in Views, v.activeFlowIds = view[c].activeFlowIds,
         v.activeBurstIds = view[c].activeBurstIds, view' = [view EXCEPT ![c] = v],
         UNCHANGED <<activeTests, activeFlows, preparing, bursts, linked, inbox, steady>>
  PROVE  GatewayInv'
<1>1. GatewayTypes
  BY DEF GatewayInv
<1>2. GatewayTypes'
  BY <1>1 DEF GatewayTypes
<1>3. \A b \in Clients : /\ view'[b].activeFlowIds = view[b].activeFlowIds
                         /\ view'[b].activeBurstIds = view[b].activeBurstIds
  BY <1>1 DEF GatewayTypes
<1>4. ASSUME NEW b \in steady' PROVE Followed(b)'
  BY <1>1, <1>3, StillFollowed DEF GatewayInv, GatewayTypes
<1> QED  BY <1>2, <1>4 DEF GatewayInv

LEMMA EmitIs ==
  ASSUME NEW c, NEW type, NEW id, Emit(c, type, id)
  PROVE  /\ outbox' = [outbox EXCEPT ![c] = Append(@, [type |-> type, id |-> id])]
         /\ UNCHANGED <<activeTests, activeFlows, preparing, bursts, linked, inbox, steady>>
BY DEF Emit, backendVars

LEMMA TestButtonKeeps ==
  ASSUME GatewayInv, NEW c \in Clients, NEW s \in Schemas,
         (\E type \in Starts : StartTest(c, s, type)) \/ StopTest(c, s)
  PROVE  GatewayInv'
<1>1. PICK type \in Starts \cup {"stop_test"}, a \in {"starting", "stopping"} :
        Emit(c, type, s) /\ view' = [view EXCEPT ![c].pendingSchemaActions[s] = a]
  BY DEF StartTest, StopTest
<1> DEFINE v == [view[c] EXCEPT !.pendingSchemaActions = [view[c].pendingSchemaActions EXCEPT ![s] = a]]
<1>2. GatewayTypes /\ view[c] \in Views
  BY DEF GatewayInv, GatewayTypes
<1>3. /\ v \in Views /\ v.activeFlowIds = view[c].activeFlowIds
      /\ v.activeBurstIds = view[c].activeBurstIds
  BY <1>2 DEF Views, Actions
<1>4. view' = [view EXCEPT ![c] = v]
  BY <1>1, <1>2 DEF GatewayTypes
<1> DEFINE r == [type |-> type, id |-> s]
<1>5. r \in Asked
  BY DEF Asked
<1>6. /\ outbox' = [outbox EXCEPT ![c] = Append(@, r)]
      /\ UNCHANGED <<activeTests, activeFlows, preparing, bursts, linked, inbox, steady>>
  BY <1>1, EmitIs
<1> HIDE DEF v, r
<1> QED  BY <1>3, <1>4, <1>5, <1>6, ButtonKeeps

LEMMA ToggleFlowKeeps ==
  ASSUME GatewayInv, NEW c \in Clients, NEW f \in Flows, ToggleFlow(c, f)
  PROVE  GatewayInv'
<1>1. PICK type \in {"start_flow", "stop_flow"}, a \in {"starting", "stopping"} :
        Emit(c, type, f) /\ view' = [view EXCEPT ![c].pendingFlowActions[f] = a]
  BY DEF ToggleFlow
<1> DEFINE v == [view[c] EXCEPT !.pendingFlowActions = [view[c].pendingFlowActions EXCEPT ![f] = a]]
<1>2. GatewayTypes /\ view[c] \in Views
  BY DEF GatewayInv, GatewayTypes
<1>3. /\ v \in Views /\ v.activeFlowIds = view[c].activeFlowIds
      /\ v.activeBurstIds = view[c].activeBurstIds
  BY <1>2 DEF Views, Actions
<1>4. view' = [view EXCEPT ![c] = v]
  BY <1>1, <1>2 DEF GatewayTypes
<1> DEFINE r == [type |-> type, id |-> f]
<1>5. r \in Asked
  BY DEF Asked
<1>6. /\ outbox' = [outbox EXCEPT ![c] = Append(@, r)]
      /\ UNCHANGED <<activeTests, activeFlows, preparing, bursts, linked, inbox, steady>>
  BY <1>1, EmitIs
<1> HIDE DEF v, r
<1> QED  BY <1>3, <1>4, <1>5, <1>6, ButtonKeeps

LEMMA BurstButtonKeeps ==
  ASSUME GatewayInv, NEW c \in Clients, NEW s \in Schemas, BurstTest(c, s)
  PROVE  GatewayInv'
<1>1. Emit(c, "burst_test", s) /\ UNCHANGED view
  BY DEF BurstTest
<1>2. view[c] \in Views /\ view' = [view EXCEPT ![c] = view[c]]
  BY <1>1 DEF GatewayInv, GatewayTypes
<1> DEFINE r == [type |-> "burst_test", id |-> s]
<1>3. r \in Asked
  BY DEF Asked
<1>4. /\ outbox' = [outbox EXCEPT ![c] = Append(@, r)]
      /\ UNCHANGED <<activeTests, activeFlows, preparing, bursts, linked, inbox, steady>>
  BY <1>1, EmitIs
<1> HIDE DEF r
<1> QED  BY <1>2, <1>3, <1>4, ButtonKeeps

-----------------------------------------------------------------------------
(* The backend's steps.                                                    *)

\* The types after a step of the backend that broadcasts an event or nothing.
LEMMA BackendTypes ==
  ASSUME GatewayTypes, activeTests' \subseteq Schemas, activeFlows' \subseteq Flows,
         preparing' \in [Starts -> [Schemas -> Nat]], bursts' \in [Schemas -> Nat],
         outbox' \in [Clients -> Seq(Asked)],
         UNCHANGED <<linked, view, steady>>,
         Silent \/ \E e \in Events : Broadcast(e)
  PROVE  GatewayTypes'
<1>1. inbox' \in [Clients -> Seq(Events)]
  <2>1. CASE Silent
    BY <2>1 DEF GatewayTypes, Silent
  <2>2. ASSUME NEW e \in Events, Broadcast(e) PROVE inbox' \in [Clients -> Seq(Events)]
    BY <2>2 DEF GatewayTypes, Broadcast
  <2> QED  BY <2>1, <2>2
<1> QED  BY <1>1 DEF GatewayTypes

LEMMA SchemaEvent ==
  ASSUME NEW s \in Schemas,
         NEW type \in {"test_started", "test_stopped", "burst_started", "burst_finished"}
  PROVE  /\ Event(type, s) \in Events /\ Event(type, s).type = type
         /\ \A f \in Flows : ~TellsFlow(Event(type, s), f)
         /\ \A r : TellsBurst(Event(type, s), r) <=> type = "burst_started" /\ r = s
         /\ \A r : TellsEnd(Event(type, s), r) <=> type = "burst_finished" /\ r = s
BY DEF Event, Events, TellsFlow, TellsBurst, TellsEnd

LEMMA FlowEvent ==
  ASSUME NEW f \in Flows, NEW type \in {"flow_started", "flow_stopped"}
  PROVE  /\ Event(type, f) \in Events /\ Event(type, f).type = type
         /\ \A g : TellsFlow(Event(type, f), g) <=> g = f
         /\ \A r : ~TellsBurst(Event(type, f), r)
BY DEF Event, Events, TellsFlow, TellsBurst

\* The request a handler takes from its socket.
LEMMA Taken ==
  ASSUME GatewayTypes, NEW c \in Clients, NEW type, Receives(c, type)
  PROVE  /\ outbox' \in [Clients -> Seq(Asked)] /\ UNCHANGED <<linked, view, steady>>
         /\ type \in {"start_flow", "stop_flow"} => Requested(c) \in Flows
         /\ type \in Starts \cup {"stop_test", "burst_test"} => Requested(c) \in Schemas
<1>1. outbox[c] \in Seq(Asked) /\ outbox[c] # <<>>
  BY DEF GatewayTypes, Receives
<1>2. Tail(outbox[c]) \in Seq(Asked) /\ Head(outbox[c]) \in Asked
  BY <1>1, TailOf
<1>3. Head(outbox[c]).type = type
  BY DEF Receives
<1>4. /\ type \in {"start_flow", "stop_flow"} => Requested(c) \in Flows
      /\ type \in Starts \cup {"stop_test", "burst_test"} => Requested(c) \in Schemas
  BY <1>2, <1>3 DEF Requested, Asked, Starts
<1> QED  BY <1>2, <1>4 DEF Receives, GatewayTypes

\* A step of the backend that has to do with tests only.
LEMMA TestsKeep ==
  ASSUME GatewayInv, GatewayTypes', UNCHANGED <<linked, view, steady, activeFlows, bursts>>,
         \/ Silent
         \/ \E s \in Schemas, type \in {"test_started", "test_stopped"} : Broadcast(Event(type, s))
  PROVE  GatewayInv'
<1>1. CASE Silent
  BY <1>1, BackendKeeps
<1>2. ASSUME NEW s \in Schemas, NEW type \in {"test_started", "test_stopped"},
             Broadcast(Event(type, s))
      PROVE  GatewayInv'
  <2>1. /\ Event(type, s) \in Events
        /\ \A f \in Flows : ~TellsFlow(Event(type, s), f)
        /\ \A r \in Schemas : ~TellsBurst(Event(type, s), r)
    BY SchemaEvent
  <2>2. Tells(Event(type, s))
    BY <2>1 DEF Tells
  <2> QED  BY <1>2, <2>1, <2>2, BackendKeeps
<1> QED  BY <1>1, <1>2

LEMMA StartTestKeeps ==
  ASSUME GatewayInv, NEW c \in Clients, NEW type \in Starts, HandleStartTest(c, type)
  PROVE  GatewayInv'
<1>1. GatewayTypes /\ Receives(c, type) /\ Silent /\ UNCHANGED <<activeTests, activeFlows, bursts>>
  BY DEF GatewayInv, HandleStartTest
<1>2. /\ outbox' \in [Clients -> Seq(Asked)] /\ UNCHANGED <<linked, view, steady>>
      /\ Requested(c) \in Schemas
  BY <1>1, Taken
<1>3. preparing' \in [Starts -> [Schemas -> Nat]]
  <2>1. preparing \in [Starts -> [Schemas -> Nat]]
    BY <1>1 DEF GatewayTypes
  <2>2. CASE preparing' = [preparing EXCEPT ![type][Requested(c)] = @ + 1]
    <3> DEFINE waits == [preparing[type] EXCEPT ![Requested(c)] = @ + 1]
    <3>1. waits \in [Schemas -> Nat]
      BY <1>2, <2>1
    <3>2. preparing' = [preparing EXCEPT ![type] = waits]
      BY <2>2
    <3> HIDE DEF waits
    <3> QED  BY <2>1, <3>1, <3>2
  <2>3. CASE UNCHANGED preparing
    BY <2>1, <2>3
  <2> QED  BY <2>2, <2>3 DEF HandleStartTest
<1>4. GatewayTypes'
  BY <1>1, <1>2, <1>3, BackendTypes DEF GatewayTypes
<1> QED  BY <1>1, <1>2, <1>4, TestsKeep

LEMMA TestPreparedKeeps ==
  ASSUME GatewayInv, NEW s \in Schemas, NEW type \in Starts, TestPrepared(s, type)
  PROVE  GatewayInv'
<1>1. GatewayTypes /\ UNCHANGED <<activeFlows, bursts, linked, outbox, view, steady>>
  BY DEF GatewayInv, TestPrepared
<1>2. preparing' \in [Starts -> [Schemas -> Nat]]
  BY <1>1 DEF TestPrepared, GatewayTypes
<1>3. activeTests' \subseteq Schemas /\ (Silent \/ Broadcast(Event("test_started", s)))
  BY <1>1 DEF TestPrepared, Registers, GatewayTypes
<1>4. Event("test_started", s) \in Events
  BY SchemaEvent
<1>5. GatewayTypes'
  BY <1>1, <1>2, <1>3, <1>4, BackendTypes DEF GatewayTypes
<1> QED  BY <1>1, <1>3, <1>5, TestsKeep

LEMMA StopTestKeeps ==
  ASSUME GatewayInv, NEW c \in Clients, HandleStopTest(c)
  PROVE  GatewayInv'
<1>1. /\ GatewayTypes /\ Receives(c, "stop_test") /\ UNCHANGED <<activeFlows, preparing, bursts>>
      /\ activeTests' = activeTests \ {Requested(c)}
      /\ Broadcast(Event("test_stopped", Requested(c)))
  BY DEF GatewayInv, HandleStopTest
<1>2. /\ outbox' \in [Clients -> Seq(Asked)] /\ UNCHANGED <<linked, view, steady>>
      /\ Requested(c) \in Schemas
  BY <1>1, Taken
<1>3. Event("test_stopped", Requested(c)) \in Events
  BY <1>2, SchemaEvent
<1>4. GatewayTypes'
  BY <1>1, <1>2, <1>3, BackendTypes DEF GatewayTypes
<1> QED  BY <1>1, <1>2, <1>4, TestsKeep

\* A flow starts or stops, and all browsers are told, or nothing happens.
LEMMA FlowsKeep ==
  ASSUME GatewayInv, NEW f \in Flows, outbox' \in [Clients -> Seq(Asked)],
         UNCHANGED <<linked, view, steady, activeTests, preparing, bursts>>,
         \/ activeFlows' = activeFlows \cup {f} /\ Broadcast(Event("flow_started", f))
         \/ activeFlows' = activeFlows \ {f} /\ Broadcast(Event("flow_stopped", f))
         \/ UNCHANGED activeFlows /\ Silent
  PROVE  GatewayInv'
<1>1. GatewayTypes
  BY DEF GatewayInv
<1>2. activeFlows' \subseteq Flows
  BY <1>1 DEF GatewayTypes
<1>3. Event("flow_started", f) \in Events /\ Event("flow_stopped", f) \in Events
  BY FlowEvent
<1>4. GatewayTypes'
  BY <1>1, <1>2, <1>3, BackendTypes DEF GatewayTypes
<1>5. CASE UNCHANGED activeFlows /\ Silent
  BY <1>4, <1>5, BackendKeeps
<1>6. CASE activeFlows' = activeFlows \cup {f} /\ Broadcast(Event("flow_started", f))
  <2>1. Tells(Event("flow_started", f))
    BY <1>6, FlowEvent DEF Tells
  <2> QED  BY <1>3, <1>4, <1>6, <2>1, BackendKeeps
<1>7. CASE activeFlows' = activeFlows \ {f} /\ Broadcast(Event("flow_stopped", f))
  <2>1. Tells(Event("flow_stopped", f))
    BY <1>7, FlowEvent DEF Tells
  <2> QED  BY <1>3, <1>4, <1>7, <2>1, BackendKeeps
<1> QED  BY <1>5, <1>6, <1>7

LEMMA FlowHandlersKeep ==
  ASSUME GatewayInv, NEW c \in Clients, HandleStartFlow(c) \/ HandleStopFlow(c)
  PROVE  GatewayInv'
<1>1. PICK type \in {"start_flow", "stop_flow"} : Receives(c, type)
  BY DEF HandleStartFlow, HandleStopFlow
<1>2. /\ outbox' \in [Clients -> Seq(Asked)] /\ UNCHANGED <<linked, view, steady>>
      /\ Requested(c) \in Flows
  BY <1>1, Taken DEF GatewayInv
<1>3. /\ UNCHANGED <<activeTests, preparing, bursts>>
      /\ \/ /\ activeFlows' = activeFlows \cup {Requested(c)}
            /\ Broadcast(Event("flow_started", Requested(c)))
         \/ /\ activeFlows' = activeFlows \ {Requested(c)}
            /\ Broadcast(Event("flow_stopped", Requested(c)))
         \/ UNCHANGED activeFlows /\ Silent
  BY DEF HandleStartFlow, HandleStopFlow, StopsFlow
<1> QED  BY <1>2, <1>3, FlowsKeep

LEMMA FlowCompletesKeeps ==
  ASSUME GatewayInv, NEW f \in Flows, FlowCompletes(f)
  PROVE  GatewayInv'
<1>1. outbox' \in [Clients -> Seq(Asked)]
  BY DEF GatewayInv, GatewayTypes, FlowCompletes
<1>2. /\ UNCHANGED <<activeTests, preparing, bursts, linked, view, steady>>
      /\ \/ activeFlows' = activeFlows \ {f} /\ Broadcast(Event("flow_stopped", f))
         \/ UNCHANGED activeFlows /\ Silent
  BY DEF FlowCompletes, StopsFlow
<1> QED  BY <1>1, <1>2, FlowsKeep

\* A burst begins or ends, and all browsers are told, or nothing happens.
LEMMA BurstsKeep ==
  ASSUME GatewayInv, NEW s \in Schemas, outbox' \in [Clients -> Seq(Asked)],
         UNCHANGED <<linked, view, steady, activeTests, activeFlows, preparing>>,
         \/ bursts' = [bursts EXCEPT ![s] = @ + 1] /\ Broadcast(Event("burst_started", s))
         \/ bursts[s] > 0 /\ bursts' = [bursts EXCEPT ![s] = @ - 1] /\ Broadcast(Event("burst_finished", s))
         \/ UNCHANGED bursts /\ Silent
  PROVE  GatewayInv'
<1>1. GatewayTypes /\ bursts \in [Schemas -> Nat]
  BY DEF GatewayInv, GatewayTypes
<1>2. bursts' \in [Schemas -> Nat]
  BY <1>1
<1>3. Event("burst_started", s) \in Events /\ Event("burst_finished", s) \in Events
  BY SchemaEvent
<1>4. GatewayTypes'
  BY <1>1, <1>2, <1>3, BackendTypes DEF GatewayTypes
<1>5. CASE UNCHANGED bursts /\ Silent
  BY <1>4, <1>5, BackendKeeps
<1>6. CASE bursts' = [bursts EXCEPT ![s] = @ + 1] /\ Broadcast(Event("burst_started", s))
  <2> DEFINE e == Event("burst_started", s)
  <2>1. /\ \A f \in Flows : ~TellsFlow(e, f)
        /\ \A r \in Schemas : TellsBurst(e, r) <=> r = s
    BY SchemaEvent
  <2>2. bursts'[s] # 0 /\ \A r \in Schemas \ {s} : bursts'[r] = bursts[r]
    BY <1>1, <1>6
  <2> HIDE DEF e
  <2>3. Tells(e)
    BY <2>1, <2>2 DEF Tells
  <2> QED  BY <1>3, <1>4, <1>6, <2>3, BackendKeeps DEF e
<1>7. CASE /\ bursts[s] > 0 /\ bursts' = [bursts EXCEPT ![s] = @ - 1]
           /\ Broadcast(Event("burst_finished", s))
  <2> DEFINE e == Event("burst_finished", s)
  <2>1. /\ \A f \in Flows : ~TellsFlow(e, f)
        /\ \A r \in Schemas : ~TellsBurst(e, r) /\ (TellsEnd(e, r) <=> r = s)
    BY SchemaEvent
  <2>2. \A r \in Schemas \ {s} : bursts'[r] = bursts[r]
    BY <1>1, <1>7
  <2> HIDE DEF e
  <2>3. Tells(e)
    BY <2>1, <2>2 DEF Tells
  <2> QED  BY <1>3, <1>4, <1>7, <2>3, BackendKeeps DEF e
<1> QED  BY <1>5, <1>6, <1>7

LEMMA BurstHandlersKeep ==
  ASSUME GatewayInv, (\E c \in Clients : HandleBurstTest(c)) \/ (\E s \in Schemas : BurstEnds(s))
  PROVE  GatewayInv'
<1>1. ASSUME NEW c \in Clients, HandleBurstTest(c) PROVE GatewayInv'
  <2>1. Receives(c, "burst_test") /\ GatewayTypes
    BY <1>1 DEF HandleBurstTest, GatewayInv
  <2>2. /\ outbox' \in [Clients -> Seq(Asked)] /\ UNCHANGED <<linked, view, steady>>
        /\ Requested(c) \in Schemas
    BY <2>1, Taken
  <2>3. /\ UNCHANGED <<activeTests, activeFlows, preparing>>
        /\ \/ /\ bursts' = [bursts EXCEPT ![Requested(c)] = @ + 1]
              /\ Broadcast(Event("burst_started", Requested(c)))
           \/ UNCHANGED bursts /\ Silent
    BY <1>1 DEF HandleBurstTest
  <2> QED  BY <2>2, <2>3, BurstsKeep
<1>2. ASSUME NEW s \in Schemas, BurstEnds(s) PROVE GatewayInv'
  <2>1. outbox' \in [Clients -> Seq(Asked)]
    BY <1>2 DEF GatewayInv, GatewayTypes, BurstEnds
  <2> QED  BY <1>2, <2>1, BurstsKeep DEF BurstEnds
<1> QED  BY <1>1, <1>2

LEMMA StatusKeeps ==
  ASSUME GatewayInv, BroadcastStatus
  PROVE  GatewayInv'
<1>1. GatewayTypes
  BY DEF GatewayInv
<1>2. /\ Broadcast(StatusUpdate)
      /\ UNCHANGED <<activeTests, activeFlows, preparing, bursts, linked, outbox, view, steady>>
  BY DEF BroadcastStatus, backendVars
<1>3. /\ StatusUpdate \in Events /\ \A f \in Flows : ~TellsFlow(StatusUpdate, f)
      /\ \A s \in Schemas : ~TellsBurst(StatusUpdate, s)
  BY <1>1, StatusIsEvent
<1>4. GatewayTypes'
  BY <1>1, <1>2, <1>3, BackendTypes DEF GatewayTypes
<1>5. Tells(StatusUpdate)
  BY <1>2, <1>3 DEF Tells
<1> QED  BY <1>2, <1>3, <1>4, <1>5, BackendKeeps

LEMMA GatewayStepKeeps == GatewayInv /\ [GatewayNext]_gatewayVars => GatewayInv'
<1> SUFFICES ASSUME GatewayInv, [GatewayNext]_gatewayVars PROVE GatewayInv'
  OBVIOUS
<1>1. CASE UNCHANGED gatewayVars
  BY <1>1 DEF gatewayVars, backendVars, GatewayInv, GatewayTypes, Followed, FlowFollowed, BurstFollowed
<1>2. ASSUME NEW c \in Clients, Handle(c) PROVE GatewayInv'
  BY <1>2, StartTestKeeps, StopTestKeeps, FlowHandlersKeep, BurstHandlersKeep DEF Handle
<1>3. ASSUME NEW c \in Clients, NEW s \in Schemas,
             ToggleRunState(c, s) \/ ChangeFrequency(c, s) \/ StopAll(c, s) \/ BurstTest(c, s)
      PROVE  GatewayInv'
  BY <1>3, TestButtonKeeps, BurstButtonKeeps DEF ToggleRunState, ChangeFrequency, StopAll, Starts
<1> QED
  BY <1>1, <1>2, <1>3, DeliverKeeps, DisconnectKeeps, ConnectKeeps, ToggleFlowKeeps,
     TestPreparedKeeps, BurstHandlersKeep, FlowCompletesKeeps, StatusKeeps DEF GatewayNext

\* A browser that kept its link and got all it was sent shows exactly the active flows, and
\* no burst that is over (handleStartFlow, registerFlowLifecycleSubscription,
\* handleBurstTest and the handlers of SocketService).
THEOREM SteadyViewsAgree == GatewaySpec => []SteadyViewAgrees
<1>1. GatewayInv => SteadyViewAgrees
  <2> SUFFICES ASSUME GatewayInv, NEW c \in steady, inbox[c] = <<>>
               PROVE  /\ view[c].activeFlowIds = activeFlows
                      /\ \A s \in view[c].activeBurstIds : bursts[s] > 0
    BY DEF SteadyViewAgrees
  <2>1. GatewayTypes /\ c \in Clients /\ view[c] \in Views /\ Followed(c)
    BY DEF GatewayInv, GatewayTypes
  <2>2. \A f \in Flows : f \in activeFlows <=> f \in view[c].activeFlowIds
    BY <2>1 DEF Followed, FlowFollowed, NothingTells
  <2>3. \A s \in Schemas : s \in view[c].activeBurstIds => bursts[s] # 0
    BY <2>1 DEF Followed, BurstFollowed, SomeEndComes
  <2>4. /\ activeFlows \subseteq Flows /\ view[c].activeFlowIds \subseteq Flows
        /\ view[c].activeBurstIds \subseteq Schemas /\ bursts \in [Schemas -> Nat]
    BY <2>1 DEF GatewayTypes, Views
  <2>5. view[c].activeFlowIds = activeFlows
    BY <2>2, <2>4
  <2>6. \A s \in view[c].activeBurstIds : bursts[s] > 0
    BY <2>3, <2>4
  <2> QED  BY <2>5, <2>6
<1> QED  BY <1>1, GatewayStarts, GatewayStepKeeps, PTL DEF GatewaySpec

-----------------------------------------------------------------------------
(* What a node of the canvas shows.                                        *)

\* The minimum runs for a node that shows executing, and for no other.
MinimumOfExecuting == \A n \in Nodes : nodeActiveSince[n] # "" => nodeStatuses[n] = "executing"

DisplayInv == DisplayTypeOK /\ NodeShowsLast /\ MinimumOfExecuting

LEMMA DisplayStarts == DisplayInit => DisplayInv
  BY DEF DisplayInit, DisplayInv, DisplayTypeOK, NodeShowsLast, MinimumOfExecuting, Statuses

LEMMA ClearingKeeps ==
  ASSUME DisplayInv, NEW ids, ClearNodes(ids)
  PROVE  DisplayInv'
<1>1. DisplayTypeOK'
  BY DEF DisplayInv, DisplayTypeOK, ClearNodes, Cleared
<1>2. NodeShowsLast' /\ MinimumOfExecuting'
  BY DEF DisplayInv, DisplayTypeOK, NodeShowsLast, MinimumOfExecuting, ClearNodes, Cleared
<1> QED  BY <1>1, <1>2 DEF DisplayInv

LEMMA DisplayStepKeeps == DisplayInv /\ [DisplayNext]_displayVars => DisplayInv'
<1> SUFFICES ASSUME DisplayInv, [DisplayNext]_displayVars PROVE DisplayInv'
  OBVIOUS
<1> USE DEF DisplayInv, DisplayTypeOK, NodeShowsLast, MinimumOfExecuting, Statuses
<1>1. ASSUME NEW n \in Nodes, NodeExecutes(n) PROVE DisplayInv'
  BY <1>1 DEF NodeExecutes, Reports
<1>2. ASSUME NEW n \in Nodes, NEW status \in Statuses \ {"executing"}, NodeRests(n, status)
      PROVE  DisplayInv'
  <2>1. last' = [last EXCEPT ![n] = status] /\ status # ""
    BY <1>2 DEF NodeRests, Reports
  <2>2. CASE nodeActiveSince[n] = "recent"
    <3>1. /\ nodeStatusTimers' = [nodeStatusTimers EXCEPT ![n] = status]
          /\ UNCHANGED <<nodeStatuses, nodeActiveSince>>
      BY <1>2, <2>2 DEF NodeRests
    <3>2. DisplayTypeOK' /\ MinimumOfExecuting'
      BY <2>1, <3>1
    <3>3. NodeShowsLast'
      BY <2>1, <2>2, <3>1
    <3> QED  BY <3>2, <3>3
  <2>3. CASE nodeActiveSince[n] # "recent"
    <3>1. /\ nodeStatusTimers' = [nodeStatusTimers EXCEPT ![n] = ""]
          /\ nodeActiveSince' = [nodeActiveSince EXCEPT ![n] = ""]
          /\ nodeStatuses' = [nodeStatuses EXCEPT ![n] = status]
      BY <1>2, <2>3 DEF NodeRests
    <3>2. DisplayTypeOK' /\ MinimumOfExecuting'
      BY <2>1, <3>1
    <3>3. NodeShowsLast'
      BY <2>1, <3>1
    <3> QED  BY <3>2, <3>3
  <2> QED  BY <2>2, <2>3
<1>3. ASSUME NEW n \in Nodes, MinimumPasses(n) PROVE DisplayInv'
  BY <1>3 DEF MinimumPasses
<1>4. ASSUME NEW n \in Nodes, NodeTimerFires(n) PROVE DisplayInv'
  BY <1>4 DEF NodeTimerFires
<1>5. CASE FlowStartRequested \/ DisplayReset
  BY <1>5, ClearingKeeps DEF FlowStartRequested, DisplayReset
<1>6. CASE UNCHANGED displayVars
  BY <1>6 DEF displayVars
<1> QED  BY <1>1, <1>2, <1>3, <1>4, <1>5, <1>6 DEF DisplayNext

\* What a node shows is the last status the engine reported, or that status waits for the
\* timer of a node that executed moments ago (handleFlowNodeStatus and its timers).
THEOREM NodesShowTheLast == DisplaySpec => []NodeShowsLast
<1>1. DisplayInv => NodeShowsLast
  BY DEF DisplayInv
<1> QED  BY <1>1, DisplayStarts, DisplayStepKeeps, PTL DEF DisplaySpec

-----------------------------------------------------------------------------
(* Registration.                                                           *)

\* One loop runs while the promise is shared, and the handler it is at has no consumer.
LoopShared ==
  /\ refreshing <=> loop.step # "rest"
  /\ loop.step \in {"checking", "registering"} => loop.at \in Handlers \ registeredHandlers

HandlerTypes ==
  /\ registeredHandlers \subseteq Handlers /\ pendingHandlers \subseteq Handlers
  /\ loop \in [left : SUBSET Handlers, at : Handlers \cup {NoHandler},
               step : {"rest", "next", "checking", "registering"}]
  /\ refreshing \in BOOLEAN
  /\ consumers \in [Handlers -> Nat]

LoopInv == HandlerTypes /\ LoopShared /\ PendingIsAt /\ RegisteredOnce

loopVars == <<registeredHandlers, pendingHandlers, loop, refreshing, consumers>>

\* What leaves the loop and the handlers alone keeps the invariant.
LEMMA LoopSame == LoopInv /\ UNCHANGED loopVars => LoopInv'
  BY DEF LoopInv, loopVars, HandlerTypes, LoopShared, PendingIsAt, RegisteredOnce

\* A caller of refreshStatus starts a loop, or shares the one that runs.
LEMMA RefreshKeeps ==
  ASSUME LoopInv, RefreshStatus, UNCHANGED <<registeredHandlers, pendingHandlers, consumers>>
  PROVE  LoopInv'
<1>1. CASE refreshing
  BY <1>1 DEF RefreshStatus, LoopInv, HandlerTypes, LoopShared, PendingIsAt, RegisteredOnce
<1>2. CASE ~refreshing
  <2>1. loop' = [AtRest EXCEPT !.left = Handlers, !.step = "next"] /\ refreshing' = TRUE
    BY <1>2 DEF RefreshStatus
  <2>2. loop' = [left |-> Handlers, at |-> NoHandler, step |-> "next"]
    BY <2>1 DEF AtRest
  <2>3. pendingHandlers = {}
    BY <1>2 DEF LoopInv, LoopShared, PendingIsAt
  <2> QED
    BY <2>1, <2>2, <2>3 DEF LoopInv, HandlerTypes, LoopShared, PendingIsAt, RegisteredOnce
<1> QED
  BY <1>1, <1>2

LEMMA NextHandlerKeeps ==
  ASSUME LoopInv, NextHandler
  PROVE  LoopInv'
<1>1. PICK h \in loop.left :
        IF Settled(h)
          THEN loop' = [loop EXCEPT !.left = @ \ {h}] /\ UNCHANGED pendingHandlers
          ELSE /\ loop' = [left |-> loop.left \ {h}, at |-> h, step |-> "checking"]
               /\ pendingHandlers' = pendingHandlers \cup {h}
  BY DEF NextHandler
<1>2. /\ loop.step = "next" /\ h \in Handlers /\ pendingHandlers = {} /\ refreshing
      /\ UNCHANGED <<registeredHandlers, consumers, refreshing>>
  BY DEF NextHandler, LoopInv, HandlerTypes, LoopShared, PendingIsAt
<1>3. CASE Settled(h)
  BY <1>1, <1>2, <1>3 DEF LoopInv, HandlerTypes, LoopShared, PendingIsAt, RegisteredOnce
<1>4. CASE ~Settled(h)
  <2>1. /\ loop' = [left |-> loop.left \ {h}, at |-> h, step |-> "checking"]
        /\ pendingHandlers' = {h} /\ h \notin registeredHandlers
    BY <1>1, <1>2, <1>4 DEF Settled
  <2> QED
    BY <1>2, <2>1 DEF LoopInv, HandlerTypes, LoopShared, PendingIsAt, RegisteredOnce
<1> QED
  BY <1>3, <1>4

LEMMA TargetCheckedKeeps ==
  ASSUME LoopInv, TargetChecked
  PROVE  LoopInv'
<1>1. /\ loop.step = "checking" /\ refreshing /\ pendingHandlers = {loop.at}
      /\ UNCHANGED <<registeredHandlers, consumers, refreshing>>
  BY DEF TargetChecked, LoopInv, LoopShared, PendingIsAt
<1>2. \/ loop' = [loop EXCEPT !.step = "registering"] /\ UNCHANGED pendingHandlers
      \/ /\ pendingHandlers' = pendingHandlers \ {loop.at}
         /\ loop' = [loop EXCEPT !.at = NoHandler, !.step = "next"]
  BY DEF TargetChecked, Resumes
<1> QED
  BY <1>1, <1>2 DEF LoopInv, HandlerTypes, LoopShared, PendingIsAt, RegisteredOnce

LEMMA HandlerRegisteredKeeps ==
  ASSUME LoopInv, HandlerRegistered
  PROVE  LoopInv'
<1> DEFINE h == loop.at
<1>1. /\ loop.step = "registering" /\ refreshing /\ pendingHandlers = {h}
      /\ h \in Handlers \ registeredHandlers /\ consumers[h] = 0
      /\ UNCHANGED refreshing
  BY DEF HandlerRegistered, LoopInv, LoopShared, PendingIsAt, RegisteredOnce
<1>2. /\ consumers' = [consumers EXCEPT ![h] = @ + 1]
      /\ registeredHandlers' = registeredHandlers \cup {h}
      /\ pendingHandlers' = pendingHandlers \ {h}
      /\ loop' = [loop EXCEPT !.at = NoHandler, !.step = "next"]
  BY DEF HandlerRegistered, Resumes
<1>3. HandlerTypes'
  <2>1. consumers' \in [Handlers -> Nat]
    BY <1>1, <1>2 DEF LoopInv, HandlerTypes
  <2>2. loop' \in [left : SUBSET Handlers, at : Handlers \cup {NoHandler},
                   step : {"rest", "next", "checking", "registering"}]
    BY <1>2 DEF LoopInv, HandlerTypes
  <2>3. registeredHandlers' \subseteq Handlers /\ pendingHandlers' \subseteq Handlers
    BY <1>1, <1>2 DEF LoopInv, HandlerTypes
  <2>4. refreshing' \in BOOLEAN
    BY <1>1 DEF LoopInv, HandlerTypes
  <2> QED
    BY <2>1, <2>2, <2>3, <2>4 DEF HandlerTypes
<1>4. LoopShared' /\ PendingIsAt'
  <2>1. loop'.step = "next" /\ pendingHandlers' = {} /\ refreshing'
    BY <1>1, <1>2 DEF LoopInv, HandlerTypes
  <2> QED
    BY <2>1 DEF LoopShared, PendingIsAt
<1>5. RegisteredOnce'
  BY <1>1, <1>2 DEF LoopInv, HandlerTypes, RegisteredOnce
<1> QED
  BY <1>3, <1>4, <1>5 DEF LoopInv

LEMMA RegistrationThrowsKeeps ==
  ASSUME LoopInv, RegistrationThrows
  PROVE  LoopInv'
<1>1. /\ loop.step = "registering" /\ refreshing /\ pendingHandlers = {loop.at}
      /\ UNCHANGED <<registeredHandlers, consumers, refreshing>>
      /\ pendingHandlers' = pendingHandlers \ {loop.at}
      /\ loop' = [loop EXCEPT !.at = NoHandler, !.step = "next"]
  BY DEF RegistrationThrows, Resumes, LoopInv, LoopShared, PendingIsAt
<1> QED
  BY <1>1 DEF LoopInv, HandlerTypes, LoopShared, PendingIsAt, RegisteredOnce

LEMMA LoopEndsKeeps ==
  ASSUME LoopInv, LoopEnds
  PROVE  LoopInv'
<1>1. /\ loop.step = "next" /\ loop' = [left |-> {}, at |-> NoHandler, step |-> "rest"]
      /\ refreshing' = FALSE
      /\ UNCHANGED <<registeredHandlers, pendingHandlers, consumers>>
  BY DEF LoopEnds, AtRest, handlerVars
<1> QED
  BY <1>1 DEF LoopInv, HandlerTypes, LoopShared, PendingIsAt, RegisteredOnce

LEMMA LoopInductive == LoopInv /\ [Next]_vars => LoopInv'
<1> SUFFICES ASSUME LoopInv, [Next]_vars
             PROVE  LoopInv'
  OBVIOUS
<1>1. CASE OnModuleInit
  <2>1. UNCHANGED <<registeredHandlers, pendingHandlers, consumers>>
    BY <1>1 DEF OnModuleInit, handlerVars
  <2>2. RefreshStatus \/ UNCHANGED loopVars
    BY <1>1, <2>1 DEF OnModuleInit, loopVars
  <2> QED
    BY <2>1, <2>2, RefreshKeeps, LoopSame
<1>2. CASE Connected
  <2>1. UNCHANGED <<registeredHandlers, pendingHandlers, consumers>>
    BY <1>2 DEF Connected, handlerVars
  <2>2. RefreshStatus \/ UNCHANGED loopVars
    BY <1>2, <2>1 DEF Connected, loopVars
  <2> QED
    BY <2>1, <2>2, RefreshKeeps, LoopSame
<1>3. CASE RetryTimerFires
  BY <1>3, RefreshKeeps DEF RetryTimerFires, handlerVars
<1>4. ASSUME NEW r \in Requests, GetHealth(r)
      PROVE  LoopInv'
  BY <1>4, RefreshKeeps DEF GetHealth, handlerVars
<1>5. CASE NextHandler \/ TargetChecked \/ HandlerRegistered \/ RegistrationThrows \/ LoopEnds
  BY <1>5, NextHandlerKeeps, TargetCheckedKeeps, HandlerRegisteredKeeps,
     RegistrationThrowsKeeps, LoopEndsKeeps
<1>6. CASE LinkDrops \/ KafkaGoesOn \/ Clear
  BY <1>6, LoopSame DEF LinkDrops, KafkaGoesOn, Clear, handlerVars, loopVars
<1>7. ASSUME NEW h \in Handlers, TargetDeclared(h) \/ TargetDeleted(h) \/ RabbitReceives(h)
      PROVE  LoopInv'
  BY <1>7, LoopSame DEF TargetDeclared, TargetDeleted, RabbitReceives, Record, handlerVars, loopVars
<1>8. ASSUME NEW t \in Topics, KafkaReceives(t)
      PROVE  LoopInv'
  BY <1>8, LoopSame DEF KafkaReceives, Record, handlerVars, loopVars
<1>9. CASE UNCHANGED vars
  BY <1>9, LoopSame DEF vars, handlerVars, loopVars
<1> QED
  BY <1>1, <1>2, <1>3, <1>4, <1>5, <1>6, <1>7, <1>8, <1>9 DEF Next

\* However refreshes of the timer, of 'connect' and of health requests overlap, no handler
\* consumes twice, and the registered ones are those that consume.
THEOREM HandlersConsumeOnce == Spec => []RegisteredOnce
<1>1. Init => LoopInv
  <2> SUFFICES ASSUME Init
               PROVE  LoopInv
    OBVIOUS
  <2>1. /\ loop = [left |-> {}, at |-> NoHandler, step |-> "rest"]
        /\ registeredHandlers = {} /\ pendingHandlers = {} /\ refreshing = FALSE
        /\ consumers = [h \in Handlers |-> 0]
    BY DEF Init, AtRest
  <2>2. HandlerTypes
    BY <2>1 DEF HandlerTypes
  <2>3. LoopShared /\ PendingIsAt /\ RegisteredOnce
    BY <2>1 DEF LoopShared, PendingIsAt, RegisteredOnce
  <2> QED
    BY <2>2, <2>3 DEF LoopInv
<1>2. LoopInv => RegisteredOnce
  BY DEF LoopInv
<1> QED
  BY <1>1, <1>2, LoopInductive, PTL DEF Spec
-----------------------------------------------------------------------------
(* Receipts.                                                               *)

\* The messages of received that counter k counts.
CountedIn(k) == {i \in DOMAIN received : k \in CountersOf[received[i]]}

RegistryInv ==
  /\ received \in Seq(Scenarios) /\ receipts \in Seq(Scenarios)
  /\ counts \in [Counters -> Nat]
  /\ ReceiptsAddUp

LEMMA RegistrySame == RegistryInv /\ UNCHANGED registryVars => RegistryInv'
  BY DEF RegistryInv, registryVars, ReceiptsAddUp

\* A message more is one more for each of its counters.
LEMMA OneMoreCounted ==
  ASSUME received \in Seq(Scenarios), NEW s \in Scenarios, received' = Append(received, s), NEW k
  PROVE  Cardinality(CountedIn(k)') = Cardinality(CountedIn(k)) + IF k \in CountersOf[s] THEN 1 ELSE 0
<1> DEFINE n == Len(received)
<1>1. /\ n \in Nat /\ DOMAIN received = 1 .. n /\ DOMAIN received' = 1 .. (n + 1)
      /\ received'[n + 1] = s /\ \A i \in 1 .. n : received'[i] = received[i]
  OBVIOUS
<1>2. IsFiniteSet(CountedIn(k)) /\ n + 1 \notin CountedIn(k)
  <2>1. IsFiniteSet(1 .. n)
    BY <1>1, FS_Interval
  <2>2. CountedIn(k) \subseteq 1 .. n
    BY <1>1 DEF CountedIn
  <2> QED
    BY <1>1, <2>1, <2>2, FS_Subset
<1> HIDE DEF n
<1>3. CASE k \in CountersOf[s]
  <2>1. CountedIn(k)' = CountedIn(k) \cup {n + 1}
    BY <1>1, <1>3 DEF CountedIn
  <2> QED
    BY <1>2, <1>3, <2>1, FS_AddElement
<1>4. CASE k \notin CountersOf[s]
  <2>1. CountedIn(k)' = CountedIn(k)
    BY <1>1, <1>4 DEF CountedIn
  <2>2. Cardinality(CountedIn(k)) \in Nat
    BY <1>2, FS_CardinalityType
  <2> QED
    BY <1>4, <2>1, <2>2
<1> QED
  BY <1>3, <1>4

\* The newest receipt comes first, and the oldest makes room.
LEMMA NewestFacts ==
  ASSUME receipts \in Seq(Scenarios), NEW s \in Scenarios
  PROVE  /\ Newest(s) \in Seq(Scenarios)
         /\ Len(Newest(s)) = IF Len(receipts) < MaxReceipts THEN Len(receipts) + 1 ELSE MaxReceipts
         /\ \A i \in 1 .. Len(Newest(s)) : Newest(s)[i] = IF i = 1 THEN s ELSE receipts[i - 1]
<1> DEFINE longer == <<s>> \o receipts
<1>1. /\ longer \in Seq(Scenarios) /\ Len(longer) = Len(receipts) + 1
      /\ \A i \in 1 .. Len(longer) : longer[i] = IF i = 1 THEN s ELSE receipts[i - 1]
  OBVIOUS
<1>2. MaxReceipts \in Nat \ {0}
  BY TestConsumerAssumption
<1>3. Newest(s) = IF Len(longer) > MaxReceipts THEN SubSeq(longer, 1, MaxReceipts) ELSE longer
  BY DEF Newest
<1> HIDE DEF longer
<1>4. CASE Len(longer) > MaxReceipts
  BY <1>1, <1>2, <1>3, <1>4
<1>5. CASE ~(Len(longer) > MaxReceipts)
  BY <1>1, <1>2, <1>3, <1>5
<1> QED
  BY <1>4, <1>5

LEMMA RecordKeeps ==
  ASSUME RegistryInv, NEW s \in Scenarios, Record(s)
  PROVE  RegistryInv'
<1> DEFINE n == Len(received)
<1>1. /\ received' = Append(received, s) /\ totalCount' = totalCount + 1
      /\ counts' = [k \in Counters |-> IF k \in CountersOf[s] THEN counts[k] + 1 ELSE counts[k]]
      /\ receipts' = Newest(s)
  BY DEF Record
<1>2. /\ received \in Seq(Scenarios) /\ receipts \in Seq(Scenarios) /\ counts \in [Counters -> Nat]
      /\ totalCount = n /\ n \in Nat
      /\ \A k \in Counters : counts[k] = Cardinality(CountedIn(k))
      /\ Len(receipts) = IF n < MaxReceipts THEN n ELSE MaxReceipts
      /\ \A i \in DOMAIN receipts : receipts[i] = received[n - i + 1]
  BY DEF RegistryInv, ReceiptsAddUp, CountedIn
<1>3. /\ received' \in Seq(Scenarios) /\ Len(received') = n + 1 /\ received'[n + 1] = s
      /\ \A i \in 1 .. n : received'[i] = received[i]
  BY <1>1, <1>2
<1>4. counts' \in [Counters -> Nat] /\ \A k \in Counters : counts'[k] = Cardinality(CountedIn(k)')
  <2>1. \A k \in Counters : counts'[k] = counts[k] + IF k \in CountersOf[s] THEN 1 ELSE 0
    BY <1>1, <1>2
  <2>2. counts' \in [Counters -> Nat]
    BY <1>1, <1>2
  <2>3. \A k \in Counters :
           Cardinality(CountedIn(k)') = Cardinality(CountedIn(k)) + IF k \in CountersOf[s] THEN 1 ELSE 0
    BY <1>1, <1>2, OneMoreCounted
  <2> QED
    BY <1>2, <2>1, <2>2, <2>3
<1> HIDE DEF n
<1>5. /\ receipts' \in Seq(Scenarios)
      /\ Len(receipts') = IF n + 1 < MaxReceipts THEN n + 1 ELSE MaxReceipts
      /\ \A i \in 1 .. Len(receipts') : receipts'[i] = received'[(n + 1) - i + 1]
  <2>1. MaxReceipts \in Nat \ {0}
    BY TestConsumerAssumption
  <2>2. /\ receipts' \in Seq(Scenarios)
        /\ Len(receipts') = IF Len(receipts) < MaxReceipts THEN Len(receipts) + 1 ELSE MaxReceipts
        /\ \A i \in 1 .. Len(receipts') : receipts'[i] = IF i = 1 THEN s ELSE receipts[i - 1]
    BY <1>1, <1>2, NewestFacts
  <2>3. ASSUME NEW i \in 1 .. Len(receipts')
        PROVE  receipts'[i] = received'[(n + 1) - i + 1]
    <3>1. CASE i = 1
      BY <1>2, <1>3, <2>2, <3>1
    <3>2. CASE i # 1
      <4>1. i - 1 \in DOMAIN receipts /\ n - (i - 1) + 1 \in 1 .. n
        BY <1>2, <2>1, <2>2, <3>2
      <4>2. receipts[i - 1] = received[n - (i - 1) + 1]
        BY <1>2, <4>1
      <4>3. n - (i - 1) + 1 = (n + 1) - i + 1
        BY <1>2
      <4> QED
        BY <1>3, <2>2, <3>2, <4>1, <4>2, <4>3
    <3> QED
      BY <3>1, <3>2
  <2> QED
    BY <1>2, <2>1, <2>2, <2>3
<1>6. totalCount' = Len(received') /\ DOMAIN receipts' = 1 .. Len(receipts')
  BY <1>1, <1>2, <1>3, <1>5
<1>7. ReceiptsAddUp'
  BY <1>2, <1>3, <1>4, <1>5, <1>6 DEF ReceiptsAddUp, CountedIn
<1> QED
  BY <1>3, <1>4, <1>5, <1>7 DEF RegistryInv

LEMMA RegistryInductive == RegistryInv /\ [Next]_vars => RegistryInv'
<1> SUFFICES ASSUME RegistryInv, [Next]_vars
             PROVE  RegistryInv'
  OBVIOUS
<1>1. CASE Clear
  <2>1. /\ receipts' = <<>> /\ received' = <<>> /\ totalCount' = 0
        /\ counts' = [k \in Counters |-> 0]
    BY <1>1 DEF Clear
  <2>2. \A k \in Counters : CountedIn(k)' = {}
    BY <2>1 DEF CountedIn
  <2> QED
    BY <2>1, <2>2, FS_EmptySet, TestConsumerAssumption DEF RegistryInv, ReceiptsAddUp, CountedIn
<1>2. ASSUME NEW s \in Scenarios, Record(s)
      PROVE  RegistryInv'
  BY <1>2, RecordKeeps
<1>3. CASE UNCHANGED registryVars
  BY <1>3, RegistrySame
<1>4. UNCHANGED registryVars \/ Clear \/ \E s \in Scenarios : Record(s)
  BY DEF Next, vars, OnModuleInit, Connected, RetryTimerFires, GetHealth, NextHandler, TargetChecked,
     HandlerRegistered, RegistrationThrows, LoopEnds, LinkDrops, KafkaGoesOn, TargetDeclared,
     TargetDeleted, RabbitReceives, KafkaReceives, Scenarios
<1> QED
  BY <1>1, <1>2, <1>3, <1>4

\* The receipts and all counters tell the same story, that of the messages since the
\* receipts were last deleted: the newest ones, newest first, and how many of each.
THEOREM ReceiptsTellTheStory == Spec => []ReceiptsAddUp
<1>1. Init => RegistryInv
  <2> SUFFICES ASSUME Init
               PROVE  RegistryInv
    OBVIOUS
  <2>1. /\ receipts = <<>> /\ received = <<>> /\ totalCount = 0
        /\ counts = [k \in Counters |-> 0]
    BY DEF Init
  <2>2. \A k \in Counters : CountedIn(k) = {}
    BY <2>1 DEF CountedIn
  <2> QED
    BY <2>1, <2>2, FS_EmptySet, TestConsumerAssumption DEF RegistryInv, ReceiptsAddUp, CountedIn
<1>2. RegistryInv => ReceiptsAddUp
  BY DEF RegistryInv
<1> QED
  BY <1>1, <1>2, RegistryInductive, PTL DEF Spec

-----------------------------------------------------------------------------
(* Sums.                                                                   *)

IsSumOf(g, f, n) ==
  /\ g = [k \in 0 .. n |-> g[k]] /\ g[0] = 0
  /\ \A k \in 1 .. n : g[k] = g[k - 1] + f[k]

\* The smallest of a set of numbers.
LEMMA SmallestOf ==
  ASSUME NEW S, S \subseteq Nat, S # {}
  PROVE  \E k \in S : \A j \in S : k <= j
<1> DEFINE less == {p \in Nat \X Nat : p[1] < p[2]}
<1>1. IsWellFoundedOn(less, Nat)
  <2>1. less = OpToRel(<, Nat)
    BY DEF OpToRel
  <2> QED
    BY <2>1, NatLessThanWellFounded
<1>2. \A i, j \in Nat : i < j => <<i, j>> \in less
  OBVIOUS
<1> HIDE DEF less
<1>3. PICK k \in S : \A j \in S : ~(<<j, k>> \in less)
  BY <1>1, WFMin
<1>4. ASSUME NEW j \in S PROVE k <= j
  <2>1. j \in Nat /\ k \in Nat
    OBVIOUS
  <2>2. ~(j < k)
    BY <1>2, <1>3, <2>1
  <2> QED
    BY <2>1, <2>2
<1> QED
  BY <1>4

\* Induction: what holds of 0, and of n + 1 if of n, holds of every number up to the last.
LEMMA Climb ==
  ASSUME NEW Good, 0 \in Good, NEW final \in Nat, \A n \in 0 .. final - 1 : n \in Good => n + 1 \in Good
  PROVE  \A n \in 0 .. final : n \in Good
<1> DEFINE Bad == {n \in 0 .. final : n \notin Good}
<1> SUFFICES ASSUME Bad # {} PROVE FALSE
  OBVIOUS
<1>1. Bad \subseteq Nat
  OBVIOUS
<1>2. PICK n \in Bad : \A j \in Bad : n <= j
  BY <1>1, SmallestOf
<1>3. n # 0 /\ n \in 0 .. final /\ n \notin Good
  BY <1>2
<1>4. n - 1 \in 0 .. final - 1 /\ n - 1 \in 0 .. final
  BY <1>3
<1>5. n - 1 \in Good
  <2>1. n - 1 \notin Bad
    BY <1>2, <1>3
  <2> QED
    BY <1>4, <2>1
<1>6. (n - 1) + 1 \in Good
  BY <1>4, <1>5
<1>7. (n - 1) + 1 = n
  BY <1>3
<1> QED
  BY <1>3, <1>6, <1>7

LEMMA SumsExist ==
  ASSUME NEW final \in Nat, NEW f, \A k \in 1 .. final : f[k] \in Nat
  PROVE  \E g \in [0 .. final -> Nat] : IsSumOf(g, f, final)
<1> DEFINE Good == {n \in 0 .. final : \E g \in [0 .. n -> Nat] : IsSumOf(g, f, n)}
<1>1. 0 \in Good
  <2> DEFINE g == [k \in 0 .. 0 |-> 0]
  <2>1. g \in [0 .. 0 -> Nat] /\ IsSumOf(g, f, 0)
    BY DEF IsSumOf
  <2> QED
    BY <2>1
<1>2. ASSUME NEW n \in 0 .. final - 1, n \in Good PROVE n + 1 \in Good
  <2>1. PICK g \in [0 .. n -> Nat] : IsSumOf(g, f, n)
    BY <1>2
  <2> DEFINE h == [k \in 0 .. n + 1 |-> IF k = n + 1 THEN g[n] + f[n + 1] ELSE g[k]]
  <2>2. n \in Nat /\ n + 1 \in 1 .. final /\ n + 1 \in 0 .. final
    OBVIOUS
  <2>3. g[n] \in Nat /\ f[n + 1] \in Nat
    BY <2>1, <2>2
  <2>4. h \in [0 .. n + 1 -> Nat]
    BY <2>1, <2>2, <2>3
  <2>5. h[n + 1] = g[n] + f[n + 1] /\ \A k \in 0 .. n : h[k] = g[k]
    BY <2>2
  <2>6. h = [k \in 0 .. n + 1 |-> h[k]]
    OBVIOUS
  <2> HIDE DEF h
  <2>7. IsSumOf(h, f, n + 1)
    <3>1. h[0] = 0
      BY <2>1, <2>2, <2>5 DEF IsSumOf
    <3>2. ASSUME NEW k \in 1 .. n + 1 PROVE h[k] = h[k - 1] + f[k]
      <4>1. CASE k = n + 1
        <5>1. k - 1 = n /\ n \in 0 .. n
          BY <2>2, <4>1
        <5> QED
          BY <2>5, <4>1, <5>1
      <4>2. CASE k \in 1 .. n
        <5>1. k \in 0 .. n /\ k - 1 \in 0 .. n
          BY <2>2, <4>2
        <5> QED
          BY <2>1, <2>5, <4>2, <5>1 DEF IsSumOf
      <4> QED
        BY <2>2, <4>1, <4>2
    <3> QED
      BY <2>6, <3>1, <3>2 DEF IsSumOf
  <2> QED
    BY <2>2, <2>4, <2>7
<1>3. \A n \in 0 .. final : n \in Good
  BY <1>1, <1>2, Climb
<1> QED
  BY <1>3

LEMMA SumsAgree ==
  ASSUME NEW n \in Nat, NEW f, NEW g, NEW h, IsSumOf(g, f, n), IsSumOf(h, f, n)
  PROVE  \A k \in 0 .. n : g[k] = h[k]
<1> DEFINE Good == {k \in 0 .. n : g[k] = h[k]}
<1>1. 0 \in Good
  BY DEF IsSumOf
<1>2. ASSUME NEW k \in 0 .. n - 1, k \in Good PROVE k + 1 \in Good
  <2>1. k + 1 \in 1 .. n /\ (k + 1) - 1 = k /\ k + 1 \in 0 .. n
    OBVIOUS
  <2>2. g[k + 1] = g[k] + f[k + 1] /\ h[k + 1] = h[k] + f[k + 1]
    BY <2>1 DEF IsSumOf
  <2> QED
    BY <1>2, <2>1, <2>2
<1>3. \A k \in 0 .. n : k \in Good
  BY <1>1, <1>2, Climb
<1> QED
  BY <1>3

\* What SumTo is: the last of the partial sums, whatever function has them.
LEMMA SumToIs ==
  ASSUME NEW n \in Nat, NEW f, \A k \in 1 .. n : f[k] \in Nat
  PROVE  \E g \in [0 .. n -> Nat] : IsSumOf(g, f, n) /\ SumTo(f, n) = g[n]
<1> DEFINE sum == CHOOSE g : g = [k \in 0 .. n |-> IF k = 0 THEN 0 ELSE g[k - 1] + f[k]]
<1>1. PICK h \in [0 .. n -> Nat] : IsSumOf(h, f, n)
  BY SumsExist
<1>2. h = [k \in 0 .. n |-> IF k = 0 THEN 0 ELSE h[k - 1] + f[k]]
  <2>1. ASSUME NEW k \in 0 .. n PROVE h[k] = IF k = 0 THEN 0 ELSE h[k - 1] + f[k]
    <3>1. k = 0 \/ k \in 1 .. n
      OBVIOUS
    <3> QED
      BY <1>1, <3>1 DEF IsSumOf
  <2> QED
    BY <1>1, <2>1
<1>3. sum = [k \in 0 .. n |-> IF k = 0 THEN 0 ELSE sum[k - 1] + f[k]]
  BY <1>2
<1>4. SumTo(f, n) = sum[n]
  BY DEF SumTo
<1> HIDE DEF sum
<1>5. IsSumOf(sum, f, n)
  <2>1. DOMAIN sum = 0 .. n /\ \A k \in 0 .. n : sum[k] = IF k = 0 THEN 0 ELSE sum[k - 1] + f[k]
    BY <1>3
  <2>2. sum[0] = 0 /\ \A k \in 1 .. n : sum[k] = sum[k - 1] + f[k]
    <3>1. 0 \in 0 .. n /\ \A k \in 1 .. n : k \in 0 .. n /\ k # 0
      OBVIOUS
    <3> QED
      BY <2>1, <3>1
  <2>3. sum = [k \in 0 .. n |-> sum[k]]
    BY <1>3, <2>1
  <2> QED
    BY <2>2, <2>3 DEF IsSumOf
<1>6. \A k \in 0 .. n : sum[k] = h[k]
  BY <1>1, <1>5, SumsAgree
<1>7. SumTo(f, n) = h[n]
  BY <1>4, <1>6
<1> QED
  BY <1>1, <1>7

\* The sums of the first entries, one after the other.
LEMMA SumSteps ==
  ASSUME NEW n \in Nat, NEW f, \A k \in 1 .. n : f[k] \in Nat
  PROVE  /\ SumTo(f, 0) = 0
         /\ \A k \in 0 .. n : SumTo(f, k) \in Nat
         /\ \A k \in 0 .. n - 1 : SumTo(f, k + 1) = SumTo(f, k) + f[k + 1]
<1>1. PICK g \in [0 .. n -> Nat] : IsSumOf(g, f, n) /\ SumTo(f, n) = g[n]
  BY SumToIs
<1>2. ASSUME NEW k \in 0 .. n PROVE SumTo(f, k) = g[k]
  <2>1. k \in Nat /\ \A j \in 1 .. k : f[j] \in Nat /\ j \in 1 .. n
    OBVIOUS
  <2>2. PICK h \in [0 .. k -> Nat] : IsSumOf(h, f, k) /\ SumTo(f, k) = h[k]
    BY <2>1, SumToIs
  <2> DEFINE part == [j \in 0 .. k |-> g[j]]
  <2>3. IsSumOf(part, f, k)
    <3>1. \A j \in 0 .. k : part[j] = g[j]
      OBVIOUS
    <3>2. part = [j \in 0 .. k |-> part[j]]
      OBVIOUS
    <3>3. 0 \in 0 .. k /\ \A j \in 1 .. k : j \in 0 .. k /\ j - 1 \in 0 .. k
      BY <2>1
    <3> HIDE DEF part
    <3> QED
      BY <1>1, <2>1, <3>1, <3>2, <3>3 DEF IsSumOf
  <2>4. k \in 0 .. k /\ part[k] = g[k]
    BY <2>1
  <2> HIDE DEF part
  <2> QED
    BY <2>1, <2>2, <2>3, <2>4, SumsAgree
<1>3. \A k \in 0 .. n - 1 : k \in 0 .. n /\ k + 1 \in 0 .. n /\ k + 1 \in 1 .. n /\ (k + 1) - 1 = k
  OBVIOUS
<1>4. ASSUME NEW k \in 0 .. n - 1 PROVE SumTo(f, k + 1) = SumTo(f, k) + f[k + 1]
  <2>1. g[k + 1] = g[(k + 1) - 1] + f[k + 1]
    BY <1>1, <1>3 DEF IsSumOf
  <2>2. SumTo(f, k + 1) = g[k + 1] /\ SumTo(f, k) = g[k] /\ (k + 1) - 1 = k
    BY <1>2, <1>3
  <2> QED
    BY <2>1, <2>2
<1>5. 0 \in 0 .. n /\ g[0] = 0
  BY <1>1 DEF IsSumOf
<1> QED
  BY <1>1, <1>2, <1>4, <1>5

LEMMA SumMonotone ==
  ASSUME NEW n \in Nat, NEW f, NEW g,
         \A k \in 1 .. n : f[k] \in Nat /\ g[k] \in Nat /\ f[k] <= g[k]
  PROVE  SumTo(f, n) <= SumTo(g, n)
<1> DEFINE Good == {k \in 0 .. n : SumTo(f, k) <= SumTo(g, k)}
<1>1. /\ SumTo(f, 0) = 0 /\ SumTo(g, 0) = 0
      /\ \A k \in 0 .. n : SumTo(f, k) \in Nat /\ SumTo(g, k) \in Nat
      /\ \A k \in 0 .. n - 1 : /\ SumTo(f, k + 1) = SumTo(f, k) + f[k + 1]
                               /\ SumTo(g, k + 1) = SumTo(g, k) + g[k + 1]
  BY SumSteps
<1>2. 0 \in Good
  BY <1>1
<1>3. ASSUME NEW k \in 0 .. n - 1, k \in Good PROVE k + 1 \in Good
  <2>1. k + 1 \in 1 .. n /\ k + 1 \in 0 .. n /\ k \in 0 .. n
    OBVIOUS
  <2> QED
    BY <1>1, <1>3, <2>1
<1>4. \A k \in 0 .. n : k \in Good
  BY <1>2, <1>3, Climb
<1> QED
  BY <1>4

LEMMA SumSame ==
  ASSUME NEW n \in Nat, NEW f, NEW g, \A k \in 1 .. n : f[k] \in Nat /\ g[k] = f[k]
  PROVE  SumTo(f, n) = SumTo(g, n)
<1>1. SumTo(f, n) <= SumTo(g, n) /\ SumTo(g, n) <= SumTo(f, n)
  BY SumMonotone
<1>2. SumTo(f, n) \in Nat /\ SumTo(g, n) \in Nat
  BY SumSteps
<1> QED
  BY <1>1, <1>2

\* A sum goes on where it was left.
LEMMA SumShift ==
  ASSUME NEW n \in Nat, NEW m \in Nat, NEW f, NEW g,
         \A k \in 1 .. n + m : f[k] \in Nat, \A k \in 1 .. m : g[k] = f[n + k]
  PROVE  SumTo(f, n + m) = SumTo(f, n) + SumTo(g, m)
<1> DEFINE Good == {k \in 0 .. m : SumTo(f, n + k) = SumTo(f, n) + SumTo(g, k)}
<1>0. n + m \in Nat /\ \A k \in 1 .. m : n + k \in 1 .. n + m /\ g[k] \in Nat
  OBVIOUS
<1>1. /\ SumTo(g, 0) = 0
      /\ \A k \in 0 .. m : SumTo(g, k) \in Nat
      /\ \A k \in 0 .. m - 1 : SumTo(g, k + 1) = SumTo(g, k) + g[k + 1]
  BY <1>0, SumSteps
<1>2. /\ \A k \in 0 .. n + m : SumTo(f, k) \in Nat
      /\ \A k \in 0 .. n + m - 1 : SumTo(f, k + 1) = SumTo(f, k) + f[k + 1]
  BY <1>0, SumSteps
<1>3. 0 \in Good
  BY <1>1, <1>2
<1>4. ASSUME NEW k \in 0 .. m - 1, k \in Good PROVE k + 1 \in Good
  <2>1. k + 1 \in 1 .. m /\ k \in 0 .. m /\ k + 1 \in 0 .. m
    OBVIOUS
  <2>2. n + k \in 0 .. n + m - 1 /\ n + (k + 1) = (n + k) + 1 /\ n + k \in 0 .. n + m
    BY <2>1
  <2>3. SumTo(f, n + (k + 1)) = SumTo(f, n + k) + f[n + (k + 1)]
    BY <1>2, <2>2
  <2>4. f[n + (k + 1)] = g[k + 1]
    BY <2>1
  <2>5. SumTo(g, k + 1) = SumTo(g, k) + g[k + 1] /\ g[k + 1] \in Nat /\ SumTo(g, k) \in Nat /\ SumTo(f, n) \in Nat
    BY <1>0, <1>1, <1>2, <2>1
  <2>6. SumTo(f, n + k) = SumTo(f, n) + SumTo(g, k)
    BY <1>4
  <2>7. SumTo(f, n + (k + 1)) = SumTo(f, n) + SumTo(g, k + 1)
    BY <2>3, <2>4, <2>5, <2>6
  <2> QED
    BY <2>1, <2>7
<1>5. \A k \in 0 .. m : k \in Good
  BY <1>3, <1>4, Climb
<1> QED
  BY <1>5

LEMMA SumNone ==
  ASSUME NEW n \in Nat, NEW f, \A k \in 1 .. n : f[k] = 0
  PROVE  SumTo(f, n) = 0
<1> DEFINE Good == {k \in 0 .. n : SumTo(f, k) = 0}
<1>1. /\ SumTo(f, 0) = 0
      /\ \A k \in 0 .. n - 1 : SumTo(f, k + 1) = SumTo(f, k) + f[k + 1]
  BY SumSteps
<1>2. 0 \in Good
  BY <1>1
<1>3. ASSUME NEW k \in 0 .. n - 1, k \in Good PROVE k + 1 \in Good
  <2>1. k + 1 \in 1 .. n /\ k + 1 \in 0 .. n
    OBVIOUS
  <2> QED
    BY <1>1, <1>3, <2>1
<1>4. \A k \in 0 .. n : k \in Good
  BY <1>2, <1>3, Climb
<1> QED
  BY <1>4

\* One entry more.
LEMMA SumNext ==
  ASSUME NEW n \in Nat, NEW f, NEW g,
         \A k \in 1 .. n : f[k] \in Nat /\ g[k] = f[k], g[n + 1] \in Nat
  PROVE  SumTo(g, n + 1) = SumTo(f, n) + g[n + 1] /\ SumTo(f, n) \in Nat
<1>1. \A k \in 1 .. n + 1 : g[k] \in Nat
  <2>1. ASSUME NEW k \in 1 .. n + 1 PROVE k \in 1 .. n \/ k = n + 1
    OBVIOUS
  <2> QED
    BY <2>1
<1>2. n \in 0 .. (n + 1) - 1 /\ n + 1 \in Nat
  OBVIOUS
<1>3. SumTo(g, n + 1) = SumTo(g, n) + g[n + 1]
  BY <1>1, <1>2, SumSteps
<1>4. SumTo(f, n) = SumTo(g, n) /\ SumTo(f, n) \in Nat
  BY SumSame, SumSteps
<1> QED
  BY <1>3, <1>4

-----------------------------------------------------------------------------
(* The throughput.                                                         *)

Entries == [time : Nat, count : Nat]
BucketOf(time) == (time \div Bucket) * Bucket
Weighed(entries, c) == [i \in DOMAIN entries |-> IF entries[i].time >= c THEN entries[i].count ELSE 0]
InBuckets(entries) == [i \in DOMAIN entries |-> [time |-> BucketOf(entries[i].time), count |-> entries[i].count]]

ThroughputInv ==
  /\ now \in Nat /\ now >= Window
  /\ buckets \in Seq(Entries) /\ log \in Seq(Entries)
  /\ \A c \in Nat : c >= now - Window => CountFrom(buckets, c) = CountFrom(InBuckets(log), c)

LEMMA BucketBounds ==
  ASSUME NEW t \in Nat
  PROVE  BucketOf(t) \in Nat /\ BucketOf(t) <= t /\ t < BucketOf(t) + Bucket
<1> DEFINE q == t \div Bucket
           r == t % Bucket
<1>1. Bucket \in Nat /\ Bucket > 0
  BY LiveUpdatesAssumption
<1>2. q \in Nat /\ r \in Nat /\ r < Bucket /\ t = Bucket * q + r
  BY <1>1
<1>3. BucketOf(t) = q * Bucket
  BY DEF BucketOf
<1> HIDE DEF q, r
<1>4. q * Bucket = Bucket * q /\ q * Bucket \in Nat
  BY <1>1, <1>2
<1> QED
  BY <1>1, <1>2, <1>3, <1>4

\* The weights of entries are numbers, one of each.
LEMMA Weights ==
  ASSUME NEW entries \in Seq(Entries), NEW c \in Nat
  PROVE  /\ Len(entries) \in Nat /\ CountFrom(entries, c) = SumTo(Weighed(entries, c), Len(entries))
         /\ \A k \in 1 .. Len(entries) :
              /\ entries[k] \in Entries /\ Weighed(entries, c)[k] \in Nat
              /\ Weighed(entries, c)[k] = IF entries[k].time >= c THEN entries[k].count ELSE 0
<1>1. Len(entries) \in Nat /\ DOMAIN entries = 1 .. Len(entries)
  OBVIOUS
<1>2. CountFrom(entries, c) = SumTo(Weighed(entries, c), Len(entries))
  BY DEF CountFrom, Weighed
<1>3. ASSUME NEW k \in 1 .. Len(entries)
      PROVE  /\ entries[k] \in Entries /\ Weighed(entries, c)[k] \in Nat
             /\ Weighed(entries, c)[k] = IF entries[k].time >= c THEN entries[k].count ELSE 0
  <2>1. k \in DOMAIN entries /\ entries[k] \in Entries
    BY <1>1
  <2>2. entries[k].time \in Nat /\ entries[k].count \in Nat
    BY <2>1 DEF Entries
  <2>3. Weighed(entries, c)[k] = IF entries[k].time >= c THEN entries[k].count ELSE 0
    BY <2>1 DEF Weighed
  <2> QED
    BY <2>1, <2>2, <2>3
<1> QED
  BY <1>1, <1>2, <1>3

LEMMA CountAppended ==
  ASSUME NEW entries \in Seq(Entries), NEW e \in Entries, NEW c \in Nat
  PROVE  /\ Append(entries, e) \in Seq(Entries)
         /\ CountFrom(Append(entries, e), c) = CountFrom(entries, c) + (IF e.time >= c THEN e.count ELSE 0)
<1> DEFINE longer == Append(entries, e)
           n == Len(entries)
<1>1. /\ longer \in Seq(Entries) /\ n \in Nat /\ Len(longer) = n + 1
      /\ longer[n + 1] = e /\ \A k \in 1 .. n : longer[k] = entries[k]
  OBVIOUS
<1> HIDE DEF longer
<1>2. \A k \in 1 .. n : /\ Weighed(entries, c)[k] \in Nat
                        /\ Weighed(longer, c)[k] = Weighed(entries, c)[k]
  <2>1. ASSUME NEW k \in 1 .. n
        PROVE /\ Weighed(entries, c)[k] \in Nat
              /\ Weighed(longer, c)[k] = Weighed(entries, c)[k]
    <3>1. k \in 1 .. Len(longer) /\ longer[k] = entries[k]
      BY <1>1
    <3>2. /\ Weighed(entries, c)[k] \in Nat
          /\ Weighed(entries, c)[k] = IF entries[k].time >= c THEN entries[k].count ELSE 0
      BY Weights
    <3>3. Weighed(longer, c)[k] = IF longer[k].time >= c THEN longer[k].count ELSE 0
      BY <1>1, <3>1, Weights
    <3> QED
      BY <3>1, <3>2, <3>3
  <2> QED
    BY <2>1
<1>3. Weighed(longer, c)[n + 1] = IF e.time >= c THEN e.count ELSE 0
  <2>1. n + 1 \in 1 .. Len(longer)
    BY <1>1
  <2> QED
    BY <1>1, <2>1, Weights
<1>4. Weighed(longer, c)[n + 1] \in Nat
  BY <1>3 DEF Entries
<1>5. SumTo(Weighed(longer, c), n + 1) = SumTo(Weighed(entries, c), n) + Weighed(longer, c)[n + 1]
  BY <1>1, <1>2, <1>4, SumNext
<1>6. CountFrom(entries, c) = SumTo(Weighed(entries, c), n) /\ CountFrom(longer, c) = SumTo(Weighed(longer, c), n + 1)
  BY <1>1, Weights
<1> QED
  BY <1>1, <1>3, <1>5, <1>6 DEF longer

\* A count added to the last entry.
LEMMA CountMerged ==
  ASSUME NEW entries \in Seq(Entries), Len(entries) > 0, NEW count \in Nat, NEW c \in Nat
  PROVE  LET more == [entries EXCEPT ![Len(entries)].count = @ + count]
         IN  /\ more \in Seq(Entries)
             /\ CountFrom(more, c)
                = CountFrom(entries, c) + (IF entries[Len(entries)].time >= c THEN count ELSE 0)
<1> DEFINE n == Len(entries)
           final == entries[n]
           e == [time |-> final.time, count |-> final.count + count]
           more == [entries EXCEPT ![n].count = @ + count]
           front == [k \in 1 .. n - 1 |-> entries[k]]
<1>1. n \in Nat /\ n > 0 /\ DOMAIN entries = 1 .. n /\ entries \in [1 .. n -> Entries]
  OBVIOUS
<1>2. final \in Entries
  BY <1>1
<1>3. e \in Entries /\ final = [time |-> final.time, count |-> final.count]
  BY <1>2 DEF Entries
<1>4. front \in [1 .. n - 1 -> Entries]
  BY <1>1
<1>4a. n - 1 \in Nat
  BY <1>1
<1>4b. front \in Seq(Entries) /\ Len(front) = n - 1
  BY <1>4, <1>4a
<1>5. more = [entries EXCEPT ![n] = e]
  <2>1. [final EXCEPT !.count = final.count + count] = e
    BY <1>3
  <2>2. more = [entries EXCEPT ![n] = [final EXCEPT !.count = final.count + count]]
    BY <1>1
  <2> QED
    BY <2>1, <2>2
<1>6. more \in [1 .. n -> Entries] /\ \A k \in 1 .. n : more[k] = IF k = n THEN e ELSE entries[k]
  BY <1>1, <1>3, <1>5
<1> HIDE DEF e, more, n
<1>7. Append(front, final) = entries
  BY <1>1, <1>4, <1>4b
<1>8. more = Append(front, e)
  <2>1. more \in Seq(Entries) /\ Len(more) = n
    BY <1>1, <1>6
  <2> QED
    BY <1>1, <1>4, <1>4b, <1>6, <2>1
<1> HIDE DEF front, final
<1>9. CountFrom(entries, c) = CountFrom(front, c) + (IF final.time >= c THEN final.count ELSE 0)
  BY <1>2, <1>4b, <1>7, CountAppended
<1>10. more \in Seq(Entries) /\ CountFrom(more, c) = CountFrom(front, c) + (IF e.time >= c THEN e.count ELSE 0)
  BY <1>3, <1>4b, <1>8, CountAppended
<1>11. e.time = final.time /\ e.count = final.count + count /\ final.count \in Nat
  BY <1>2 DEF e, Entries
<1>12. CountFrom(front, c) \in Nat
  <2>1. \A k \in 1 .. Len(front) : Weighed(front, c)[k] \in Nat
    BY <1>4b, Weights
  <2>2. Len(front) \in 0 .. Len(front) /\ Len(front) \in Nat
    BY <1>4b
  <2>3. SumTo(Weighed(front, c), Len(front)) \in Nat
    BY <2>1, <2>2, SumSteps
  <2> QED
    BY <1>4b, <2>3, Weights
<1>13. CountFrom(more, c) = CountFrom(entries, c) + (IF final.time >= c THEN count ELSE 0)
  BY <1>9, <1>10, <1>11, <1>12
<1> QED
  BY <1>10, <1>13 DEF more, n, final

\* Shifting the old entries off the front takes nothing from the counts of later times.
LEMMA CountShifted ==
  ASSUME NEW entries \in Seq(Entries), NEW cutoff \in Nat, NEW c \in Nat, c >= cutoff
  PROVE  /\ Shifted(entries, cutoff) \in Seq(Entries)
         /\ CountFrom(Shifted(entries, cutoff), c) = CountFrom(entries, c)
<1> DEFINE recent == {i \in DOMAIN entries : entries[i].time >= cutoff}
           some == recent \cup {Len(entries) + 1}
           m == Min(some)
           short == SubSeq(entries, m, Len(entries))
<1>1. Len(entries) \in Nat /\ DOMAIN entries = 1 .. Len(entries)
  OBVIOUS
<1>2. some \subseteq Nat /\ some # {}
  BY <1>1
<1>3. m \in some /\ \A j \in some : m <= j
  <2>1. \E k \in some : \A j \in some : k <= j
    BY <1>2, SmallestOf
  <2> HIDE DEF some
  <2> QED
    BY <2>1 DEF Min
<1>4. Shifted(entries, cutoff) = short
  BY DEF Shifted
<1>5. m \in 1 .. Len(entries) + 1 /\ \A j \in 1 .. Len(entries) : j < m => entries[j].time < cutoff
  <2>1. m \in 1 .. Len(entries) + 1
    BY <1>1, <1>3
  <2>2. ASSUME NEW j \in 1 .. Len(entries), j < m PROVE entries[j].time < cutoff
    <3>1. ~(m <= j)
      BY <2>1, <2>2
    <3>2. ~(entries[j].time >= cutoff)
      BY <1>1, <1>3, <3>1
    <3>3. entries[j] \in Entries
      BY <1>1
    <3>4. entries[j].time \in Nat
      BY <3>3 DEF Entries
    <3> QED
      BY <3>2, <3>4
  <2> QED
    BY <2>1, <2>2
<1> HIDE DEF m, some, recent
<1>6. /\ short \in Seq(Entries) /\ Len(short) = Len(entries) + 1 - m
      /\ \A k \in 1 .. Len(entries) + 1 - m : short[k] = entries[m - 1 + k]
  <2>1. m \in Int /\ m >= 1 /\ m <= Len(entries) + 1
    BY <1>1, <1>5
  <2>2. short \in Seq(Entries)
    BY <1>1, <2>1
  <2>3. Len(short) = Len(entries) + 1 - m
    BY <1>1, <2>1
  <2>4. ASSUME NEW k \in 1 .. Len(entries) + 1 - m PROVE short[k] = entries[m - 1 + k]
    BY <1>1, <2>1
  <2> QED
    BY <2>2, <2>3, <2>4
<1> HIDE DEF short
<1> DEFINE f == Weighed(entries, c)
           g == Weighed(short, c)
           n == m - 1
           rest == Len(entries) + 1 - m
<1>7. n \in Nat /\ rest \in Nat /\ n + rest = Len(entries)
  BY <1>1, <1>5
<1>8. \A k \in 1 .. n + rest : f[k] \in Nat
  BY <1>7, Weights
<1>9. \A k \in 1 .. rest : g[k] = f[n + k]
  <2>1. ASSUME NEW k \in 1 .. rest PROVE g[k] = f[n + k]
    <3>1. n + k \in 1 .. Len(entries) /\ k \in 1 .. Len(short) /\ short[k] = entries[n + k]
      BY <1>6, <1>7
    <3>2. g[k] = IF short[k].time >= c THEN short[k].count ELSE 0
      BY <1>6, <3>1, Weights
    <3>3. f[n + k] = IF entries[n + k].time >= c THEN entries[n + k].count ELSE 0
      BY <3>1, Weights
    <3> QED
      BY <3>1, <3>2, <3>3
  <2> QED
    BY <2>1
<1>10. \A k \in 1 .. n : f[k] = 0
  <2>1. ASSUME NEW k \in 1 .. n PROVE f[k] = 0
    <3>1. k \in 1 .. Len(entries) /\ k < m
      BY <1>5, <1>7
    <3>2. f[k] = IF entries[k].time >= c THEN entries[k].count ELSE 0
      BY <3>1, Weights
    <3>3. entries[k].time < cutoff /\ entries[k] \in Entries
      BY <1>5, <3>1, Weights
    <3>4. entries[k].time \in Nat
      BY <3>3 DEF Entries
    <3> QED
      BY <3>2, <3>3, <3>4
  <2> QED
    BY <2>1
<1>11. CountFrom(entries, c) = SumTo(f, n + rest) /\ CountFrom(short, c) = SumTo(g, rest)
  BY <1>6, <1>7, Weights
<1> HIDE DEF f, g, n, rest
<1>12. SumTo(f, n + rest) = SumTo(f, n) + SumTo(g, rest) /\ SumTo(f, n) = 0
  <2>1. SumTo(f, n) = 0
    BY <1>7, <1>10, SumNone
  <2>2. SumTo(f, n + rest) = SumTo(f, n) + SumTo(g, rest)
    BY <1>7, <1>8, <1>9, SumShift
  <2> QED
    BY <2>1, <2>2
<1>13. SumTo(g, rest) \in Nat
  <2>1. ASSUME NEW k \in 1 .. rest PROVE g[k] \in Nat
    <3>1. k \in 1 .. Len(short)
      BY <1>6 DEF rest
    <3> QED
      BY <1>6, <3>1, Weights DEF g
  <2>2. rest \in 0 .. rest
    BY <1>7
  <2> QED
    BY <1>7, <2>1, <2>2, SumSteps
<1> QED
  BY <1>4, <1>6, <1>11, <1>12, <1>13

LEMMA InBucketsIs ==
  ASSUME NEW entries \in Seq(Entries)
  PROVE  /\ InBuckets(entries) \in Seq(Entries) /\ Len(InBuckets(entries)) = Len(entries)
         /\ \A k \in 1 .. Len(entries) :
              InBuckets(entries)[k] = [time |-> BucketOf(entries[k].time), count |-> entries[k].count]
<1>1. Len(entries) \in Nat /\ DOMAIN entries = 1 .. Len(entries)
  OBVIOUS
<1>2. \A k \in 1 .. Len(entries) :
        InBuckets(entries)[k] = [time |-> BucketOf(entries[k].time), count |-> entries[k].count]
  BY <1>1 DEF InBuckets
<1>3. ASSUME NEW k \in 1 .. Len(entries) PROVE InBuckets(entries)[k] \in Entries
  <2>1. entries[k] \in Entries
    BY <1>1
  <2>2. entries[k].time \in Nat /\ entries[k].count \in Nat
    BY <2>1 DEF Entries
  <2>3. BucketOf(entries[k].time) \in Nat
    BY <2>2, BucketBounds
  <2>4. [time |-> BucketOf(entries[k].time), count |-> entries[k].count] \in Entries
    BY <2>2, <2>3 DEF Entries
  <2> QED
    BY <1>2, <2>4
<1>4. InBuckets(entries) = [k \in 1 .. Len(entries) |-> InBuckets(entries)[k]]
  BY <1>1 DEF InBuckets
<1>5. InBuckets(entries) \in [1 .. Len(entries) -> Entries]
  BY <1>3, <1>4
<1>6. InBuckets(entries) \in Seq(Entries) /\ Len(InBuckets(entries)) = Len(entries)
  BY <1>1, <1>5
<1> QED
  BY <1>2, <1>6

LEMMA InBucketsAppended ==
  ASSUME NEW entries \in Seq(Entries), NEW e \in Entries
  PROVE  InBuckets(Append(entries, e))
         = Append(InBuckets(entries), [time |-> BucketOf(e.time), count |-> e.count])
<1> DEFINE n == Len(entries)
           longer == Append(entries, e)
           f == InBuckets(longer)
           b == [time |-> BucketOf(e.time), count |-> e.count]
           g == Append(InBuckets(entries), b)
<1>1. /\ longer \in Seq(Entries) /\ n \in Nat /\ Len(longer) = n + 1
      /\ longer[n + 1] = e /\ \A k \in 1 .. n : longer[k] = entries[k]
  OBVIOUS
<1>2. f \in Seq(Entries) /\ Len(f) = n + 1
  BY <1>1, InBucketsIs
<1>3. InBuckets(entries) \in Seq(Entries) /\ Len(InBuckets(entries)) = n
  BY InBucketsIs
<1>4. b \in Entries
  <2>1. e.time \in Nat /\ e.count \in Nat
    BY DEF Entries
  <2> QED
    BY <2>1, BucketBounds DEF Entries
<1> HIDE DEF b
<1>5. g \in Seq(Entries) /\ Len(g) = n + 1 /\ g[n + 1] = b /\ \A k \in 1 .. n : g[k] = InBuckets(entries)[k]
  BY <1>3, <1>4
<1>6. ASSUME NEW k \in 1 .. n + 1 PROVE f[k] = g[k]
  <2>1. f[k] = [time |-> BucketOf(longer[k].time), count |-> longer[k].count]
    BY <1>1, InBucketsIs
  <2>2. CASE k = n + 1
    BY <1>1, <1>5, <2>1, <2>2 DEF b
  <2>3. CASE k \in 1 .. n
    <3>1. g[k] = [time |-> BucketOf(entries[k].time), count |-> entries[k].count]
      BY <1>5, <2>3, InBucketsIs
    <3> QED
      BY <1>1, <2>1, <2>3, <3>1
  <2>4. k = n + 1 \/ k \in 1 .. n
    BY <1>1
  <2> QED
    BY <2>2, <2>3, <2>4
<1> HIDE DEF f, g, longer, n
<1>7. f = g
  BY <1>1, <1>2, <1>5, <1>6
<1> QED
  BY <1>7 DEF f, g, longer, b

\* What recordPublished does to the counts: the published messages are in their bucket.
LEMMA RecordedCounts ==
  ASSUME ThroughputInv, NEW count \in Nat
  PROVE  /\ Recorded(count) \in Seq(Entries)
         /\ \A c \in Nat : c >= now - Window =>
              CountFrom(Recorded(count), c)
              = CountFrom(buckets, c) + (IF BucketOf(now) >= c THEN count ELSE 0)
<1> DEFINE e == [time |-> BucketOf(now), count |-> count]
           final == Len(buckets)
           more == [buckets EXCEPT ![final].count = @ + count]
           added == IF final > 0 /\ buckets[final].time = BucketOf(now) THEN more ELSE Append(buckets, e)
<1>1. buckets \in Seq(Entries) /\ now \in Nat /\ Window \in Nat /\ now - Window \in Nat
  BY LiveUpdatesAssumption DEF ThroughputInv
<1>2. e \in Entries
  BY <1>1, BucketBounds DEF Entries
<1>3. Recorded(count) = Shifted(added, now - Window)
  BY DEF Recorded, BucketOf
<1>4. added \in Seq(Entries)
      /\ \A c \in Nat : CountFrom(added, c) = CountFrom(buckets, c) + (IF BucketOf(now) >= c THEN count ELSE 0)
  <2>1. CASE final > 0 /\ buckets[final].time = BucketOf(now)
    <3>1. added = more
      BY <2>1
    <3>2. more \in Seq(Entries)
      BY <1>1, <2>1, CountMerged, 0 \in Nat
    <3>3. ASSUME NEW c \in Nat
          PROVE  CountFrom(more, c) = CountFrom(buckets, c) + (IF buckets[final].time >= c THEN count ELSE 0)
      BY <1>1, <2>1, CountMerged
    <3> HIDE DEF added, more
    <3> QED
      BY <2>1, <3>1, <3>2, <3>3
  <2>2. CASE ~(final > 0 /\ buckets[final].time = BucketOf(now))
    <3>1. added = Append(buckets, e)
      BY <2>2
    <3>2. Append(buckets, e) \in Seq(Entries)
      BY <1>1, <1>2
    <3>3. ASSUME NEW c \in Nat
          PROVE  CountFrom(Append(buckets, e), c) = CountFrom(buckets, c) + (IF e.time >= c THEN e.count ELSE 0)
      BY <1>1, <1>2, CountAppended
    <3> HIDE DEF added
    <3> QED
      BY <3>1, <3>2, <3>3
  <2> QED
    BY <2>1, <2>2
<1> HIDE DEF added
<1>5. Shifted(added, now - Window) \in Seq(Entries)
  <2>1. now - Window >= now - Window
    BY <1>1
  <2> QED
    BY <1>1, <1>4, <2>1, CountShifted
<1>6. ASSUME NEW c \in Nat, c >= now - Window
      PROVE  CountFrom(Shifted(added, now - Window), c) = CountFrom(added, c)
  BY <1>1, <1>4, <1>6, CountShifted
<1> QED
  BY <1>3, <1>4, <1>5, <1>6

LEMMA ThroughputStarts == LiveInit => ThroughputInv
<1> SUFFICES ASSUME LiveInit PROVE ThroughputInv
  OBVIOUS
<1>1. now = Window /\ Window \in Nat /\ buckets = <<>> /\ log = <<>>
  BY LiveUpdatesAssumption DEF LiveInit
<1>2. << >> \in Seq(Entries)
  OBVIOUS
<1>3. InBuckets(log) = buckets
  <2>1. InBuckets(log) \in Seq(Entries) /\ Len(InBuckets(log)) = 0
    BY <1>1, <1>2, InBucketsIs
  <2> QED
    BY <1>1, <2>1
<1> QED
  BY <1>1, <1>2, <1>3 DEF ThroughputInv

LEMMA ThroughputStepKeeps == ThroughputInv /\ [LiveNext]_liveVars => ThroughputInv'
<1> SUFFICES ASSUME ThroughputInv, [LiveNext]_liveVars PROVE ThroughputInv'
  OBVIOUS
<1>1. ASSUME UNCHANGED <<now, buckets, log>> PROVE ThroughputInv'
  BY <1>1 DEF ThroughputInv, CountFrom, InBuckets, BucketOf
<1>2. ASSUME NEW s \in Sources, NEW sent \in Nat, NEW arrived, NEW sample, Reported(s, sent, arrived, sample)
      PROVE  ThroughputInv'
  <2> DEFINE e == [time |-> now, count |-> sent]
  <2>1. log' = Append(log, e) /\ buckets' = Recorded(sent) /\ now' = now
    BY <1>2 DEF Reported
  <2>2. now \in Nat /\ log \in Seq(Entries) /\ now >= Window
    BY DEF ThroughputInv
  <2>3. e \in Entries /\ e.time = now /\ e.count = sent
    BY <2>2 DEF Entries
  <2>4. InBuckets(log) \in Seq(Entries)
    BY <2>2, InBucketsIs
  <2> DEFINE b == [time |-> BucketOf(e.time), count |-> e.count]
  <2>5. b \in Entries /\ b.time = BucketOf(now) /\ b.count = sent
    BY <2>2, <2>3, BucketBounds DEF Entries
  <2> HIDE DEF e
  <2>6. InBuckets(log') = Append(InBuckets(log), b)
    BY <2>1, <2>2, <2>3, InBucketsAppended
  <2> HIDE DEF b
  <2>7. ASSUME NEW c \in Nat, c >= now - Window
        PROVE  CountFrom(Recorded(sent), c) = CountFrom(InBuckets(log'), c)
    <3>1. CountFrom(InBuckets(log'), c) = CountFrom(InBuckets(log), c) + (IF b.time >= c THEN b.count ELSE 0)
      BY <2>4, <2>5, <2>6, CountAppended
    <3>2. CountFrom(Recorded(sent), c) = CountFrom(buckets, c) + (IF BucketOf(now) >= c THEN sent ELSE 0)
      BY <2>7, RecordedCounts
    <3>3. CountFrom(buckets, c) = CountFrom(InBuckets(log), c)
      BY <2>7 DEF ThroughputInv
    <3> QED
      BY <2>5, <3>1, <3>2, <3>3
  <2>8. log' \in Seq(Entries) /\ buckets' \in Seq(Entries)
    BY <2>1, <2>2, <2>3, RecordedCounts
  <2>9. \A c \in Nat : c >= now - Window => CountFrom(buckets, c)' = CountFrom(InBuckets(log), c)'
    <3>1. \A c \in Nat : CountFrom(buckets, c)' = CountFrom(buckets', c)
      BY DEF CountFrom
    <3>2. \A c \in Nat : CountFrom(InBuckets(log), c)' = CountFrom(InBuckets(log'), c)
      BY DEF CountFrom, InBuckets, BucketOf
    <3> QED
      BY <2>1, <2>7, <3>1, <3>2
  <2> QED
    BY <2>1, <2>2, <2>8, <2>9 DEF ThroughputInv
<1>3. ASSUME NEW s \in Sources, NEW sent \in BatchSizes, NEW arrived \in {0, sent}, BatchPublished(s, sent, arrived)
      PROVE  ThroughputInv'
  <2>1. sent \in Nat
    BY LiveUpdatesAssumption
  <2> QED
    BY <1>2, <1>3, <2>1 DEF BatchPublished
<1>4. ASSUME NEW s \in Sources, NEW arrived \in {0, 1}, FlowMessage(s, arrived)
      PROVE  ThroughputInv'
  <2>1. 1 \in Nat
    OBVIOUS
  <2> QED
    BY <1>2, <1>4, <2>1 DEF FlowMessage
<1>5. ASSUME NEW s \in Sources, UpdateFires(s) \/ ResetStats(s) PROVE ThroughputInv'
  BY <1>1, <1>5 DEF UpdateFires, ResetStats
<1>6. ASSUME UpdateArrives \/ ClearHistory \/ UNCHANGED liveVars PROVE ThroughputInv'
  BY <1>1, <1>6 DEF UpdateArrives, ClearHistory, liveVars
<1>7. ASSUME Tick PROVE ThroughputInv'
  <2>1. now' = now + 1 /\ buckets' = buckets /\ log' = log
    BY <1>7 DEF Tick
  <2>2. now \in Nat /\ now >= Window /\ Window \in Nat
    BY LiveUpdatesAssumption DEF ThroughputInv
  <2>3. \A c \in Nat : c >= now' - Window => c >= now - Window
    BY <2>1, <2>2
  <2>4. \A c \in Nat : /\ CountFrom(buckets, c)' = CountFrom(buckets, c)
                       /\ CountFrom(InBuckets(log), c)' = CountFrom(InBuckets(log), c)
    BY <2>1 DEF CountFrom, InBuckets, BucketOf
  <2>5. now' \in Nat /\ now' >= Window
    BY <2>1, <2>2
  <2> QED
    BY <2>1, <2>3, <2>4, <2>5 DEF ThroughputInv
<1> QED
  BY <1>3, <1>4, <1>5, <1>6, <1>7 DEF LiveNext

LEMMA ThroughputBounds == ThroughputInv => ThroughputWithinWindow
<1> SUFFICES ASSUME ThroughputInv PROVE ThroughputWithinWindow
  OBVIOUS
<1> DEFINE c == now - Window
           late == now - Window + Bucket - 1
           n == Len(log)
           b == InBuckets(log)
<1>1. c \in Nat /\ late \in Nat /\ late = c + (Bucket - 1) /\ Bucket \in Nat /\ Bucket > 0
  BY LiveUpdatesAssumption DEF ThroughputInv
<1>2. log \in Seq(Entries) /\ n \in Nat
  BY DEF ThroughputInv
<1>3. b \in Seq(Entries) /\ Len(b) = n
  BY <1>2, InBucketsIs
<1>4. InWindow = CountFrom(b, c)
  <2>1. c >= now - Window
    BY <1>1
  <2> QED
    BY <1>1, <2>1 DEF ThroughputInv, InWindow
<1>5. ASSUME NEW k \in 1 .. n
      PROVE  /\ Weighed(log, late)[k] \in Nat /\ Weighed(b, c)[k] \in Nat /\ Weighed(log, c)[k] \in Nat
             /\ Weighed(log, late)[k] <= Weighed(b, c)[k] /\ Weighed(b, c)[k] <= Weighed(log, c)[k]
  <2> DEFINE t == log[k].time
             a == log[k].count
  <2>1. log[k] \in Entries
    BY <1>2, Weights, 0 \in Nat
  <2>2. t \in Nat /\ a \in Nat
    BY <2>1 DEF Entries
  <2>3. BucketOf(t) \in Nat /\ BucketOf(t) <= t /\ t < BucketOf(t) + Bucket
    BY <2>2, BucketBounds
  <2>4. b[k] = [time |-> BucketOf(t), count |-> a]
    BY <1>2, InBucketsIs
  <2>5. Weighed(log, late)[k] = (IF t >= late THEN a ELSE 0) /\ Weighed(log, c)[k] = (IF t >= c THEN a ELSE 0)
    BY <1>1, <1>2, Weights
  <2>6. Weighed(b, c)[k] = IF BucketOf(t) >= c THEN a ELSE 0
    <3>1. Weighed(b, c)[k] = IF b[k].time >= c THEN b[k].count ELSE 0
      BY <1>1, <1>3, Weights
    <3> HIDE DEF b
    <3> QED
      BY <2>4, <3>1
  <2> HIDE DEF t, a, late, c, b
  <2> QED
    BY <1>1, <2>2, <2>3, <2>5, <2>6
<1>6. /\ CountFrom(log, late) = SumTo(Weighed(log, late), n)
      /\ CountFrom(b, c) = SumTo(Weighed(b, c), n)
      /\ CountFrom(log, c) = SumTo(Weighed(log, c), n)
  BY <1>1, <1>2, <1>3, Weights
<1>7. /\ SumTo(Weighed(log, late), n) <= SumTo(Weighed(b, c), n)
      /\ SumTo(Weighed(b, c), n) <= SumTo(Weighed(log, c), n)
  <2> HIDE DEF n, b, c, late
  <2>1. SumTo(Weighed(log, late), n) <= SumTo(Weighed(b, c), n)
    BY <1>2, <1>5, SumMonotone
  <2>2. SumTo(Weighed(b, c), n) <= SumTo(Weighed(log, c), n)
    BY <1>2, <1>5, SumMonotone
  <2> QED
    BY <2>1, <2>2
<1> HIDE DEF n, b
<1> QED
  BY <1>4, <1>6, <1>7 DEF ThroughputWithinWindow

\* The throughput that suppresses the samples and that the dashboard shows is the number of
\* messages published in the last window, but for less than one bucket: the buckets that are
\* left hold every message whose bucket is not too old (recordPublished, getTelemetry).
THEOREM ThroughputIsOfTheWindow == LiveSpec => []ThroughputWithinWindow
<1>1. ThroughputInv => ThroughputWithinWindow
  BY ThroughputBounds
<1> QED
  BY <1>1, ThroughputStarts, ThroughputStepKeeps, PTL DEF LiveSpec

-----------------------------------------------------------------------------
(* The counts.                                                             *)

Kinds == {"sent", "received"}
Waiting == [counts : Counts, sample : Nat, captured : BOOLEAN, timer : BOOLEAN]
Updates == [schema : Sources, counts : Counts, sample : Nat, captured : BOOLEAN]
Share(u, s, k) == IF u.schema = s THEN u.counts[k] ELSE 0

\* The shares of a schema in a queue of updates.
Shares(q, s, k) == [i \in DOMAIN q |-> IF q[i].schema = s THEN q[i].counts[k] ELSE 0]

Balanced ==
  \A s \in Sources :
    /\ \A k \in Kinds : published[s][k] = stats[s][k] + throttled[s].counts[k]
                                          + SumTo(Shares(updates, s, k), Len(updates))
    /\ throttled[s].counts # NoCounts => throttled[s].timer

CountsInv ==
  /\ throttled \in [Sources -> Waiting] /\ updates \in Seq(Updates)
  /\ stats \in [Sources -> Counts] /\ published \in [Sources -> Counts]
  /\ Balanced

\* A pair of counts is its two numbers.
LEMMA CountsAre ==
  /\ \A a \in Counts : a["sent"] = a.sent /\ a["received"] = a.received /\ a.sent \in Nat /\ a.received \in Nat
  /\ \A a \in Counts, k \in Kinds : a[k] \in Nat
  /\ NoCounts \in Counts /\ \A k \in Kinds : NoCounts[k] = 0
  /\ \A a, b \in Counts : Add(a, b) \in Counts /\ \A k \in Kinds : Add(a, b)[k] = a[k] + b[k]
  /\ \A a, b \in Counts : (\A k \in Kinds : a[k] = b[k]) => a = b
<1>1. \A a \in Counts : a["sent"] = a.sent /\ a["received"] = a.received /\ a.sent \in Nat /\ a.received \in Nat
  BY DEF Counts
<1>2. \A a \in Counts, k \in Kinds : a[k] \in Nat
  BY <1>1 DEF Kinds
<1>3. NoCounts \in Counts /\ \A k \in Kinds : NoCounts[k] = 0
  BY DEF Counts, NoCounts, Kinds
<1>4. ASSUME NEW a \in Counts, NEW b \in Counts
      PROVE  Add(a, b) \in Counts /\ \A k \in Kinds : Add(a, b)[k] = a[k] + b[k]
  <2>1. a.sent + b.sent \in Nat /\ a.received + b.received \in Nat
    BY <1>1
  <2> QED
    BY <1>1, <2>1 DEF Add, Counts, Kinds
<1>5. ASSUME NEW a \in Counts, NEW b \in Counts, \A k \in Kinds : a[k] = b[k] PROVE a = b
  <2>1. a.sent = b.sent /\ a.received = b.received
    BY <1>1, <1>5 DEF Kinds
  <2> QED
    BY <2>1 DEF Counts
<1> QED
  BY <1>1, <1>2, <1>3, <1>4, <1>5

LEMMA SharesAre ==
  ASSUME NEW q \in Seq(Updates), NEW s \in Sources, NEW k \in Kinds
  PROVE  \A i \in 1 .. Len(q) : Shares(q, s, k)[i] = Share(q[i], s, k) /\ Share(q[i], s, k) \in Nat
<1>1. ASSUME NEW i \in 1 .. Len(q) PROVE Shares(q, s, k)[i] = Share(q[i], s, k) /\ Share(q[i], s, k) \in Nat
  <2>1. i \in DOMAIN q /\ q[i] \in Updates
    OBVIOUS
  <2>2. q[i].counts \in Counts
    BY <2>1 DEF Updates
  <2>3. q[i].counts[k] \in Nat
    BY <2>2, CountsAre
  <2> QED
    BY <2>1, <2>3 DEF Share, Shares
<1> QED
  BY <1>1

LEMMA SharesAppended ==
  ASSUME NEW q \in Seq(Updates), NEW u \in Updates, NEW s \in Sources, NEW k \in Kinds
  PROVE  /\ Append(q, u) \in Seq(Updates) /\ SumTo(Shares(q, s, k), Len(q)) \in Nat
         /\ SumTo(Shares(Append(q, u), s, k), Len(Append(q, u)))
            = SumTo(Shares(q, s, k), Len(q)) + Share(u, s, k)
<1> DEFINE r == Append(q, u)
           f == Shares(q, s, k)
           g == Shares(r, s, k)
           n == Len(q)
<1>1. /\ r \in Seq(Updates) /\ n \in Nat /\ Len(r) = n + 1
      /\ r[n + 1] = u /\ \A i \in 1 .. n : r[i] = q[i]
  OBVIOUS
<1> HIDE DEF r
<1>2. \A i \in 1 .. n : f[i] = Share(q[i], s, k) /\ Share(q[i], s, k) \in Nat
  BY SharesAre
<1>3. \A i \in 1 .. Len(r) : g[i] = Share(r[i], s, k) /\ Share(r[i], s, k) \in Nat
  BY <1>1, SharesAre
<1> HIDE DEF f, g, n
<1>4. \A i \in 1 .. n : f[i] \in Nat /\ g[i] = f[i]
  <2>1. ASSUME NEW i \in 1 .. n PROVE f[i] \in Nat /\ g[i] = f[i]
    <3>1. i \in 1 .. Len(r)
      BY <1>1
    <3> QED
      BY <1>1, <1>2, <1>3, <3>1
  <2> QED
    BY <2>1
<1>5. g[n + 1] = Share(u, s, k) /\ g[n + 1] \in Nat
  <2>1. n + 1 \in 1 .. Len(r)
    BY <1>1
  <2> QED
    BY <1>1, <1>3, <2>1
<1>6. SumTo(g, n + 1) = SumTo(f, n) + g[n + 1] /\ SumTo(f, n) \in Nat
  BY <1>1, <1>4, <1>5, SumNext
<1>7. SumTo(g, Len(r)) = SumTo(f, n) + Share(u, s, k)
  BY <1>1, <1>5, <1>6
<1> QED
  BY <1>1, <1>6, <1>7 DEF f, g, n, r

LEMMA SharesTail ==
  ASSUME NEW q \in Seq(Updates), q # <<>>, NEW s \in Sources, NEW k \in Kinds
  PROVE  /\ Tail(q) \in Seq(Updates) /\ Head(q) \in Updates
         /\ SumTo(Shares(Tail(q), s, k), Len(Tail(q))) \in Nat
         /\ SumTo(Shares(q, s, k), Len(q))
            = Share(Head(q), s, k) + SumTo(Shares(Tail(q), s, k), Len(Tail(q)))
<1> DEFINE r == Tail(q)
           f == Shares(q, s, k)
           g == Shares(r, s, k)
           m == Len(r)
<1>1. /\ r \in Seq(Updates) /\ m \in Nat /\ Len(q) = 1 + m
      /\ Head(q) = q[1] /\ q[1] \in Updates
      /\ \A i \in 1 .. m : r[i] = q[1 + i]
  OBVIOUS
<1> HIDE DEF r
<1>2. \A i \in 1 .. Len(q) : f[i] = Share(q[i], s, k) /\ Share(q[i], s, k) \in Nat
  BY SharesAre
<1>3. \A i \in 1 .. m : g[i] = Share(r[i], s, k) /\ Share(r[i], s, k) \in Nat
  BY <1>1, SharesAre
<1> HIDE DEF f, g, m
<1>4. \A i \in 1 .. m : g[i] = f[1 + i] /\ g[i] \in Nat
  <2>1. ASSUME NEW i \in 1 .. m PROVE g[i] = f[1 + i] /\ g[i] \in Nat
    <3>1. 1 + i \in 1 .. Len(q)
      BY <1>1
    <3> QED
      BY <1>1, <1>2, <1>3, <3>1
  <2> QED
    BY <2>1
<1>5. \A i \in 1 .. 1 + m : f[i] \in Nat
  BY <1>1, <1>2
<1>6. SumTo(f, 1 + m) = SumTo(f, 1) + SumTo(g, m)
  BY <1>1, <1>4, <1>5, 1 \in Nat, SumShift
<1>7. SumTo(f, 1) = f[1]
  <2>1. 1 \in Nat /\ 0 \in 0 .. 1 - 1 /\ 0 + 1 = 1 /\ 1 \in 1 .. 1 /\ \A i \in 1 .. 1 : i \in 1 .. 1 + m
    BY <1>1
  <2>2. \A i \in 1 .. 1 : f[i] \in Nat
    BY <1>5, <2>1
  <2>3. SumTo(f, 0) = 0 /\ SumTo(f, 0 + 1) = SumTo(f, 0) + f[0 + 1]
    BY <2>1, <2>2, SumSteps
  <2> QED
    BY <2>1, <2>2, <2>3
<1>8. f[1] = Share(Head(q), s, k)
  <2>1. 1 \in 1 .. Len(q)
    BY <1>1
  <2> QED
    BY <1>1, <1>2, <2>1
<1>9. SumTo(g, m) \in Nat
  <2>1. m \in 0 .. m
    BY <1>1
  <2> QED
    BY <1>1, <1>4, <2>1, SumSteps
<1>10. SumTo(f, Len(q)) = Share(Head(q), s, k) + SumTo(g, m)
  BY <1>1, <1>6, <1>7, <1>8
<1> QED
  BY <1>1, <1>9, <1>10 DEF f, g, m, r

LEMMA SumOfShares ==
  ASSUME NEW q \in Seq(Updates), NEW s \in Sources, NEW k \in Kinds
  PROVE  SumTo(Shares(q, s, k), Len(q)) \in Nat
<1>1. Len(q) \in Nat /\ Len(q) \in 0 .. Len(q)
  OBVIOUS
<1>2. \A i \in 1 .. Len(q) : Shares(q, s, k)[i] \in Nat
  BY SharesAre
<1> QED
  BY <1>1, <1>2, SumSteps

LEMMA CountsStart == LiveInit => CountsInv
<1> SUFFICES ASSUME LiveInit PROVE CountsInv
  OBVIOUS
<1>1. NoCounts \in Counts /\ \A k \in Kinds : NoCounts[k] = 0
  BY CountsAre
<1>2. throttled \in [Sources -> Waiting] /\ \A s \in Sources : throttled[s].counts = NoCounts
  BY <1>1 DEF LiveInit, Waiting
<1>3. stats \in [Sources -> Counts] /\ published \in [Sources -> Counts]
      /\ \A s \in Sources : stats[s] = NoCounts /\ published[s] = NoCounts
  BY <1>1 DEF LiveInit
<1>4. updates = <<>> /\ updates \in Seq(Updates) /\ Len(updates) = 0
  BY DEF LiveInit
<1>5. ASSUME NEW s \in Sources, NEW k \in Kinds PROVE SumTo(Shares(updates, s, k), Len(updates)) = 0
  <2>1. \A i \in 1 .. Len(updates) : Shares(updates, s, k)[i] = 0
    BY <1>4
  <2> QED
    BY <1>4, <2>1, SumNone
<1>6. Balanced
  <2>1. ASSUME NEW s \in Sources, NEW k \in Kinds
        PROVE  published[s][k] = stats[s][k] + throttled[s].counts[k]
                                 + SumTo(Shares(updates, s, k), Len(updates))
    BY <1>1, <1>2, <1>3, <1>5
  <2> QED
    BY <1>2, <2>1 DEF Balanced
<1> QED
  BY <1>2, <1>3, <1>4, <1>6 DEF CountsInv

LEMMA ReportedKeepsCounts ==
  ASSUME CountsInv, NEW s \in Sources, NEW sent \in Nat, NEW arrived \in Nat, NEW sample \in Nat,
         Reported(s, sent, arrived, sample)
  PROVE  CountsInv'
<1> DEFINE news == [sent |-> sent, received |-> arrived]
           more == Throttled(s, news, sample)
<1>1. news \in Counts
  BY DEF Counts
<1> HIDE DEF news
<1>2. throttled[s] \in Waiting /\ throttled \in [Sources -> Waiting] /\ published \in [Sources -> Counts]
  BY DEF CountsInv
<1>3. throttled[s].counts \in Counts /\ throttled[s].sample \in Nat /\ throttled[s].captured \in BOOLEAN
  BY <1>2 DEF Waiting
<1>4. Add(throttled[s].counts, news) \in Counts
      /\ \A k \in Kinds : Add(throttled[s].counts, news)[k] = throttled[s].counts[k] + news[k]
  BY <1>1, <1>3, CountsAre
<1>5. more.counts = Add(throttled[s].counts, news) /\ more.timer = TRUE
  BY DEF Throttled
<1>6. more \in Waiting
  <2>1. (IF sample = 0 THEN throttled[s].sample ELSE sample) \in Nat
    BY <1>3
  <2>2. (throttled[s].captured \/ sample # 0) \in BOOLEAN
    OBVIOUS
  <2> QED
    BY <1>4, <2>1, <2>2 DEF Throttled, Waiting
<1>7. published[s] \in Counts /\ Add(published[s], news) \in Counts
      /\ \A k \in Kinds : Add(published[s], news)[k] = published[s][k] + news[k]
  BY <1>1, <1>2, CountsAre
<1>8. /\ throttled' = [throttled EXCEPT ![s] = more]
      /\ published' = [published EXCEPT ![s] = Add(published[s], news)]
      /\ updates' = updates /\ stats' = stats
  BY DEF Reported, news
<1> HIDE DEF more
<1>9. throttled' \in [Sources -> Waiting] /\ published' \in [Sources -> Counts]
  BY <1>2, <1>6, <1>7, <1>8
<1>10. ASSUME NEW r \in Sources
       PROVE  /\ \A k \in Kinds : published'[r][k] = stats'[r][k] + throttled'[r].counts[k]
                                                     + SumTo(Shares(updates', r, k), Len(updates'))
              /\ throttled'[r].counts # NoCounts => throttled'[r].timer
  <2>1. /\ \A k \in Kinds : published[r][k] = stats[r][k] + throttled[r].counts[k]
                                              + SumTo(Shares(updates, r, k), Len(updates))
        /\ throttled[r].counts # NoCounts => throttled[r].timer
    BY DEF CountsInv, Balanced
  <2>2. CASE r # s
    <3>1. throttled'[r] = throttled[r] /\ published'[r] = published[r]
      BY <1>2, <1>8, <2>2
    <3> QED
      BY <1>8, <2>1, <3>1
  <2>3. CASE r = s
    <3>1. throttled'[r] = more /\ published'[r] = Add(published[s], news)
      BY <1>2, <1>8, <2>3
    <3>2. ASSUME NEW k \in Kinds
          PROVE  published'[r][k] = stats'[r][k] + throttled'[r].counts[k]
                                    + SumTo(Shares(updates', r, k), Len(updates'))
      <4>1. published[s][k] \in Nat /\ news[k] \in Nat /\ throttled[s].counts[k] \in Nat /\ stats[s][k] \in Nat
        <5>1. stats[s] \in Counts
          BY DEF CountsInv
        <5> QED
          BY <1>1, <1>3, <1>7, <5>1, CountsAre
      <4>2. SumTo(Shares(updates, s, k), Len(updates)) \in Nat
        BY SumOfShares DEF CountsInv
      <4>3. published'[r][k] = published[s][k] + news[k]
            /\ throttled'[r].counts[k] = throttled[s].counts[k] + news[k] /\ stats'[r][k] = stats[s][k]
        BY <1>4, <1>5, <1>7, <1>8, <2>3, <3>1
      <4>4. published[s][k] = stats[s][k] + throttled[s].counts[k] + SumTo(Shares(updates, s, k), Len(updates))
        BY <2>1, <2>3
      <4>5. SumTo(Shares(updates', r, k), Len(updates')) = SumTo(Shares(updates, s, k), Len(updates))
        BY <1>8, <2>3
      <4> QED
        BY <4>1, <4>2, <4>3, <4>4, <4>5
    <3>3. throttled'[r].timer
      BY <1>5, <3>1
    <3> QED
      BY <3>2, <3>3
  <2> QED
    BY <2>2, <2>3
<1>11. Balanced'
  BY <1>10 DEF Balanced
<1> QED
  BY <1>8, <1>9, <1>11 DEF CountsInv

LEMMA UpdateFiresKeepsCounts ==
  ASSUME CountsInv, NEW s \in Sources, UpdateFires(s)
  PROVE  CountsInv'
<1> DEFINE t == throttled[s]
           u == [schema |-> s, counts |-> t.counts, sample |-> t.sample, captured |-> t.captured]
           rest == [t EXCEPT !.counts = NoCounts, !.captured = FALSE, !.timer = FALSE]
<1>1. throttled \in [Sources -> Waiting] /\ updates \in Seq(Updates) /\ t \in Waiting
  BY DEF CountsInv
<1>2. t.counts \in Counts /\ t.sample \in Nat /\ t.captured \in BOOLEAN
  BY <1>1 DEF Waiting
<1>3. u \in Updates /\ u.schema = s /\ u.counts = t.counts
  BY <1>2 DEF Updates
<1>4. rest \in Waiting /\ rest.counts = NoCounts
  BY <1>1, <1>2, CountsAre DEF Waiting
<1>5. /\ throttled' = [throttled EXCEPT ![s] = rest] /\ updates' = Append(updates, u)
      /\ stats' = stats /\ published' = published
  BY DEF UpdateFires
<1> HIDE DEF t, u, rest
<1>6. throttled' \in [Sources -> Waiting]
  BY <1>1, <1>4, <1>5
<1>7. updates' \in Seq(Updates)
  BY <1>1, <1>3, <1>5
<1>8. ASSUME NEW r \in Sources
      PROVE  /\ \A k \in Kinds : published'[r][k] = stats'[r][k] + throttled'[r].counts[k]
                                                    + SumTo(Shares(updates', r, k), Len(updates'))
             /\ throttled'[r].counts # NoCounts => throttled'[r].timer
  <2>1. /\ \A k \in Kinds : published[r][k] = stats[r][k] + throttled[r].counts[k]
                                              + SumTo(Shares(updates, r, k), Len(updates))
        /\ throttled[r].counts # NoCounts => throttled[r].timer
    BY DEF CountsInv, Balanced
  <2>2. throttled'[r] = IF r = s THEN rest ELSE throttled[r]
    BY <1>1, <1>5
  <2>3. ASSUME NEW k \in Kinds
        PROVE  published'[r][k] = stats'[r][k] + throttled'[r].counts[k]
                                  + SumTo(Shares(updates', r, k), Len(updates'))
    <3>1. SumTo(Shares(updates', r, k), Len(updates')) = SumTo(Shares(updates, r, k), Len(updates)) + Share(u, r, k)
          /\ SumTo(Shares(updates, r, k), Len(updates)) \in Nat
      BY <1>1, <1>3, <1>5, SharesAppended
    <3>2. Share(u, r, k) + throttled'[r].counts[k] = throttled[r].counts[k]
          /\ Share(u, r, k) \in Nat /\ throttled'[r].counts[k] \in Nat
      <4>1. NoCounts[k] = 0 /\ throttled[r].counts[k] \in Nat
        <5>1. throttled[r].counts \in Counts
          BY <1>1 DEF Waiting
        <5> QED
          BY <5>1, CountsAre
      <4>2. CASE r = s
        <5>1. Share(u, r, k) = throttled[r].counts[k] /\ throttled'[r].counts[k] = 0
          BY <1>3, <1>4, <2>2, <4>1, <4>2 DEF Share, t
        <5> QED
          BY <4>1, <5>1
      <4>3. CASE r # s
        <5>1. Share(u, r, k) = 0 /\ throttled'[r].counts[k] = throttled[r].counts[k]
          BY <1>3, <2>2, <4>3 DEF Share
        <5> QED
          BY <4>1, <5>1
      <4> QED
        BY <4>2, <4>3
    <3>3. stats[r][k] \in Nat
      <4>1. stats[r] \in Counts
        BY DEF CountsInv
      <4> QED
        BY <4>1, CountsAre
    <3>4. published'[r][k] = published[r][k] /\ stats'[r][k] = stats[r][k]
      BY <1>5
    <3> QED
      BY <2>1, <3>1, <3>2, <3>3, <3>4
  <2>4. throttled'[r].counts # NoCounts => throttled'[r].timer
    BY <1>4, <2>1, <2>2
  <2> QED
    BY <2>3, <2>4
<1>9. Balanced'
  BY <1>8 DEF Balanced
<1>10. stats' \in [Sources -> Counts] /\ published' \in [Sources -> Counts]
  BY <1>5 DEF CountsInv
<1> QED
  BY <1>6, <1>7, <1>9, <1>10 DEF CountsInv

LEMMA UpdateArrivesKeepsCounts ==
  ASSUME CountsInv, UpdateArrives
  PROVE  CountsInv'
<1> DEFINE u == Head(updates)
           sum == Add(stats[u.schema], u.counts)
<1>1. updates \in Seq(Updates) /\ updates # <<>> /\ stats \in [Sources -> Counts]
      /\ throttled \in [Sources -> Waiting]
  BY DEF CountsInv, UpdateArrives
<1>2. u \in Updates /\ Tail(updates) \in Seq(Updates)
  BY <1>1
<1>3. u.schema \in Sources /\ u.counts \in Counts
  BY <1>2 DEF Updates
<1>4. stats[u.schema] \in Counts
  BY <1>1, <1>3
<1>5. sum \in Counts /\ \A k \in Kinds : sum[k] = stats[u.schema][k] + u.counts[k]
  BY <1>3, <1>4, CountsAre
<1>6. /\ updates' = Tail(updates) /\ stats' = [stats EXCEPT ![u.schema] = sum]
      /\ throttled' = throttled /\ published' = published
  BY DEF UpdateArrives
<1> HIDE DEF sum
<1>7. stats' \in [Sources -> Counts]
  BY <1>1, <1>5, <1>6
<1>8. ASSUME NEW r \in Sources, NEW k \in Kinds
      PROVE  published'[r][k] = stats'[r][k] + throttled'[r].counts[k]
                                + SumTo(Shares(updates', r, k), Len(updates'))
  <2>1. published[r][k] = stats[r][k] + throttled[r].counts[k] + SumTo(Shares(updates, r, k), Len(updates))
    BY DEF CountsInv, Balanced
  <2>2. SumTo(Shares(updates, r, k), Len(updates))
        = Share(u, r, k) + SumTo(Shares(updates', r, k), Len(updates'))
        /\ SumTo(Shares(updates', r, k), Len(updates')) \in Nat
    BY <1>1, <1>6, SharesTail
  <2>3. stats'[r][k] = stats[r][k] + Share(u, r, k) /\ stats[r][k] \in Nat /\ Share(u, r, k) \in Nat
    <3>1. stats[r][k] \in Nat /\ u.counts[k] \in Nat
      BY <1>1, <1>3, CountsAre
    <3> HIDE DEF u
    <3>2. CASE r = u.schema
      BY <1>1, <1>3, <1>5, <1>6, <3>1, <3>2 DEF Share
    <3>3. CASE r # u.schema
      BY <1>1, <1>6, <3>1, <3>3 DEF Share
    <3> QED
      BY <3>2, <3>3
  <2>4. throttled[r].counts[k] \in Nat
    <3>1. throttled[r].counts \in Counts
      BY <1>1 DEF Waiting
    <3> QED
      BY <3>1, CountsAre
  <2>5. published'[r][k] = published[r][k] /\ throttled'[r].counts[k] = throttled[r].counts[k]
    BY <1>6
  <2> QED
    BY <2>1, <2>2, <2>3, <2>4, <2>5
<1>9. \A r \in Sources : throttled'[r].counts # NoCounts => throttled'[r].timer
  BY <1>6 DEF CountsInv, Balanced
<1>10. Balanced'
  BY <1>8, <1>9 DEF Balanced
<1> QED
  BY <1>2, <1>6, <1>7, <1>10 DEF CountsInv

LEMMA ResetStatsKeepsCounts ==
  ASSUME CountsInv, NEW s \in Sources, ResetStats(s)
  PROVE  CountsInv'
<1> DEFINE left == [sent |-> published[s].sent - stats[s].sent,
                    received |-> published[s].received - stats[s].received]
<1>1. /\ throttled \in [Sources -> Waiting] /\ updates \in Seq(Updates)
      /\ stats \in [Sources -> Counts] /\ published \in [Sources -> Counts]
  BY DEF CountsInv
<1>2. stats' = [stats EXCEPT ![s] = NoCounts] /\ published' = [published EXCEPT ![s] = left]
      /\ throttled' = throttled /\ updates' = updates
  BY DEF ResetStats
<1>3. ASSUME NEW r \in Sources, NEW k \in Kinds
      PROVE  /\ published[r][k] = stats[r][k] + throttled[r].counts[k] + SumTo(Shares(updates, r, k), Len(updates))
             /\ published[r][k] \in Nat /\ stats[r][k] \in Nat /\ throttled[r].counts[k] \in Nat
             /\ SumTo(Shares(updates, r, k), Len(updates)) \in Nat
  <2>1. published[r] \in Counts /\ stats[r] \in Counts /\ throttled[r].counts \in Counts
    BY <1>1 DEF Waiting
  <2>2. published[r][k] \in Nat /\ stats[r][k] \in Nat /\ throttled[r].counts[k] \in Nat
    BY <2>1, CountsAre
  <2>3. SumTo(Shares(updates, r, k), Len(updates)) \in Nat
    BY <1>1, SumOfShares
  <2>4. published[r][k] = stats[r][k] + throttled[r].counts[k] + SumTo(Shares(updates, r, k), Len(updates))
    BY DEF CountsInv, Balanced
  <2> QED
    BY <2>2, <2>3, <2>4
<1>4. left \in Counts /\ \A k \in Kinds : left[k] = published[s][k] - stats[s][k]
  <2>1. published[s] \in Counts /\ stats[s] \in Counts
    BY <1>1
  <2>2. ASSUME NEW k \in Kinds PROVE published[s][k] - stats[s][k] \in Nat
    BY <1>3
  <2>3. left.sent = published[s]["sent"] - stats[s]["sent"]
        /\ left.received = published[s]["received"] - stats[s]["received"]
    OBVIOUS
  <2>4. left.sent \in Nat /\ left.received \in Nat
    BY <2>2, <2>3 DEF Kinds
  <2>5. left \in Counts
    BY <2>4 DEF Counts
  <2> QED
    BY <2>3, <2>5, CountsAre DEF Kinds
<1> HIDE DEF left
<1>5. stats' \in [Sources -> Counts] /\ published' \in [Sources -> Counts]
  BY <1>1, <1>2, <1>4, CountsAre
<1>6. ASSUME NEW r \in Sources, NEW k \in Kinds
      PROVE  published'[r][k] = stats'[r][k] + throttled'[r].counts[k]
                                + SumTo(Shares(updates', r, k), Len(updates'))
  <2>1. SumTo(Shares(updates', r, k), Len(updates')) = SumTo(Shares(updates, r, k), Len(updates))
        /\ throttled'[r].counts[k] = throttled[r].counts[k]
    BY <1>2
  <2>2. CASE r = s
    <3>1. published'[r][k] = published[r][k] - stats[r][k] /\ stats'[r][k] = 0
      BY <1>1, <1>2, <1>4, <2>2, CountsAre
    <3> QED
      BY <1>3, <2>1, <3>1
  <2>3. CASE r # s
    <3>1. published'[r][k] = published[r][k] /\ stats'[r][k] = stats[r][k]
      BY <1>1, <1>2, <2>3
    <3> QED
      BY <1>3, <2>1, <3>1
  <2> QED
    BY <2>2, <2>3
<1>7. \A r \in Sources : throttled'[r].counts # NoCounts => throttled'[r].timer
  BY <1>2 DEF CountsInv, Balanced
<1>8. Balanced'
  BY <1>6, <1>7 DEF Balanced
<1> QED
  BY <1>1, <1>2, <1>5, <1>8 DEF CountsInv

LEMMA CountsStepKeeps == CountsInv /\ log \in Seq(Entries) /\ [LiveNext]_liveVars => CountsInv'
<1> SUFFICES ASSUME CountsInv, log \in Seq(Entries), [LiveNext]_liveVars PROVE CountsInv'
  OBVIOUS
<1>1. Batch \in Nat
  BY DEF Batch
<1>2. ASSUME NEW s \in Sources, NEW sent \in BatchSizes, NEW arrived \in {0, sent}, BatchPublished(s, sent, arrived)
      PROVE  CountsInv'
  <2>1. sent \in Nat /\ arrived \in Nat
    BY LiveUpdatesAssumption
  <2> DEFINE sample == IF ShouldCapture(s) /\ sent > 0 THEN Batch ELSE 0
  <2>2. sample \in Nat
    BY <1>1
  <2>3. Reported(s, sent, arrived, sample)
    BY <1>2 DEF BatchPublished
  <2> HIDE DEF sample
  <2> QED
    BY <2>1, <2>2, <2>3, ReportedKeepsCounts
<1>3. ASSUME NEW s \in Sources, NEW arrived \in {0, 1}, FlowMessage(s, arrived)
      PROVE  CountsInv'
  <2>1. 1 \in Nat /\ arrived \in Nat
    OBVIOUS
  <2>2. Reported(s, 1, arrived, Batch)
    BY <1>3 DEF FlowMessage
  <2> QED
    BY <1>1, <2>1, <2>2, ReportedKeepsCounts
<1>4. ASSUME NEW s \in Sources, UpdateFires(s) \/ ResetStats(s) PROVE CountsInv'
  BY <1>4, UpdateFiresKeepsCounts, ResetStatsKeepsCounts
<1>5. CASE UpdateArrives
  BY <1>5, UpdateArrivesKeepsCounts
<1>6. CASE ClearHistory \/ Tick \/ UNCHANGED liveVars
  <2>1. UNCHANGED <<throttled, updates, stats, published>>
    BY <1>6 DEF ClearHistory, Tick, liveVars
  <2> QED
    BY <2>1 DEF CountsInv, Balanced, Shares
<1> QED
  BY <1>2, <1>3, <1>4, <1>5, <1>6 DEF LiveNext

\* Nothing a browser is told of a schema is counted twice or left out: what its card shows,
\* what is on its way and what waits for the throttle timer are together what was published
\* since the statistics were reset (emitThrottledUpdate, schemaStats).
THEOREM CountsAreComplete == LiveSpec => []CountsAddUp
<1>1. CountsInv => CountsAddUp
  BY DEF CountsInv, Balanced, CountsAddUp, OnTheWay, Shares, Kinds
<1>2. LiveInit => CountsInv /\ ThroughputInv
  BY CountsStart, ThroughputStarts
<1>3. CountsInv /\ ThroughputInv /\ [LiveNext]_liveVars => CountsInv' /\ ThroughputInv'
  <2>1. ThroughputInv => log \in Seq(Entries)
    BY DEF ThroughputInv
  <2> QED
    BY <2>1, CountsStepKeeps, ThroughputStepKeeps
<1> QED
  BY <1>1, <1>2, <1>3, PTL DEF LiveSpec
=============================================================================
