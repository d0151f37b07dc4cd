---------------------------- MODULE StatusGateway ----------------------------
(***************************************************************************)
(* StatusGateway (apps/backend/src/gateway/status.gateway.ts) and the      *)
(* SocketService of each browser                                           *)
(* (apps/frontend/src/app/services/socket.service.ts), with the buttons of *)
(* the schema cards and of the flow canvas: what a browser believes of     *)
(* running tests, flows and bursts, from the events it gets.               *)
(*                                                                         *)
(* Socket.IO delivers in order while a link is up.  What is under way when *)
(* it drops is lost in both directions; what a browser emits while it is   *)
(* disconnected is kept by the client library and sent after it reconnects.*)
(*                                                                         *)
(* Abstractions: the load tests behind a name (module LoadTest) and the    *)
(* runs of a flow (FlowEngine) are a name in a set; whether a start_test   *)
(* is accepted is a choice, and of the frequency it asks for only whether  *)
(* it is 0 is kept; a browser whose token is refused is left out.          *)
(***************************************************************************)
EXTENDS Naturals, FiniteSets, Sequences

CONSTANTS
  Clients,      \* browsers
  Schemas,
  Flows,
  Refusable,    \* schemas whose start_test may end before startLoadTest
  MaxRequests,  \* bound: requests of all browsers
  MaxDrops      \* bound: links that drop

VARIABLES
  activeTests,  \* keys of GeneratorService.activeIntervals
  atZero,       \* those of frequency 0, which take nothing of the budget
  activeFlows,  \* keys of FlowEngineService.activeFlows
  preparing,    \* preparing[type][s]: start_test events at their await of prepareDestination
  bursts,       \* bursts[s]: burst_test events at their await of burst
  linked,       \* browsers connected to the backend
  inbox,        \* inbox[c]: events on their way to browser c
  outbox,       \* outbox[c]: requests of browser c, not handled yet
  view,         \* view[c]: what the SocketService of c holds
  steady,       \* browsers whose link never dropped since the backend started
  requests, drops

backendVars == <<activeTests, atZero, activeFlows, preparing, bursts>>
gatewayVars == <<backendVars, linked, inbox, outbox, view, steady, requests, drops>>

\* A start_test at a frequency above 0, and one at 0.
Starts == {"start_test", "start_test_at_0"}

Actions == {"none", "starting", "stopping"}
Idle(ids) == [i \in ids |-> "none"]

\* The signals of a SocketService that show running work.
Views == [activeSchemaIds : SUBSET Schemas, activeFlowIds : SUBSET Flows, activeBurstIds : SUBSET Schemas,
          pendingSchemaActions : [Schemas -> Actions], pendingFlowActions : [Flows -> Actions]]

Event(type, id) == [type |-> type, ids |-> {id}]
StatusUpdate == [type |-> "status_update", ids |-> activeTests]

GatewayInit ==
  /\ activeTests = {} /\ atZero = {} /\ activeFlows = {}
  /\ preparing = [type \in Starts |-> [s \in Schemas |-> 0]] /\ bursts = [s \in Schemas |-> 0]
  /\ linked = Clients /\ steady = Clients
  /\ inbox = [c \in Clients |-> <<>>] /\ outbox = [c \in Clients |-> <<>>]
  /\ view = [c \in Clients |-> [activeSchemaIds |-> {}, activeFlowIds |-> {}, activeBurstIds |-> {},
                                pendingSchemaActions |-> Idle(Schemas), pendingFlowActions |-> Idle(Flows)]]
  /\ requests = 0 /\ drops = 0

-----------------------------------------------------------------------------
(* The browser: events. *)

Forgotten(pending, ids) == [i \in DOMAIN pending |-> IF i \in ids THEN "none" ELSE pending[i]]

\* reconcilePendingSchemaActions: what the status shows to be done is no longer pending.
Reconciled(pending, active) ==
  [s \in Schemas |-> IF \/ pending[s] = "starting" /\ s \in active
                        \/ pending[s] = "stopping" /\ s \notin active
                     THEN "none" ELSE pending[s]]

Told_Mutant(v, e) ==
  IF e.type = "flow_stopped" THEN [v EXCEPT !.activeFlowIds = @ \ e.ids]
  ELSE IF e.type = "flow_started" THEN [v EXCEPT !.activeFlowIds = @ \cup e.ids, !.pendingFlowActions = Forgotten(@, e.ids)]
  ELSE v

\* The handlers of the constructor, one per event.
Told(v, e) ==
  CASE e.type \in {"test_started", "test_stopped"} ->
         [v EXCEPT !.pendingSchemaActions = Forgotten(@, e.ids)]
    [] e.type = "flow_started" ->
         [v EXCEPT !.activeFlowIds = @ \cup e.ids, !.pendingFlowActions = Forgotten(@, e.ids)]
    [] e.type = "flow_stopped" ->
         [v EXCEPT !.activeFlowIds = @ \ e.ids, !.pendingFlowActions = Forgotten(@, e.ids)]
    [] e.type = "burst_started" -> [v EXCEPT !.activeBurstIds = @ \cup e.ids]
    [] e.type = "burst_finished" -> [v EXCEPT !.activeBurstIds = @ \ e.ids]
    [] e.type = "status_update" ->
         [v EXCEPT !.activeSchemaIds = e.ids, !.pendingSchemaActions = Reconciled(@, e.ids)]

Deliver(c) ==
  /\ c \in linked /\ inbox[c] # <<>>
  /\ view' = [view EXCEPT ![c] = Told(@, Head(inbox[c]))]
  /\ inbox' = [inbox EXCEPT ![c] = Tail(@)]
  /\ UNCHANGED <<backendVars, linked, outbox, steady, requests, drops>>

\* The disconnect handler: bursts stay as they were shown.
Disconnect(c) ==
  /\ c \in linked /\ drops < MaxDrops
  /\ drops' = drops + 1
  /\ linked' = linked \ {c} /\ steady' = steady \ {c}
  /\ inbox' = [inbox EXCEPT ![c] = <<>>] /\ outbox' = [outbox EXCEPT ![c] = <<>>]
  /\ view' = [view EXCEPT ![c].activeFlowIds = {}, ![c].pendingSchemaActions = Idle(Schemas),
                          ![c].pendingFlowActions = Idle(Flows)]
  /\ UNCHANGED <<backendVars, requests>>

\* handleConnection and bootstrapClient: of what runs, the status alone is sent.
Connect(c) ==
  /\ c \notin linked
  /\ linked' = linked \cup {c}
  /\ inbox' = [inbox EXCEPT ![c] = <<StatusUpdate>>]
  /\ UNCHANGED <<backendVars, outbox, view, steady, requests, drops>>

-----------------------------------------------------------------------------
(* The browser: the buttons. *)

Emit(c, type, id) ==
  /\ requests < MaxRequests /\ requests' = requests + 1
  /\ outbox' = [outbox EXCEPT ![c] = Append(@, [type |-> type, id |-> id])]
  /\ UNCHANGED <<backendVars, linked, inbox, steady, drops>>

StartTest(c, s, type) ==
  /\ Emit(c, type, s)
  /\ view' = [view EXCEPT ![c].pendingSchemaActions[s] = "starting"]

StopTest(c, s) ==
  /\ Emit(c, "stop_test", s)
  /\ view' = [view EXCEPT ![c].pendingSchemaActions[s] = "stopping"]

\* The main button of a schema card, which is disabled while an action is pending.  It asks
\* for a frequency of at least 1.
ToggleRunState(c, s) ==
  /\ view[c].pendingSchemaActions[s] = "none"
  /\ IF s \in view[c].activeSchemaIds THEN StopTest(c, s) ELSE StartTest(c, s, "start_test")

\* A new frequency for a running test, one second after it was typed: it may be 0.
ChangeFrequency(c, s) == s \in view[c].activeSchemaIds /\ \E type \in Starts : StartTest(c, s, type)
\* "Stop All" of the dashboard.
StopAll(c, s) == s \in view[c].activeSchemaIds /\ StopTest(c, s)

\* The run button of the canvas.
ToggleFlow(c, f) ==
  /\ view[c].pendingFlowActions[f] = "none"
  /\ IF f \in view[c].activeFlowIds
       THEN /\ Emit(c, "stop_flow", f)
            /\ view' = [view EXCEPT ![c].pendingFlowActions[f] = "stopping"]
       ELSE /\ Emit(c, "start_flow", f)
            /\ view' = [view EXCEPT ![c].pendingFlowActions[f] = "starting"]

BurstTest(c, s) ==
  /\ s \notin view[c].activeBurstIds
  /\ Emit(c, "burst_test", s)
  /\ UNCHANGED view

-----------------------------------------------------------------------------
(* The backend. *)

\* server.emit: to every browser with a link.
Broadcast(event) ==
  inbox' = [c \in Clients |-> IF c \in linked THEN Append(inbox[c], event) ELSE inbox[c]]

Silent == UNCHANGED inbox

\* The request of c is taken from its socket, and its handler runs to its first await.
Receives(c, type) ==
  /\ c \in linked /\ outbox[c] # <<>> /\ Head(outbox[c]).type = type
  /\ outbox' = [outbox EXCEPT ![c] = Tail(@)]
  /\ UNCHANGED <<linked, view, steady, requests, drops>>

Requested(c) == Head(outbox[c]).id

\* handleStartTest up to its await; no such schema and an invalid destination end it there.
HandleStartTest(c, type) ==
  /\ Receives(c, type) /\ Silent
  /\ \/ preparing' = [preparing EXCEPT ![type][Requested(c)] = @ + 1]
     \/ Requested(c) \in Refusable /\ UNCHANGED preparing
  /\ UNCHANGED <<activeTests, atZero, activeFlows, bursts>>

\* startLoadTest ends the test of s that runs already.  The tests that remain may leave it
\* nothing of the budget, or it registers one; what starts at 0 is announced to nobody.
Registers(s, type) ==
  \/ /\ activeTests' = activeTests \cup {s}
     /\ IF type = "start_test"
          THEN atZero' = atZero \ {s} /\ Broadcast(Event("test_started", s))
          ELSE atZero' = atZero \cup {s} /\ Silent
  \/ /\ activeTests \ (atZero \cup {s}) # {}
     /\ activeTests' = activeTests \ {s} /\ atZero' = atZero \ {s} /\ Silent

\* The destination is prepared, or not.
TestPrepared(s, type) ==
  /\ preparing[type][s] > 0 /\ preparing' = [preparing EXCEPT ![type][s] = @ - 1]
  /\ \/ Registers(s, type)
     \/ s \in Refusable /\ UNCHANGED <<activeTests, atZero>> /\ Silent
  /\ UNCHANGED <<activeFlows, bursts, linked, outbox, view, steady, requests, drops>>

HandleStopTest(c) ==
  /\ Receives(c, "stop_test")
  /\ activeTests' = activeTests \ {Requested(c)} /\ atZero' = atZero \ {Requested(c)}
  /\ Broadcast(Event("test_stopped", Requested(c)))
  /\ UNCHANGED <<activeFlows, preparing, bursts>>

HandleStartFlow(c) ==
  /\ Receives(c, "start_flow")
  /\ activeFlows' = activeFlows \cup {Requested(c)}
  /\ Broadcast(Event("flow_started", Requested(c)))
  /\ UNCHANGED <<activeTests, atZero, preparing, bursts>>

StopsFlow_Mutant(f) ==
  activeFlows' = activeFlows \ {f} /\ Silent

\* lifecycle$ says "stopped": a stop_flow, or the end of the run.  A flow that is not active
\* has nothing to stop, and nobody is told.
StopsFlow(f) ==
  \/ f \in activeFlows /\ activeFlows' = activeFlows \ {f} /\ Broadcast(Event("flow_stopped", f))
  \/ f \notin activeFlows /\ UNCHANGED activeFlows /\ Silent

HandleStopFlow(c) ==
  /\ Receives(c, "stop_flow")
  /\ StopsFlow(Requested(c))
  /\ UNCHANGED <<activeTests, atZero, preparing, bursts>>

FlowCompletes(f) ==
  /\ f \in activeFlows
  /\ StopsFlow(f)
  /\ UNCHANGED <<activeTests, atZero, preparing, bursts, linked, outbox, view, steady, requests, drops>>

\* handleBurstTest: a schema that is not found or whose id does not match, and an invalid
\* destination, end it without an event.
HandleBurstTest(c) ==
  /\ Receives(c, "burst_test")
  /\ \/ bursts' = [bursts EXCEPT ![Requested(c)] = @ + 1] /\ Broadcast(Event("burst_started", Requested(c)))
     \/ UNCHANGED bursts /\ Silent
  /\ UNCHANGED <<activeTests, atZero, activeFlows, preparing>>

BurstEnds(s) ==
  /\ bursts[s] > 0 /\ bursts' = [bursts EXCEPT ![s] = @ - 1]
  /\ Broadcast(Event("burst_finished", s))
  /\ UNCHANGED <<activeTests, atZero, activeFlows, preparing, linked, outbox, view, steady, requests, drops>>

\* broadcastStatus, every second: a browser takes the last one before the next is sent.
BroadcastStatus ==
  /\ \A c \in Clients : \A i \in DOMAIN inbox[c] : inbox[c][i].type # "status_update"
  /\ \E c \in linked : Told(view[c], StatusUpdate) # view[c]
  /\ Broadcast(StatusUpdate)
  /\ UNCHANGED <<backendVars, linked, outbox, view, steady, requests, drops>>

Handle(c) == \/ \E type \in Starts : HandleStartTest(c, type)
             \/ HandleStopTest(c) \/ HandleStartFlow(c)
             \/ HandleStopFlow(c) \/ HandleBurstTest(c)

GatewayNext ==
  \/ \E c \in Clients : Deliver(c) \/ Disconnect(c) \/ Connect(c) \/ Handle(c)
  \/ \E c \in Clients, s \in Schemas :
       ToggleRunState(c, s) \/ ChangeFrequency(c, s) \/ StopAll(c, s) \/ BurstTest(c, s)
  \/ \E c \in Clients, f \in Flows : ToggleFlow(c, f)
  \/ \E s \in Schemas : BurstEnds(s) \/ \E type \in Starts : TestPrepared(s, type)
  \/ \E f \in Flows : FlowCompletes(f)
  \/ BroadcastStatus

GatewaySpec == GatewayInit /\ [][GatewayNext]_gatewayVars

\* The network delivers, handlers go on, and the interval of the status fires.
GatewayFairness ==
  /\ \A c \in Clients : WF_gatewayVars(Deliver(c)) /\ WF_gatewayVars(Handle(c)) /\ WF_gatewayVars(Connect(c))
  /\ \A s \in Schemas, type \in Starts : WF_gatewayVars(TestPrepared(s, type))
  /\ WF_gatewayVars(BroadcastStatus)

-----------------------------------------------------------------------------
GatewayTypeOK ==
  /\ activeTests \subseteq Schemas /\ atZero \subseteq activeTests /\ activeFlows \subseteq Flows
  /\ preparing \in [Starts -> [Schemas -> 0 .. MaxRequests]] /\ bursts \in [Schemas -> 0 .. MaxRequests]
  /\ linked \subseteq Clients /\ steady \subseteq linked
  /\ view \in [Clients -> Views]
  /\ requests \in 0 .. MaxRequests /\ drops \in 0 .. MaxDrops

\* A browser that kept its link and got all it was sent shows exactly the flows that are
\* active, and no burst that is over: events of runs that end by themselves, of stops and of
\* other browsers arrive in the order of what they report (handleStartFlow,
\* registerFlowLifecycleSubscription, handleBurstTest).
SteadyViewAgrees ==
  \A c \in steady :
    inbox[c] = <<>> => /\ view[c].activeFlowIds = activeFlows
                       /\ \A s \in view[c].activeBurstIds : bursts[s] > 0

\* A button that waits for the stop of a test, or for the start or the stop of a flow, is
\* enabled again: the event comes, or the link drops and the disconnect handler forgets it.
PendingEnds ==
  \A c \in Clients :
    /\ \A s \in Schemas : view[c].pendingSchemaActions[s] = "stopping" ~> view[c].pendingSchemaActions[s] # "stopping"
    /\ \A f \in Flows : view[c].pendingFlowActions[f] # "none" ~> view[c].pendingFlowActions[f] = "none"

\* So is a button that waits for the start of a test: "Global throughput budget exhausted.
\* Stop another running test before starting" asks the user to press it again
\* (schema-card.component.ts:184).
StartEnds ==
  \A c \in Clients, s \in Schemas :
    view[c].pendingSchemaActions[s] = "starting" ~> view[c].pendingSchemaActions[s] # "starting"
=============================================================================
