------------------------------ MODULE FlowEditor ------------------------------
(***************************************************************************)
(* FlowService of the frontend (services/flow.service.ts): the flow that   *)
(* is open for editing, its difference from the server's version, and the  *)
(* draft of it in localStorage.                                            *)
(*                                                                         *)
(* Two effects of signals do the work: one opens a flow and follows the    *)
(* server, the other stores or removes the draft.  They run in a flush, in *)
(* the order they were created, until none is due; a click, a message of   *)
(* the server or a timer comes before a flush or after it.  The module     *)
(* gives the operations and the effects; FlowCanvas puts them together.    *)
(*                                                                         *)
(* Abstraction: a node is its settings (position, rate, limits, filter,    *)
(* expressions: all that the difference compares) and the node one of its  *)
(* fields is bound to; an edge is its ends and its settings.  "source"     *)
(* stands for what the server adds and the difference ignores.             *)
(***************************************************************************)
EXTENDS Naturals, Sequences, FiniteSetsExt

CONSTANTS
  FlowOrder,      \* the ids of flows, as the server lists them
  StaticFlows,    \* the ids of the flows the code comes with
  OriginalFlow,   \* OriginalFlow[f]: the flow as the code has it
  NodeIds,        \* <<schema, n>>: the n-th node of a schema on the canvas
  Settings,       \* settings of a node or an edge; the first one is given by 0
  OldEdges,       \* the edges of the flows the code comes with are of 1 .. OldEdges
  None,
  MaxClicks,      \* bound: what the user does
  MaxRemote,      \* bound: what other clients save or delete
  MaxReloads      \* bound: reloads of the page

FlowIds == {FlowOrder[k] : k \in DOMAIN FlowOrder}

VARIABLES
  stored,      \* stored[f]: flow f on the server
  requests,    \* save_flow and delete_flow events on their way
  inbox,       \* flows_loaded events on their way
  flows,       \* SocketService.flows
  loaded,      \* SocketService.flowsLoaded
  active,      \* activeFlow
  lastOpened,  \* localStorage: lastOpenedFlowId
  drafts,      \* localStorage: drafts[f] is flow_draft_f
  resetting,   \* isResetting
  timers,      \* timeouts that will end isResetting
  openDue,     \* the first effect is due
  follows,     \* the first effect read activeFlow in its last run
  storeDue,    \* activeFlow was set since the second effect ran
  seen,        \* hasUnsavedChanges as the second effect last read it
  phase,       \* the effect whose turn it is in the flush, or "rest"
  released,    \* the flow the user last saved or discarded
  before,      \* the unsaved flow at the reload, until the user does something
  clicks, remote, reloads

serverVars == <<stored, requests, inbox, remote>>
pageVars == <<flows, loaded, resetting, timers>>
storageVars == <<lastOpened, drafts>>
effectVars == <<openDue, follows, storeDue, seen>>
editorVars == <<serverVars, pageVars, active, storageVars, effectVars, phase, released, before,
                clicks, reloads>>

-----------------------------------------------------------------------------
(* Flows and their difference.                                             *)

\* createFlow's new flow.
EmptyFlow(f) == [id |-> f, nodes |-> <<>>, edges |-> <<>>, source |-> None]

\* calculateNodeDiff: what is added, removed and modified in the open flow.
NodeDiff(open, original) ==
  [added    |-> DOMAIN open.nodes \ DOMAIN original.nodes,
   removed  |-> DOMAIN original.nodes \ DOMAIN open.nodes,
   modified |-> {n \in DOMAIN open.nodes \cap DOMAIN original.nodes :
                   open.nodes[n] # original.nodes[n]}]

\* calculateEdgeDiff.
EdgeDiff(open, original) ==
  [added    |-> DOMAIN open.edges \ DOMAIN original.edges,
   removed  |-> DOMAIN original.edges \ DOMAIN open.edges,
   modified |-> {e \in DOMAIN open.edges \cap DOMAIN original.edges :
                   open.edges[e].settings # original.edges[e].settings}]

AnyChange(diff) == diff.added \cup diff.removed \cup diff.modified # {}

\* hasUnsavedChanges: a flow the server does not list counts as new.
HasUnsaved(open, listed) ==
  /\ open # None
  /\ listed[open.id] # None =>
       AnyChange(NodeDiff(open, listed[open.id])) \/ AnyChange(EdgeDiff(open, listed[open.id]))

hasUnsavedChanges == HasUnsaved(active, flows)

SomeFlow(listed) == \E f \in FlowIds : listed[f] # None
FirstFlow(listed) == listed[FlowOrder[Min({k \in DOMAIN FlowOrder : listed[FlowOrder[k]] # None})]]

-----------------------------------------------------------------------------
(* The effects.                                                            *)

StoreRuns_Mutant == storeDue   \* hasUnsavedChanges is not read

\* The second effect reads activeFlow and hasUnsavedChanges.
StoreRuns == storeDue \/ hasUnsavedChanges # seen

\* No effect is due.
Quiet == ~openDue /\ ~StoreRuns
Settled == phase = "rest" /\ Quiet

\* Every signal that is set makes the effects due that read it.
SetActive(flow) ==
  /\ active' = flow
  /\ storeDue' = TRUE
  /\ openDue' = (openDue \/ follows)

Follow_Mutant(open) ==   \* unsaved changes or not
  IF open # None /\ flows[open.id] # None /\ flows[open.id] # open THEN flows[open.id] ELSE open

\* The server's version takes the place of an open flow without unsaved changes.
Follow(open) ==
  IF open # None /\ flows[open.id] # None /\ flows[open.id] # open /\ ~HasUnsaved(open, flows)
  THEN flows[open.id] ELSE open

DraftOpens_Mutant == lastOpened # None /\ drafts[lastOpened] # None   \* though a flow is open

\* The draft is parsed anew, so that opening it always sets the signal to another object.
DraftOpens == lastOpened # None /\ active = None /\ drafts[lastOpened] # None

\* The flow to open: the draft of the last one, the last one itself, or the first.
ToOpen ==
  IF DraftOpens THEN drafts[lastOpened]
  ELSE IF active # None THEN Follow(active)
  ELSE IF lastOpened # None /\ flows[lastOpened] # None THEN flows[lastOpened]
  ELSE IF SomeFlow(flows) THEN FirstFlow(flows) ELSE None

\* The first effect.
OpenEffect ==
  /\ phase = "open" /\ phase' = "store"
  /\ \/ ~openDue /\ UNCHANGED <<active, openDue, follows, storeDue>>
     \/ /\ openDue /\ (~loaded \/ resetting)
        /\ openDue' = FALSE /\ follows' = FALSE
        /\ UNCHANGED <<active, storeDue>>
     \/ /\ openDue /\ loaded /\ ~resetting
        /\ active' = ToOpen
        /\ follows' = TRUE
        /\ openDue' = (DraftOpens \/ active' # active)
        /\ storeDue' = (storeDue \/ openDue')
  /\ UNCHANGED <<serverVars, pageVars, storageVars, seen, released, before, clicks, reloads>>

\* The second effect: the draft of a flow with unsaved changes is kept, any other removed.
StoreEffect ==
  /\ phase = "store" /\ phase' = IF openDue THEN "open" ELSE "rest"
  /\ storeDue' = FALSE
  /\ IF StoreRuns
     THEN /\ seen' = hasUnsavedChanges
          /\ IF active = None THEN UNCHANGED storageVars
             ELSE /\ lastOpened' = active.id
                  /\ drafts' = [drafts EXCEPT ![active.id] = IF hasUnsavedChanges THEN active ELSE None]
     ELSE UNCHANGED <<seen, storageVars>>
  /\ UNCHANGED <<serverVars, pageVars, active, openDue, follows, released, before, clicks, reloads>>

FlushStarts ==
  /\ phase = "rest" /\ ~Quiet
  /\ phase' = "open"
  /\ UNCHANGED <<serverVars, pageVars, active, storageVars, effectVars, released, before, clicks, reloads>>

-----------------------------------------------------------------------------
(* What the user does.  An operation says what becomes of active, of the   *)
(* requests, of the storage and of the reset.                              *)

Clicked ==
  /\ phase = "rest"
  /\ clicks < MaxClicks /\ clicks' = clicks + 1
  /\ before' = None
  /\ UNCHANGED <<stored, inbox, remote, flows, loaded, follows, seen, phase, reloads>>

OnlyActiveChanges == UNCHANGED <<requests, lastOpened, drafts, resetting, timers, released>>

\* updateActiveFlow.
UpdateActive(flow) == active # None /\ SetActive(flow) /\ OnlyActiveChanges

\* addNode takes the first free id of the schema.
NewNode(flow, s) ==
  CHOOSE n \in NodeIds \ DOMAIN flow.nodes :
    n[1] = s /\ \A m \in NodeIds \ DOMAIN flow.nodes : m[1] = s => n[2] <= m[2]

WithNode(flow, n, node) == [flow EXCEPT !.nodes = [m \in DOMAIN @ \cup {n} |-> IF m = n THEN node ELSE @[m]]]

AddNode(s) ==
  /\ active # None
  /\ \E n \in NodeIds : n[1] = s /\ n \notin DOMAIN active.nodes
  /\ UpdateActive(WithNode(active, NewNode(active, s), [settings |-> 0, binding |-> None]))

\* createFlow saves the empty flow and opens it; a generated id may be taken.
CreateFlow(f) ==
  /\ requests' = Append(requests, [op |-> "save", flow |-> EmptyFlow(f)])
  /\ SetActive(EmptyFlow(f))
  /\ UNCHANGED <<lastOpened, drafts, resetting, timers, released>>

SaveActiveFlow ==
  /\ active # None
  /\ requests' = Append(requests, [op |-> "save", flow |-> active])
  /\ drafts' = [drafts EXCEPT ![active.id] = None]
  /\ released' = active
  /\ UNCHANGED <<active, storeDue, openDue, lastOpened, resetting, timers>>

\* deleteFlow and resetFlow are the same.
DeleteFlow(f) ==
  /\ requests' = Append(requests, [op |-> "delete", flow |-> EmptyFlow(f)])
  /\ drafts' = [drafts EXCEPT ![f] = None]
  /\ resetting' = TRUE /\ timers' = timers + 1
  /\ IF active # None /\ active.id = f THEN SetActive(None) ELSE UNCHANGED <<active, storeDue, openDue>>
  /\ UNCHANGED <<lastOpened, released>>

DiscardDraft ==
  /\ active # None /\ hasUnsavedChanges
  /\ drafts' = [drafts EXCEPT ![active.id] = None]
  /\ released' = active
  /\ IF flows[active.id] # None THEN SetActive(flows[active.id]) ELSE UNCHANGED <<active, storeDue, openDue>>
  /\ UNCHANGED <<requests, lastOpened, resetting, timers>>

-----------------------------------------------------------------------------
(* The server, the timers and the page.                                    *)

\* The flow as the server lists it after a save, or after its file is deleted.
Listed(flow) == [flow EXCEPT !.source = IF flow.id \in StaticFlows THEN "static" ELSE "dynamic"]
Unsaved(f) == IF f \in StaticFlows THEN OriginalFlow[f] ELSE None

\* save_flow and delete_flow: a write that fails is only logged; all flows are sent.
ServerHandles ==
  /\ phase = "rest" /\ requests # <<>>
  /\ LET request == Head(requests) IN
       stored' \in {stored, [stored EXCEPT ![request.flow.id] =
                      IF request.op = "save" THEN Listed(request.flow) ELSE Unsaved(request.flow.id)]}
  /\ requests' = Tail(requests)
  /\ inbox' = Append(inbox, stored')
  /\ UNCHANGED <<remote, pageVars, active, storageVars, effectVars, phase, released, before, clicks, reloads>>

\* Another client saves other settings of a node, or deletes a flow.
OtherClient ==
  /\ phase = "rest"
  /\ remote < MaxRemote /\ remote' = remote + 1
  /\ \E f \in FlowIds :
       /\ stored[f] # None
       /\ \/ \E n \in DOMAIN stored[f].nodes, v \in Settings :
               stored' = [stored EXCEPT ![f].nodes[n].settings = v]
          \/ stored' = [stored EXCEPT ![f] = Unsaved(f)]
  /\ inbox' = Append(inbox, stored')
  /\ UNCHANGED <<requests, pageVars, active, storageVars, effectVars, phase, released, before, clicks, reloads>>

\* flows_loaded.
FlowsLoaded ==
  /\ phase = "rest" /\ inbox # <<>>
  /\ flows' = Head(inbox) /\ loaded' = TRUE
  /\ inbox' = Tail(inbox)
  /\ openDue' = TRUE
  /\ UNCHANGED <<stored, requests, remote, resetting, timers, active, storageVars, follows, storeDue, seen,
                 phase, released, before, clicks, reloads>>

\* The first of the timeouts to end ends the reset.
ResetEnds ==
  /\ phase = "rest" /\ timers > 0
  /\ timers' = timers - 1 /\ resetting' = FALSE
  /\ UNCHANGED <<serverVars, flows, loaded, active, storageVars, effectVars, phase, released, before, clicks, reloads>>

\* The page is loaded again: localStorage remains, and the server greets the new page
\* with its flows.  Requests that were still buffered are lost.
Reload ==
  /\ phase = "rest"
  /\ reloads < MaxReloads /\ reloads' = reloads + 1
  /\ before' = IF Settled /\ hasUnsavedChanges /\ active # released THEN active ELSE None
  /\ \E sent \in 0 .. Len(requests) : requests' = SubSeq(requests, 1, sent)
  /\ inbox' = <<stored>>
  /\ flows' = [f \in FlowIds |-> None] /\ loaded' = FALSE
  /\ active' = None /\ released' = None
  /\ resetting' = FALSE /\ timers' = 0
  /\ openDue' = TRUE /\ follows' = FALSE /\ storeDue' = TRUE /\ seen' = FALSE
  /\ UNCHANGED <<stored, remote, storageVars, phase, clicks>>

EditorInit ==
  /\ stored = [f \in FlowIds |-> Unsaved(f)]
  /\ requests = <<>> /\ inbox = <<stored>>
  /\ flows = [f \in FlowIds |-> None] /\ loaded = FALSE
  /\ active = None /\ lastOpened = None /\ drafts = flows
  /\ resetting = FALSE /\ timers = 0
  /\ openDue = TRUE /\ follows = FALSE /\ storeDue = TRUE /\ seen = FALSE
  /\ phase = "rest" /\ released = None /\ before = None
  /\ clicks = 0 /\ remote = 0 /\ reloads = 0

EditorStep ==
  \/ OpenEffect \/ StoreEffect \/ FlushStarts
  \/ ServerHandles \/ OtherClient \/ FlowsLoaded \/ ResetEnds \/ Reload
=============================================================================
