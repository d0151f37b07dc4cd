------------------------------ MODULE FlowCanvas ------------------------------
(***************************************************************************)
(* FlowCanvasComponent of the frontend (components/flow-canvas): the       *)
(* handlers that edit the open flow through FlowService, and what is       *)
(* selected and which panel is open.  Four effects keep the panels apart;  *)
(* they run after those of FlowService, in the order they were created.    *)
(*                                                                         *)
(* Left out: pan and zoom, the searches, the help page, labels and paths.  *)
(***************************************************************************)
EXTENDS FlowEditor, Graphs

VARIABLES
  selectedNode, selectedEdge,
  explorer,      \* showNodeExplorer
  diffShown,     \* showDiff
  connecting,    \* connectingEdge: the source of an edge being drawn
  toDelete,      \* flowToDelete, while its modal asks for confirmation
  lastEdge,      \* ids of edges are times: the number of the last one
  panelsDue,     \* effects on the panels that are due
  turn           \* the effect on the panels whose turn it is, or 0

panelVars == <<selectedNode, selectedEdge, explorer, diffShown, panelsDue, turn>>
canvasVars == <<editorVars, panelVars, connecting, toDelete, lastEdge>>

CanvasInit ==
  /\ EditorInit
  /\ selectedNode = None /\ selectedEdge = None
  /\ explorer = FALSE /\ diffShown = FALSE
  /\ connecting = None /\ toDelete = None
  /\ lastEdge = OldEdges
  /\ panelsDue = {} /\ turn = 0

-----------------------------------------------------------------------------
(* The panels and their effects, which run in the order of this sequence.  *)

PanelEffects == <<"close configuration", "close views", "explorer", "diff">>

\* A signal that changes makes the effects due that read it.
PanelsNoticed(done) ==
  panelsDue' = (panelsDue \ done)
    \cup (IF explorer' # explorer THEN {"close configuration", "explorer"} ELSE {})
    \cup (IF diffShown' # diffShown THEN {"close configuration", "diff"} ELSE {})
    \cup (IF <<selectedNode', selectedEdge'>> # <<selectedNode, selectedEdge>> THEN {"close views"} ELSE {})

Select(n, e) == selectedNode' = n /\ selectedEdge' = e
Views(e, d) == explorer' = e /\ diffShown' = d
KeepSelection == UNCHANGED <<selectedNode, selectedEdge>>
KeepViews == UNCHANGED <<explorer, diffShown>>

\* If explorer or diff opens, close configuration.
CloseConfiguration == KeepViews /\ IF explorer \/ diffShown THEN Select(None, None) ELSE KeepSelection

CloseViews_Mutant == KeepSelection /\ IF selectedNode # None THEN Views(FALSE, FALSE) ELSE KeepViews

\* If configuration opens, close explorer and diff.
CloseViews ==
  KeepSelection /\ IF selectedNode # None \/ selectedEdge # None THEN Views(FALSE, FALSE) ELSE KeepViews

\* The explorer closes the diff, and the diff the explorer.
ExplorerFirst == KeepSelection /\ Views(explorer, diffShown /\ ~explorer)
DiffFirst == KeepSelection /\ Views(explorer /\ ~diffShown, diffShown)

PanelEffect ==
  /\ turn > 0
  /\ LET effect == PanelEffects[turn] IN
       /\ IF effect \notin panelsDue THEN KeepSelection /\ KeepViews
          ELSE \/ effect = "close configuration" /\ CloseConfiguration
               \/ effect = "close views" /\ CloseViews
               \/ effect = "explorer" /\ ExplorerFirst
               \/ effect = "diff" /\ DiffFirst
       /\ PanelsNoticed({effect})
  /\ turn' = IF turn < Len(PanelEffects) THEN turn + 1 ELSE IF panelsDue' = {} THEN 0 ELSE 1
  /\ UNCHANGED <<editorVars, connecting, toDelete, lastEdge>>

PanelFlushStarts ==
  /\ phase = "rest" /\ turn = 0 /\ panelsDue # {}
  /\ turn' = 1
  /\ UNCHANGED <<editorVars, selectedNode, selectedEdge, explorer, diffShown, panelsDue,
                 connecting, toDelete, lastEdge>>

-----------------------------------------------------------------------------
(* Clicks that only select or show.                                        *)

\* The mouse is free, no modal is open and no flush is running.
Click ==
  /\ Clicked /\ turn = 0 /\ turn' = 0
  /\ connecting = None /\ toDelete = None

NothingEdited ==
  UNCHANGED <<requests, active, storageVars, openDue, storeDue, resetting, timers, released>>
NoModal == UNCHANGED <<connecting, toDelete, lastEdge>>

Nodes == IF active = None THEN {} ELSE DOMAIN active.nodes
Edges == IF active = None THEN {} ELSE DOMAIN active.edges

\* onNodeMouseDown, onNodeClick, and focusNode in the explorer.
ClickNode(n) == n \in Nodes /\ Select(n, selectedEdge) /\ KeepViews
ClickEdge(e) == e \in Edges /\ Select(None, e) /\ KeepViews
CloseNode == Select(None, selectedEdge) /\ KeepViews
CloseEdge == Select(selectedNode, None) /\ KeepViews
ToggleExplorer == Views(~explorer, diffShown) /\ KeepSelection
ToggleDiff == (hasUnsavedChanges \/ diffShown) /\ Views(explorer, ~diffShown) /\ KeepSelection

Look ==
  /\ Click /\ NothingEdited /\ NoModal
  /\ \/ \E n \in NodeIds : ClickNode(n)
     \/ \E e \in 1 .. lastEdge : ClickEdge(e)
     \/ CloseNode \/ CloseEdge \/ ToggleExplorer \/ ToggleDiff
  /\ PanelsNoticed({})

-----------------------------------------------------------------------------
(* Edits of the open flow.                                                 *)

EdgesWithout_Mutant(flow, n) == [e \in {e \in DOMAIN flow.edges : flow.edges[e].source # n} |-> flow.edges[e]]

\* The edges that remain without node n.
EdgesWithout(flow, n) ==
  [e \in {e \in DOMAIN flow.edges : flow.edges[e].source # n /\ flow.edges[e].target # n} |-> flow.edges[e]]

\* deleteNode, and removeNode of the service: a node takes its edges with it.
DeleteNode(n) ==
  /\ n \in Nodes
  /\ UpdateActive([active EXCEPT !.nodes = [m \in DOMAIN @ \ {n} |-> @[m]],
                                 !.edges = EdgesWithout(active, n)])
  /\ Select(IF selectedNode = n THEN None ELSE selectedNode, selectedEdge)

DeleteEdge(e) ==
  /\ e \in Edges
  /\ UpdateActive([active EXCEPT !.edges = [d \in DOMAIN @ \ {e} |-> @[d]]])
  /\ Select(selectedNode, IF selectedEdge = e THEN None ELSE selectedEdge)

\* resetFlow of the canvas: "Clear all nodes and edges".
ClearCanvas == active # None /\ UpdateActive([active EXCEPT !.nodes = <<>>, !.edges = <<>>]) /\ KeepSelection

\* updateNodePosition and updateNodeSettings, updateNodeExpression and removeNodeExpression.
UpdateNode(n, v) == n \in Nodes /\ UpdateActive([active EXCEPT !.nodes[n].settings = v]) /\ KeepSelection

UpdateEdge(e, v) == e \in Edges /\ UpdateActive([active EXCEPT !.edges[e].settings = v]) /\ KeepSelection

\* selectedNodeAncestors: breadth first against the edges; in a cycle a node is its own.
AncestorNodes(flow, n) ==
  LET ends == {<<flow.edges[e].source, flow.edges[e].target>> : e \in DOMAIN flow.edges}
      upstream == {m \in DOMAIN flow.nodes : \E k \in DOMAIN flow.nodes : <<m, k>> \in ends /\
                     (k = n \/ k \in Ancestors([node |-> DOMAIN flow.nodes, edge |-> ends], n))}
  IN upstream

\* updateNodeBinding offers fields of the ancestors; removeNodeBinding takes None.
BindNode(n, m) ==
  /\ n \in Nodes /\ selectedNode = n
  /\ m \in AncestorNodes(active, n) \cup {None}
  /\ UpdateActive([active EXCEPT !.nodes[n].binding = m]) /\ KeepSelection

\* magicLayout: autoLayout lets dagre place the nodes.
MagicLayout ==
  /\ Nodes # {}
  /\ \E v \in [Nodes -> Settings] :
       UpdateActive([active EXCEPT !.nodes = [n \in Nodes |-> [@[n] EXCEPT !.settings = v[n]]]])
  /\ KeepSelection

Edit ==
  /\ Click /\ NoModal /\ KeepViews
  /\ \/ \E n \in NodeIds : DeleteNode(n) \/ \E m \in NodeIds \cup {None} : BindNode(n, m)
     \/ \E e \in 1 .. lastEdge : DeleteEdge(e)
     \/ \E v \in Settings : (\E n \in NodeIds : UpdateNode(n, v)) \/ (\E e \in 1 .. lastEdge : UpdateEdge(e, v))
     \/ \E s \in {n[1] : n \in NodeIds} : AddNode(s) /\ KeepSelection   \* onDrop and addNode
     \/ ClearCanvas \/ MagicLayout
  /\ PanelsNoticed({})

\* onHandleMouseDown: an edge is drawn until the mouse is released.
StartEdge ==
  /\ Click /\ NothingEdited /\ KeepSelection /\ KeepViews
  /\ \E n \in Nodes : connecting' = n
  /\ UNCHANGED <<toDelete, lastEdge, panelsDue>>

SameEnds(flow, s, t) == \E e \in DOMAIN flow.edges : flow.edges[e].source = s /\ flow.edges[e].target = t

\* A new edge has a target, no loop, and no other with the same ends.
Drawable(s, t) == t # None /\ s # t /\ active # None /\ ~SameEnds(active, s, t)

\* onMouseUp and createNewEdge: over a node's handle, or over nothing.
EndEdge ==
  /\ connecting # None /\ turn = 0 /\ Clicked
  /\ \E t \in Nodes \cup {None} :
       IF Drawable(connecting, t)
       THEN /\ lastEdge' = lastEdge + 1
            /\ SetActive([active EXCEPT !.edges = [e \in DOMAIN @ \cup {lastEdge'} |->
                 IF e = lastEdge' THEN [source |-> connecting, target |-> t, settings |-> 0] ELSE @[e]]])
            /\ OnlyActiveChanges
       ELSE UNCHANGED lastEdge /\ NothingEdited
  /\ connecting' = None
  /\ UNCHANGED <<panelVars, toDelete>>

-----------------------------------------------------------------------------
(* The library of flows and the buttons of the toolbar.                    *)

\* selectFlow opens the server's version, whatever draft there is.
SelectFlow(f) == flows[f] # None /\ SetActive(flows[f]) /\ OnlyActiveChanges

Library ==
  /\ Click /\ NoModal /\ KeepSelection
  /\ \/ KeepViews /\ \E f \in FlowIds : SelectFlow(f)
     \/ KeepViews /\ \E f \in FlowIds \ StaticFlows : CreateFlow(f)   \* confirmCreateFlow
     \/ SaveActiveFlow /\ explorer' = explorer /\ diffShown' \in {diffShown, FALSE}
     \/ KeepViews /\ DiscardDraft
  /\ PanelsNoticed({})

\* deleteFlowFromLibrary asks; confirmDeleteFlow deletes or resets.
AskDelete ==
  /\ Click /\ NothingEdited /\ KeepSelection /\ KeepViews
  /\ \E f \in FlowIds : flows[f] # None /\ toDelete' = f
  /\ UNCHANGED <<connecting, lastEdge, panelsDue>>

AnswerDelete ==
  /\ toDelete # None /\ turn = 0 /\ Clicked
  /\ DeleteFlow(toDelete) \/ NothingEdited
  /\ toDelete' = None
  /\ UNCHANGED <<panelVars, connecting, lastEdge>>

EditorMoves ==
  /\ turn = 0 /\ EditorStep
  /\ IF reloads' # reloads
     THEN Select(None, None) /\ Views(FALSE, FALSE) /\ panelsDue' = {} /\ connecting' = None /\ toDelete' = None
     ELSE UNCHANGED <<selectedNode, selectedEdge, explorer, diffShown, panelsDue, connecting, toDelete>>
  /\ UNCHANGED <<turn, lastEdge>>

CanvasNext ==
  \/ EditorMoves \/ PanelFlushStarts \/ PanelEffect
  \/ Look \/ Edit \/ StartEdge \/ EndEdge \/ Library \/ AskDelete \/ AnswerDelete

CanvasSpec == CanvasInit /\ [][CanvasNext]_canvasVars

\* Angular runs effects that are due, and goes on with a flush it began.
CanvasFairness == WF_canvasVars(EditorMoves /\ (FlushStarts \/ OpenEffect \/ StoreEffect))
               /\ WF_canvasVars(PanelFlushStarts \/ PanelEffect)
CanvasFairSpec == CanvasSpec /\ CanvasFairness

-----------------------------------------------------------------------------
(* Well-formed flows.                                                      *)

WellFormed(flow) ==
  /\ \A e \in DOMAIN flow.edges :
       {flow.edges[e].source, flow.edges[e].target} \subseteq DOMAIN flow.nodes /\ flow.edges[e].source # flow.edges[e].target
  /\ \A e, d \in DOMAIN flow.edges :
       flow.edges[e].source = flow.edges[d].source /\ flow.edges[e].target = flow.edges[d].target => e = d

\* A flow has its parts, and its edges are of 1 .. last.
IsFlow(flow, last) ==
  /\ {"id", "nodes", "edges"} \subseteq DOMAIN flow /\ flow.id \in FlowIds
  /\ flow.nodes = [n \in DOMAIN flow.nodes |-> flow.nodes[n]]
  /\ flow.edges = [e \in DOMAIN flow.edges |-> flow.edges[e]]
  /\ DOMAIN flow.edges \subseteq 1 .. last
  /\ \A e \in DOMAIN flow.edges :
       flow.edges[e] \in [source : {flow.edges[e].source}, target : {flow.edges[e].target},
                          settings : {flow.edges[e].settings}]

ASSUME CanvasAssumption ==
  /\ FlowOrder \in Seq(FlowIds) /\ None \notin FlowIds /\ OldEdges \in Nat
  /\ \A f \in StaticFlows :
       IsFlow(OriginalFlow[f], OldEdges) /\ OriginalFlow[f].id = f /\ WellFormed(OriginalFlow[f])

-----------------------------------------------------------------------------
(* Properties.                                                             *)

AtRest == Settled /\ turn = 0 /\ panelsDue = {}

CanvasTypeOK ==
  /\ selectedNode \in NodeIds \cup {None} /\ selectedEdge \in 1 .. lastEdge \cup {None}
  /\ {explorer, diffShown, loaded, resetting, openDue, follows, storeDue, seen} \subseteq BOOLEAN
  /\ connecting \in NodeIds \cup {None} /\ toDelete \in FlowIds \cup {None}
  /\ panelsDue \subseteq {PanelEffects[k] : k \in DOMAIN PanelEffects}
  /\ turn \in 0 .. Len(PanelEffects) /\ phase \in {"rest", "open", "store"}

\* Unsaved changes survive a reload: once the flows are loaded again and the effects have
\* run, the same nodes and edges are open, unless the user did something since.  Changes
\* equal to what was last saved are left out: saveActiveFlow drops the draft before the
\* server has answered, so a save that is lost with the page loses them.
ReloadRestores ==
  before # None /\ loaded /\ AtRest =>
    active # None /\ active.id = before.id /\ active.nodes = before.nodes /\ active.edges = before.edges

\* Only the user replaces an open flow that has unsaved changes: no message of the server,
\* no timer and no effect does.
EditsKept ==
  [][active # None /\ hasUnsavedChanges /\ clicks' = clicks /\ reloads' = reloads => active' = active]_canvasVars

\* When the effects have run, explorer and diff are not both open, and neither together
\* with the configuration of a node or an edge.
PanelsExclusive ==
  AtRest => /\ ~(explorer /\ diffShown)
            /\ explorer \/ diffShown => selectedNode = None /\ selectedEdge = None

\* Every edge of the open flow, of a draft and of the server's flows joins two different
\* nodes of that flow, and no two edges have the same ends.
FlowsWellFormed ==
  \A flow \in {active} \cup {drafts[f] : f \in FlowIds} \cup {stored[f] : f \in FlowIds} : flow # None => WellFormed(flow)

\* The effects come to rest again and again: none of them sets off itself or another for ever.
EffectsSettle == []<>AtRest

\* The configuration of a node is open only for a node of the open flow: the template reads
\* the schema of nodes().find(...)! without asking whether there is one.
SelectedNodeExists == AtRest /\ selectedNode # None => selectedNode \in Nodes
=============================================================================
