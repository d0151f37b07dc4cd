-------------------------- MODULE FlowCanvasProofs --------------------------
(***************************************************************************)
(* Proofs about the flow editor (FlowEditor and FlowCanvas): panels        *)
(* exclude each other, unsaved changes are neither replaced nor lost, and  *)
(* flows stay well formed, for every set of flows the code comes with and  *)
(* any number of clicks, other clients and reloads.                        *)
(***************************************************************************)
EXTENDS FlowCanvas, SequenceTheorems, WellFoundedInduction, TLAPS

-----------------------------------------------------------------------------
(* Panels.                                                                 *)

Configured == selectedNode # None \/ selectedEdge # None

\* Two panels are open together only while an effect is due that closes one of them.
PanelsInv ==
  /\ explorer \in BOOLEAN /\ diffShown \in BOOLEAN
  /\ explorer /\ diffShown => panelsDue \cap {"explorer", "diff"} # {}
  /\ (explorer \/ diffShown) /\ Configured => panelsDue \cap {"close configuration", "close views"} # {}

panelState == <<selectedNode, selectedEdge, explorer, diffShown, panelsDue>>

LEMMA PanelsSame ==
  ASSUME PanelsInv, UNCHANGED panelState
  PROVE  PanelsInv'
<1>1. /\ selectedNode' = selectedNode /\ selectedEdge' = selectedEdge
      /\ explorer' = explorer /\ diffShown' = diffShown /\ panelsDue' = panelsDue
  BY DEF panelState
<1>2. Configured' <=> Configured
  BY <1>1 DEF Configured
<1> QED
  BY <1>1, <1>2 DEF PanelsInv

\* Whatever the user opens makes the effects due that close the rest.
LEMMA PanelsFollow ==
  ASSUME PanelsInv, PanelsNoticed({}), explorer' \in BOOLEAN, diffShown' \in BOOLEAN
  PROVE  PanelsInv'
<1>1. explorer' /\ diffShown' => panelsDue' \cap {"explorer", "diff"} # {}
  <2>1. CASE explorer' = explorer /\ diffShown' = diffShown
    BY <2>1 DEF PanelsInv, PanelsNoticed
  <2>2. CASE explorer' # explorer
    BY <2>2 DEF PanelsNoticed
  <2>3. CASE diffShown' # diffShown
    BY <2>3 DEF PanelsNoticed
  <2> QED
    BY <2>1, <2>2, <2>3
<1>2. (explorer' \/ diffShown') /\ Configured'
        => panelsDue' \cap {"close configuration", "close views"} # {}
  <2>1. CASE explorer' = explorer /\ diffShown' = diffShown
          /\ selectedNode' = selectedNode /\ selectedEdge' = selectedEdge
    BY <2>1 DEF PanelsInv, PanelsNoticed, Configured
  <2>2. CASE explorer' # explorer
    BY <2>2 DEF PanelsNoticed
  <2>3. CASE diffShown' # diffShown
    BY <2>3 DEF PanelsNoticed
  <2>4. CASE selectedNode' # selectedNode \/ selectedEdge' # selectedEdge
    BY <2>4 DEF PanelsNoticed
  <2> QED
    BY <2>1, <2>2, <2>3, <2>4
<1> QED
  BY <1>1, <1>2 DEF PanelsInv

\* What becomes of the panels when the effect whose turn it is is not due, and when it is.
Runs(effect) ==
  \/ effect = "close configuration" /\ CloseConfiguration
  \/ effect = "close views" /\ CloseViews
  \/ effect = "explorer" /\ ExplorerFirst
  \/ effect = "diff" /\ DiffFirst

LEMMA EffectKeepsPanels ==
  ASSUME PanelsInv, PanelEffect
  PROVE  PanelsInv'
<1> DEFINE effect == PanelEffects[turn]
<1>1. PanelsNoticed({effect})
  BY DEF PanelEffect
<1>2. IF effect \notin panelsDue THEN KeepSelection /\ KeepViews ELSE Runs(effect)
  BY DEF PanelEffect, Runs
<1> HIDE DEF effect
<1>3. CASE effect \notin panelsDue
  <2>1. KeepSelection /\ KeepViews
    BY <1>2, <1>3
  <2>2. panelsDue' = panelsDue
    BY <2>1, <1>1, <1>3 DEF PanelsNoticed, KeepSelection, KeepViews
  <2> QED
    BY <2>1, <2>2, PanelsSame DEF panelState, KeepSelection, KeepViews
<1>4. CASE effect \in panelsDue
  <2>1. Runs(effect)
    BY <1>2, <1>4
  <2>2. panelsDue \ {effect} \subseteq panelsDue'
    BY <1>1 DEF PanelsNoticed
  <2>3. CASE effect = "close configuration" /\ CloseConfiguration
    <3>1. explorer' = explorer /\ diffShown' = diffShown
      BY <2>3 DEF CloseConfiguration, KeepViews
    <3>2. explorer \/ diffShown => ~Configured'
      BY <2>3 DEF CloseConfiguration, Select, Configured
    <3> QED
      BY <3>1, <3>2, <2>2, <2>3 DEF PanelsInv
  <2>4. CASE effect = "close views" /\ CloseViews
    <3>1. CASE Configured
      BY <2>4, <3>1 DEF CloseViews, Views, PanelsInv, Configured
    <3>2. CASE ~Configured
      <4>1. UNCHANGED <<selectedNode, selectedEdge, explorer, diffShown>>
        BY <2>4, <3>2 DEF CloseViews, KeepSelection, KeepViews, Configured
      <4> QED
        BY <4>1, <3>2, <2>2, <2>4 DEF PanelsInv, Configured
    <3> QED
      BY <3>1, <3>2
  <2>5. CASE effect = "explorer" /\ ExplorerFirst
    <3>1. explorer' = explorer /\ diffShown' = (diffShown /\ ~explorer) /\ UNCHANGED <<selectedNode, selectedEdge>>
      BY <2>5 DEF ExplorerFirst, Views, KeepSelection
    <3> QED
      BY <3>1, <2>2, <2>5 DEF PanelsInv, Configured
  <2>6. CASE effect = "diff" /\ DiffFirst
    <3>1. explorer' = (explorer /\ ~diffShown) /\ diffShown' = diffShown /\ UNCHANGED <<selectedNode, selectedEdge>>
      BY <2>6 DEF DiffFirst, Views, KeepSelection
    <3> QED
      BY <3>1, <2>2, <2>6 DEF PanelsInv, Configured
  <2> QED
    BY <2>1, <2>3, <2>4, <2>5, <2>6 DEF Runs
<1> QED
  BY <1>3, <1>4

LEMMA PanelsStepKeeps == PanelsInv /\ [CanvasNext]_canvasVars => PanelsInv'
<1> SUFFICES ASSUME PanelsInv, [CanvasNext]_canvasVars PROVE PanelsInv'
  OBVIOUS
<1> USE DEF panelVars, panelState
<1>1. CASE UNCHANGED canvasVars
  BY <1>1, PanelsSame DEF canvasVars
<1>2. CASE EditorMoves
  <2>1. CASE reloads' # reloads
    BY <2>1, <1>2 DEF EditorMoves, Select, Views, PanelsInv
  <2>2. CASE reloads' = reloads
    BY <2>2, <1>2, PanelsSame DEF EditorMoves
  <2> QED
    BY <2>1, <2>2
<1>3. CASE PanelFlushStarts
  BY <1>3, PanelsSame DEF PanelFlushStarts
<1>4. CASE PanelEffect
  BY <1>4, EffectKeepsPanels
<1>5. CASE Look
  <2>1. PanelsNoticed({})
    BY <1>5 DEF Look
  <2>2. explorer' \in BOOLEAN /\ diffShown' \in BOOLEAN
    BY <1>5 DEF Look, ClickNode, ClickEdge, CloseNode, CloseEdge, ToggleExplorer, ToggleDiff,
                Views, KeepViews, PanelsInv
  <2> QED
    BY <2>1, <2>2, PanelsFollow
<1>6. CASE Edit
  <2>1. PanelsNoticed({}) /\ KeepViews
    BY <1>6 DEF Edit
  <2> QED
    BY <2>1, PanelsFollow DEF KeepViews, PanelsInv
<1>7. CASE StartEdge
  BY <1>7, PanelsSame DEF StartEdge, KeepSelection, KeepViews
<1>8. CASE EndEdge
  BY <1>8, PanelsSame DEF EndEdge
<1>9. CASE Library
  <2>1. PanelsNoticed({})
    BY <1>9 DEF Library
  <2>2. explorer' \in BOOLEAN /\ diffShown' \in BOOLEAN
    BY <1>9 DEF Library, KeepViews, PanelsInv
  <2> QED
    BY <2>1, <2>2, PanelsFollow
<1>10. CASE AskDelete
  BY <1>10, PanelsSame DEF AskDelete, KeepSelection, KeepViews
<1>11. CASE AnswerDelete
  BY <1>11, PanelsSame DEF AnswerDelete
<1> QED
  BY <1>1, <1>2, <1>3, <1>4, <1>5, <1>6, <1>7, <1>8, <1>9, <1>10, <1>11 DEF CanvasNext

\* Once the effects have run, at most one of the explorer, the diff and a configuration is
\* open: an effect that was due when it was opened has closed the others.
THEOREM OnePanelIsOpen == CanvasSpec => []PanelsExclusive
<1>1. CanvasInit => PanelsInv
  BY DEF CanvasInit, PanelsInv, Configured
<1>2. PanelsInv => PanelsExclusive
  BY DEF PanelsInv, PanelsExclusive, AtRest, Configured
<1> QED
  BY <1>1, <1>2, PanelsStepKeeps, PTL DEF CanvasSpec

-----------------------------------------------------------------------------
(* Who replaces the open flow.                                             *)

CountersInv == clicks \in Nat /\ reloads \in Nat

\* The steps of CanvasNext: what the user does takes a click, an effect on a panel leaves
\* the editor alone, and the others are those of the editor.
LEMMA StepsOfTheCanvas ==
  ASSUME [CanvasNext]_canvasVars
  PROVE  Clicked \/ UNCHANGED editorVars \/ EditorStep
<1>1. CASE UNCHANGED canvasVars
  BY <1>1 DEF canvasVars
<1>2. CASE EditorMoves
  BY <1>2 DEF EditorMoves
<1>3. CASE PanelFlushStarts \/ PanelEffect
  BY <1>3 DEF PanelFlushStarts, PanelEffect
<1>4. CASE Look
  BY <1>4 DEF Look, Click
<1>5. CASE Edit
  BY <1>5 DEF Edit, Click
<1>6. CASE StartEdge
  BY <1>6 DEF StartEdge, Click
<1>7. CASE EndEdge
  BY <1>7 DEF EndEdge
<1>8. CASE Library
  BY <1>8 DEF Library, Click
<1>9. CASE AskDelete \/ AnswerDelete
  BY <1>9 DEF AskDelete, AnswerDelete, Click
<1> QED
  BY <1>1, <1>2, <1>3, <1>4, <1>5, <1>6, <1>7, <1>8, <1>9 DEF CanvasNext

LEMMA CountersKeep == CountersInv /\ [CanvasNext]_canvasVars => CountersInv'
<1> SUFFICES ASSUME CountersInv, [CanvasNext]_canvasVars PROVE CountersInv'
  OBVIOUS
<1>1. CASE Clicked
  BY <1>1 DEF Clicked, CountersInv
<1>2. CASE UNCHANGED editorVars
  BY <1>2 DEF editorVars, CountersInv
<1>3. CASE EditorStep
  <2>1. clicks' = clicks /\ (reloads' = reloads \/ reloads' = reloads + 1)
    BY <1>3 DEF EditorStep, OpenEffect, StoreEffect, FlushStarts, ServerHandles, OtherClient, FlowsLoaded,
                ResetEnds, Reload
  <2> QED
    BY <2>1 DEF CountersInv
<1> QED
  BY <1>1, <1>2, <1>3, StepsOfTheCanvas

\* Only the first effect sets the open flow without the user and without a reload.
LEMMA OnlyTheUserReplaces ==
  ASSUME CountersInv, [CanvasNext]_canvasVars,
         active # None, hasUnsavedChanges, clicks' = clicks, reloads' = reloads
  PROVE  active' = active
<1>1. CASE Clicked
  <2>1. clicks' = clicks + 1
    BY <1>1 DEF Clicked
  <2> QED
    BY <2>1 DEF CountersInv
<1>2. CASE UNCHANGED editorVars
  BY <1>2 DEF editorVars
<1>3. CASE OpenEffect
  <2>1. active' = active \/ active' = ToOpen
    BY <1>3 DEF OpenEffect
  <2>2. ToOpen = Follow(active)
    BY DEF ToOpen, DraftOpens
  <2>3. Follow(active) = active
    BY DEF Follow, hasUnsavedChanges
  <2> QED
    BY <2>1, <2>2, <2>3
<1>4. CASE Reload
  <2>1. reloads' = reloads + 1
    BY <1>4 DEF Reload
  <2> QED
    BY <2>1 DEF CountersInv
<1>5. CASE EditorStep /\ ~OpenEffect /\ ~Reload
  BY <1>5 DEF EditorStep, StoreEffect, FlushStarts, ServerHandles, OtherClient, FlowsLoaded, ResetEnds
<1> QED
  BY <1>1, <1>2, <1>3, <1>4, <1>5, StepsOfTheCanvas

\* No message of the server, timer or effect takes an open flow with unsaved changes away:
\* the first effect follows the server only when there is no difference to lose.
THEOREM EditsAreKept == CanvasSpec => EditsKept
<1>1. CanvasInit => CountersInv
  BY DEF CanvasInit, EditorInit, CountersInv
<1>2. CountersInv /\ [CanvasNext]_canvasVars
        => [active # None /\ hasUnsavedChanges /\ clicks' = clicks /\ reloads' = reloads
              => active' = active]_canvasVars
  BY OnlyTheUserReplaces
<1> QED
  BY <1>1, <1>2, CountersKeep, PTL DEF CanvasSpec, EditsKept

-----------------------------------------------------------------------------
(* Flows that are made of others.  Edges are numbered as they are drawn,   *)
(* so that the same edge of a flow has the same ends wherever the flow is: *)
(* open, in a draft, at the server or on its way.                          *)

EndsOf(edge) == <<edge.source, edge.target>>

\* A flow that is well formed, and whose edges have the ends that ends gives them.
Fits(flow, ends, last) ==
  /\ IsFlow(flow, last) /\ WellFormed(flow)
  /\ \A e \in DOMAIN flow.edges : ends[<<flow.id, e>>] = EndsOf(flow.edges[e])

ListFits(listed, ends, last) ==
  /\ listed = [h \in FlowIds |-> listed[h]]
  /\ \A h \in FlowIds : listed[h] # None => Fits(listed[h], ends, last) /\ listed[h].id = h

\* Flow x is made of flow y: an edge may go, or be set, and its nodes stay.
MadeOf(x, y) ==
  /\ {"id", "nodes", "edges"} \subseteq DOMAIN x /\ x.id = y.id
  /\ x.nodes = [n \in DOMAIN x.nodes |-> x.nodes[n]]
  /\ x.edges = [e \in DOMAIN x.edges |-> x.edges[e]]
  /\ DOMAIN x.edges \subseteq DOMAIN y.edges
  /\ \A e \in DOMAIN x.edges :
       /\ x.edges[e] \in [source : {y.edges[e].source}, target : {y.edges[e].target},
                          settings : {x.edges[e].settings}]
       /\ y.edges[e].source \in DOMAIN x.nodes /\ y.edges[e].target \in DOMAIN x.nodes

LEMMA MadeOfFits ==
  ASSUME NEW x, NEW y, NEW ends, NEW last, Fits(y, ends, last), MadeOf(x, y)
  PROVE  Fits(x, ends, last)
<1>1. \A e \in DOMAIN x.edges :
        /\ e \in DOMAIN y.edges
        /\ x.edges[e].source = y.edges[e].source /\ x.edges[e].target = y.edges[e].target
        /\ x.edges[e] \in [source : {x.edges[e].source}, target : {x.edges[e].target},
                           settings : {x.edges[e].settings}]
        /\ x.edges[e].source \in DOMAIN x.nodes /\ x.edges[e].target \in DOMAIN x.nodes
  BY DEF MadeOf
<1>2. IsFlow(x, last)
  <2>1. IsFlow(y, last)
    BY DEF Fits
  <2>2. DOMAIN x.edges \subseteq 1 .. last /\ x.id \in FlowIds
    BY <2>1 DEF IsFlow, MadeOf
  <2> QED
    BY <1>1, <2>2 DEF IsFlow, MadeOf
<1>3. WellFormed(x)
  <2>1. WellFormed(y)
    BY DEF Fits
  <2>2. \A e \in DOMAIN x.edges : x.edges[e].source # x.edges[e].target
    BY <1>1, <2>1 DEF WellFormed
  <2>3. \A e, d \in DOMAIN x.edges :
          x.edges[e].source = x.edges[d].source /\ x.edges[e].target = x.edges[d].target => e = d
    BY <1>1, <2>1 DEF WellFormed
  <2> QED
    BY <1>1, <2>2, <2>3 DEF WellFormed
<1>4. \A e \in DOMAIN x.edges : ends[<<x.id, e>>] = EndsOf(x.edges[e])
  <2>1. x.id = y.id
    BY DEF MadeOf
  <2> QED
    BY <1>1, <2>1 DEF Fits, EndsOf
<1> QED
  BY <1>2, <1>3, <1>4 DEF Fits

\* What an edge of a flow is.
LEMMA EdgeFacts ==
  ASSUME NEW y, NEW last, IsFlow(y, last), WellFormed(y), NEW e \in DOMAIN y.edges
  PROVE  /\ y.edges[e] \in [source : {y.edges[e].source}, target : {y.edges[e].target},
                            settings : {y.edges[e].settings}]
         /\ y.edges[e].source \in DOMAIN y.nodes /\ y.edges[e].target \in DOMAIN y.nodes
  BY DEF IsFlow, WellFormed

\* Other nodes, as long as those of the edges are among them.
LEMMA NodesSet ==
  ASSUME NEW y, NEW last, IsFlow(y, last), WellFormed(y), NEW nodes,
         nodes = [n \in DOMAIN nodes |-> nodes[n]], DOMAIN y.nodes \subseteq DOMAIN nodes
  PROVE  MadeOf([y EXCEPT !.nodes = nodes], y)
<1> DEFINE x == [y EXCEPT !.nodes = nodes]
<1>1. /\ {"id", "nodes", "edges"} \subseteq DOMAIN x
      /\ x.id = y.id /\ x.edges = y.edges /\ x.nodes = nodes
  BY DEF IsFlow
<1> HIDE DEF x
<1>2. \A e \in DOMAIN x.edges :
        /\ x.edges[e] \in [source : {y.edges[e].source}, target : {y.edges[e].target},
                           settings : {x.edges[e].settings}]
        /\ y.edges[e].source \in DOMAIN x.nodes /\ y.edges[e].target \in DOMAIN x.nodes
  BY <1>1, EdgeFacts
<1>3. x.edges = [e \in DOMAIN x.edges |-> x.edges[e]]
  BY <1>1 DEF IsFlow
<1>4. MadeOf(x, y)
  BY <1>1, <1>2, <1>3 DEF MadeOf
<1> QED
  BY <1>4 DEF x

\* Other nodes and fewer edges.
LEMMA EdgesSet ==
  ASSUME NEW y, NEW last, IsFlow(y, last), WellFormed(y), NEW nodes, NEW edges,
         nodes = [n \in DOMAIN nodes |-> nodes[n]], edges = [e \in DOMAIN edges |-> edges[e]],
         \A e \in DOMAIN edges :
           /\ e \in DOMAIN y.edges
           /\ y.edges[e].source \in DOMAIN nodes /\ y.edges[e].target \in DOMAIN nodes
           /\ edges[e] \in [source : {y.edges[e].source}, target : {y.edges[e].target},
                            settings : {edges[e].settings}]
  PROVE  MadeOf([y EXCEPT !.nodes = nodes, !.edges = edges], y)
<1> DEFINE x == [y EXCEPT !.nodes = nodes, !.edges = edges]
<1>1. /\ {"id", "nodes", "edges"} \subseteq DOMAIN x
      /\ x.id = y.id /\ x.edges = edges /\ x.nodes = nodes
  BY DEF IsFlow
<1> HIDE DEF x
<1>2. MadeOf(x, y)
  BY <1>1 DEF MadeOf
<1> QED
  BY <1>2 DEF x

-----------------------------------------------------------------------------
(* What the user makes of the open flow.                                   *)

OpenIsFlow(last) == active # None /\ IsFlow(active, last) /\ WellFormed(active)

LEMMA DeleteNodeMade ==
  ASSUME NEW last, OpenIsFlow(last), NEW n, DeleteNode(n)
  PROVE  MadeOf(active', active)
<1> DEFINE nodes == [m \in DOMAIN active.nodes \ {n} |-> active.nodes[m]]
           edges == EdgesWithout(active, n)
<1>1. active' = [active EXCEPT !.nodes = nodes, !.edges = edges]
  BY DEF DeleteNode, UpdateActive, SetActive
<1>2. edges = [e \in DOMAIN edges |-> edges[e]]
  BY DEF EdgesWithout
<1>3. ASSUME NEW e \in DOMAIN edges
      PROVE  /\ e \in DOMAIN active.edges /\ edges[e] = active.edges[e]
             /\ active.edges[e].source # n /\ active.edges[e].target # n
  BY <1>3 DEF EdgesWithout
<1>4. \A e \in DOMAIN edges :
        /\ e \in DOMAIN active.edges
        /\ active.edges[e].source \in DOMAIN nodes /\ active.edges[e].target \in DOMAIN nodes
        /\ edges[e] \in [source : {active.edges[e].source}, target : {active.edges[e].target},
                         settings : {edges[e].settings}]
  <2> TAKE e \in DOMAIN edges
  <2>1. e \in DOMAIN active.edges
    BY <1>3
  <2>2. active.edges[e].source \in DOMAIN active.nodes /\ active.edges[e].target \in DOMAIN active.nodes
    BY <2>1, EdgeFacts DEF OpenIsFlow
  <2>3. active.edges[e].source \in DOMAIN nodes /\ active.edges[e].target \in DOMAIN nodes
    BY <1>3, <2>2
  <2>4. edges[e] \in [source : {active.edges[e].source}, target : {active.edges[e].target},
                      settings : {edges[e].settings}]
    BY <1>3, <2>1, EdgeFacts DEF OpenIsFlow
  <2> QED
    BY <2>1, <2>3, <2>4
<1>5. nodes = [m \in DOMAIN nodes |-> nodes[m]]
  OBVIOUS
<1> HIDE DEF nodes, edges
<1> QED
  BY <1>1, <1>2, <1>4, <1>5, EdgesSet DEF OpenIsFlow

LEMMA ClearCanvasMade ==
  ASSUME NEW last, OpenIsFlow(last), ClearCanvas
  PROVE  MadeOf(active', active)
<1> DEFINE none == <<>>
<1>1. active' = [active EXCEPT !.nodes = none, !.edges = none]
  BY DEF ClearCanvas, UpdateActive, SetActive
<1>2. DOMAIN none = {} /\ none = [n \in DOMAIN none |-> none[n]]
  OBVIOUS
<1> HIDE DEF none
<1> QED
  BY <1>1, <1>2, EdgesSet DEF OpenIsFlow

\* What leaves the nodes alone, and sets, or drops, edges.
LEMMA EdgesMade ==
  ASSUME NEW last, OpenIsFlow(last), NEW edges, edges = [e \in DOMAIN edges |-> edges[e]],
         \A e \in DOMAIN edges :
           /\ e \in DOMAIN active.edges
           /\ edges[e] \in [source : {active.edges[e].source}, target : {active.edges[e].target},
                            settings : {edges[e].settings}]
  PROVE  MadeOf([active EXCEPT !.edges = edges], active)
<1> DEFINE x == [active EXCEPT !.edges = edges]
<1>1. /\ {"id", "nodes", "edges"} \subseteq DOMAIN x
      /\ x.id = active.id /\ x.edges = edges /\ x.nodes = active.nodes
  BY DEF IsFlow, OpenIsFlow
<1> HIDE DEF x
<1>2. \A e \in DOMAIN x.edges :
        active.edges[e].source \in DOMAIN x.nodes /\ active.edges[e].target \in DOMAIN x.nodes
  BY <1>1, EdgeFacts DEF OpenIsFlow
<1>3. x.nodes = [n \in DOMAIN x.nodes |-> x.nodes[n]]
  BY <1>1 DEF IsFlow, OpenIsFlow
<1>4. MadeOf(x, active)
  BY <1>1, <1>2, <1>3 DEF MadeOf
<1> QED
  BY <1>4 DEF x

LEMMA DeleteEdgeMade ==
  ASSUME NEW last, OpenIsFlow(last), NEW e, DeleteEdge(e)
  PROVE  MadeOf(active', active)
<1> DEFINE edges == [d \in DOMAIN active.edges \ {e} |-> active.edges[d]]
<1>1. active' = [active EXCEPT !.edges = edges]
  BY DEF DeleteEdge, UpdateActive, SetActive
<1>2. \A d \in DOMAIN edges :
        /\ d \in DOMAIN active.edges
        /\ edges[d] \in [source : {active.edges[d].source}, target : {active.edges[d].target},
                         settings : {edges[d].settings}]
  BY EdgeFacts DEF OpenIsFlow
<1>3. edges = [d \in DOMAIN edges |-> edges[d]]
  OBVIOUS
<1> HIDE DEF edges
<1> QED
  BY <1>1, <1>2, <1>3, EdgesMade

LEMMA UpdateEdgeMade ==
  ASSUME NEW last, OpenIsFlow(last), NEW e, NEW v, UpdateEdge(e, v)
  PROVE  MadeOf(active', active)
<1> DEFINE edge == [active.edges[e] EXCEPT !.settings = v]
           edges == [active.edges EXCEPT ![e] = edge]
<1>1. active' = [active EXCEPT !.edges = edges]
  BY DEF UpdateEdge, UpdateActive, SetActive
<1>2. e \in DOMAIN active.edges
  BY DEF UpdateEdge, Edges, OpenIsFlow
<1>3. edge \in [source : {active.edges[e].source}, target : {active.edges[e].target}, settings : {edge.settings}]
  <2>1. active.edges[e] \in [source : {active.edges[e].source}, target : {active.edges[e].target},
                             settings : {active.edges[e].settings}]
    BY <1>2, EdgeFacts DEF OpenIsFlow
  <2> QED
    BY <2>1
<1> HIDE DEF edge
<1>4. \A d \in DOMAIN edges :
        /\ d \in DOMAIN active.edges
        /\ edges[d] \in [source : {active.edges[d].source}, target : {active.edges[d].target},
                         settings : {edges[d].settings}]
  <2> TAKE d \in DOMAIN edges
  <2>1. d \in DOMAIN active.edges
    OBVIOUS
  <2>2. CASE d = e
    BY <2>2, <1>2, <1>3
  <2>3. CASE d # e
    BY <2>1, <2>3, EdgeFacts DEF OpenIsFlow
  <2> QED
    BY <2>1, <2>2, <2>3
<1>5. edges = [d \in DOMAIN edges |-> edges[d]]
  OBVIOUS
<1> HIDE DEF edges
<1> QED
  BY <1>1, <1>4, <1>5, EdgesMade

LEMMA UpdateNodeMade ==
  ASSUME NEW last, OpenIsFlow(last), NEW n, NEW v, UpdateNode(n, v) \/ BindNode(n, v)
  PROVE  MadeOf(active', active)
<1>1. \E node : active' = [active EXCEPT !.nodes = [active.nodes EXCEPT ![n] = node]]
  <2>1. CASE UpdateNode(n, v)
    <3> DEFINE node == [active.nodes[n] EXCEPT !.settings = v]
    <3>1. active' = [active EXCEPT !.nodes = [active.nodes EXCEPT ![n] = node]]
      BY <2>1 DEF UpdateNode, UpdateActive, SetActive
    <3> QED
      BY <3>1
  <2>2. CASE BindNode(n, v)
    <3> DEFINE node == [active.nodes[n] EXCEPT !.binding = v]
    <3>1. active' = [active EXCEPT !.nodes = [active.nodes EXCEPT ![n] = node]]
      BY <2>2 DEF BindNode, UpdateActive, SetActive
    <3> QED
      BY <3>1
  <2> QED
    BY <2>1, <2>2
<1>2. PICK node : active' = [active EXCEPT !.nodes = [active.nodes EXCEPT ![n] = node]]
  BY <1>1
<1> DEFINE nodes == [active.nodes EXCEPT ![n] = node]
<1>3. active' = [active EXCEPT !.nodes = nodes]
  BY <1>2
<1>4. nodes = [m \in DOMAIN nodes |-> nodes[m]] /\ DOMAIN active.nodes \subseteq DOMAIN nodes
  OBVIOUS
<1> HIDE DEF nodes
<1> QED
  BY <1>3, <1>4, NodesSet DEF OpenIsFlow

LEMMA MagicLayoutMade ==
  ASSUME NEW last, OpenIsFlow(last), MagicLayout
  PROVE  MadeOf(active', active)
<1>1. PICK v \in [Nodes -> Settings] :
        active' = [active EXCEPT !.nodes = [n \in Nodes |-> [@[n] EXCEPT !.settings = v[n]]]]
  BY DEF MagicLayout, UpdateActive, SetActive
<1> DEFINE nodes == [n \in Nodes |-> [active.nodes[n] EXCEPT !.settings = v[n]]]
<1>2. active' = [active EXCEPT !.nodes = nodes]
  BY <1>1
<1>3. nodes = [n \in DOMAIN nodes |-> nodes[n]] /\ DOMAIN active.nodes \subseteq DOMAIN nodes
  BY DEF Nodes, OpenIsFlow
<1> HIDE DEF nodes
<1> QED
  BY <1>2, <1>3, NodesSet DEF OpenIsFlow

LEMMA AddNodeMade ==
  ASSUME NEW last, OpenIsFlow(last), NEW s, AddNode(s)
  PROVE  MadeOf(active', active)
<1> DEFINE new == NewNode(active, s)
           nodes == [m \in DOMAIN active.nodes \cup {new} |->
                       IF m = new THEN [settings |-> 0, binding |-> None] ELSE active.nodes[m]]
<1>1. active' = [active EXCEPT !.nodes = nodes]
  BY DEF AddNode, UpdateActive, SetActive, WithNode
<1>2. nodes = [n \in DOMAIN nodes |-> nodes[n]] /\ DOMAIN active.nodes \subseteq DOMAIN nodes
  OBVIOUS
<1> HIDE DEF nodes
<1> QED
  BY <1>1, <1>2, NodesSet DEF OpenIsFlow

LEMMA EditMade ==
  ASSUME NEW last, active # None => OpenIsFlow(last), Edit
  PROVE  active # None /\ MadeOf(active', active)
<1>1. active # None
  BY DEF Edit, DeleteNode, DeleteEdge, UpdateNode, UpdateEdge, AddNode, ClearCanvas, BindNode, MagicLayout,
         UpdateActive, Nodes
<1>2. OpenIsFlow(last)
  BY <1>1
<1>3. CASE \E n \in NodeIds : DeleteNode(n) \/ \E m \in NodeIds \cup {None} : BindNode(n, m)
  BY <1>1, <1>2, <1>3, DeleteNodeMade, UpdateNodeMade
<1>4. CASE \E e \in 1 .. lastEdge : DeleteEdge(e)
  BY <1>1, <1>2, <1>4, DeleteEdgeMade
<1>5. CASE \E v \in Settings : (\E n \in NodeIds : UpdateNode(n, v)) \/ (\E e \in 1 .. lastEdge : UpdateEdge(e, v))
  BY <1>1, <1>2, <1>5, UpdateNodeMade, UpdateEdgeMade
<1>6. CASE \E s \in {n[1] : n \in NodeIds} : AddNode(s)
  BY <1>1, <1>2, <1>6, AddNodeMade
<1>7. CASE ClearCanvas
  BY <1>1, <1>2, <1>7, ClearCanvasMade
<1>8. CASE MagicLayout
  BY <1>1, <1>2, <1>8, MagicLayoutMade
<1> QED
  BY <1>1, <1>3, <1>4, <1>5, <1>6, <1>7, <1>8 DEF Edit

-----------------------------------------------------------------------------
(* Sequences and lists of flows.                                           *)

IsSequence(q) == Len(q) \in Nat /\ q = [i \in 1 .. Len(q) |-> q[i]]
ElementsOf(q) == {q[i] : i \in 1 .. Len(q)}

LEMMA SequenceIs ==
  ASSUME NEW q, IsSequence(q)
  PROVE  q \in Seq(ElementsOf(q))
<1>1. q \in [1 .. Len(q) -> ElementsOf(q)]
  BY DEF IsSequence, ElementsOf
<1> QED
  BY <1>1, SeqDef DEF IsSequence

LEMMA IsSequenceOf ==
  ASSUME NEW S, NEW q \in Seq(S)
  PROVE  IsSequence(q)
<1>1. Len(q) \in Nat /\ DOMAIN q = 1 .. Len(q) /\ q \in [1 .. Len(q) -> S]
  OBVIOUS
<1> QED
  BY <1>1 DEF IsSequence

LEMMA Added ==
  ASSUME NEW q, IsSequence(q), NEW x
  PROVE  IsSequence(Append(q, x)) /\ ElementsOf(Append(q, x)) \subseteq ElementsOf(q) \cup {x}
<1> DEFINE S == ElementsOf(q) \cup {x}
           longer == Append(q, x)
<1>1. q \in Seq(S)
  <2>1. q \in [1 .. Len(q) -> S]
    BY DEF IsSequence, ElementsOf
  <2> QED
    BY <2>1, SeqDef DEF IsSequence
<1> HIDE DEF S
<1>2. longer \in Seq(S)
  BY <1>1 DEF S
<1> HIDE DEF longer
<1>3. \A i \in 1 .. Len(longer) : longer[i] \in S
  BY <1>2
<1>4. IsSequence(longer) /\ ElementsOf(longer) \subseteq S
  BY <1>2, <1>3, IsSequenceOf DEF ElementsOf
<1> QED
  BY <1>4 DEF S, longer

LEMMA Rest ==
  ASSUME NEW q, IsSequence(q), q # <<>>
  PROVE  /\ IsSequence(Tail(q)) /\ ElementsOf(Tail(q)) \subseteq ElementsOf(q)
         /\ Head(q) \in ElementsOf(q)
<1> DEFINE S == ElementsOf(q)
           rest == Tail(q)
<1>1. q \in Seq(S)
  BY SequenceIs
<1> HIDE DEF S
<1>2. rest \in Seq(S) /\ Head(q) \in S
  BY <1>1
<1> HIDE DEF rest
<1>3. \A i \in 1 .. Len(rest) : rest[i] \in S
  BY <1>2
<1>4. IsSequence(rest) /\ ElementsOf(rest) \subseteq S
  BY <1>2, <1>3, IsSequenceOf DEF ElementsOf
<1> QED
  BY <1>2, <1>4 DEF S, rest

LEMMA Prefix ==
  ASSUME NEW q, IsSequence(q), NEW n \in 0 .. Len(q)
  PROVE  IsSequence(SubSeq(q, 1, n)) /\ ElementsOf(SubSeq(q, 1, n)) \subseteq ElementsOf(q)
<1> DEFINE S == ElementsOf(q)
           front == SubSeq(q, 1, n)
<1>1. q \in Seq(S)
  BY SequenceIs
<1>2. Len(q) \in Nat
  BY DEF IsSequence
<1> HIDE DEF S
<1>3. front \in Seq(S)
  BY <1>1, <1>2
<1> HIDE DEF front
<1>4. \A i \in 1 .. Len(front) : front[i] \in S
  BY <1>3
<1>5. IsSequence(front) /\ ElementsOf(front) \subseteq S
  BY <1>3, <1>4, IsSequenceOf DEF ElementsOf
<1> QED
  BY <1>5 DEF S, front

LEMMA OneElement ==
  ASSUME NEW x
  PROVE  IsSequence(<<x>>) /\ ElementsOf(<<x>>) = {x}
<1>1. <<x>> \in Seq({x}) /\ Len(<<x>>) = 1 /\ <<x>>[1] = x
  OBVIOUS
<1>2. IsSequence(<<x>>)
  BY <1>1, IsSequenceOf
<1>3. ElementsOf(<<x>>) = {x}
  BY <1>1 DEF ElementsOf
<1> QED
  BY <1>2, <1>3

LEMMA NoElement == IsSequence(<<>>) /\ ElementsOf(<<>>) = {}
<1>1. <<>> \in Seq({}) /\ Len(<<>>) = 0
  OBVIOUS
<1>2. IsSequence(<<>>)
  BY <1>1, IsSequenceOf
<1>3. ElementsOf(<<>>) = {}
  BY <1>1 DEF ElementsOf
<1> QED
  BY <1>2, <1>3

\* A list in which one flow is set.
LEMMA ListSet ==
  ASSUME NEW listed, NEW ends, NEW last, ListFits(listed, ends, last), NEW h, NEW flow,
         flow # None => Fits(flow, ends, last) /\ flow.id = h
  PROVE  ListFits([listed EXCEPT ![h] = flow], ends, last)
<1> DEFINE set == [listed EXCEPT ![h] = flow]
<1>1. set = [k \in FlowIds |-> set[k]]
  BY DEF ListFits
<1>2. \A k \in FlowIds : IF k = h THEN set[k] = flow ELSE set[k] = listed[k]
  BY DEF ListFits
<1> HIDE DEF set
<1>3. ListFits(set, ends, last)
  BY <1>1, <1>2 DEF ListFits
<1> QED
  BY <1>3 DEF set

LEMMA NothingListed ==
  ASSUME NEW ends, NEW last
  PROVE  ListFits([h \in FlowIds |-> None], ends, last)
  BY DEF ListFits

-----------------------------------------------------------------------------
(* The flow that opens.                                                    *)

LEMMA SmallestExists ==
  ASSUME NEW S, S \subseteq Nat, NEW m \in S
  PROVE  Min(S) \in S
<1> DEFINE less == {p \in Nat \X Nat : p[1] < p[2]}
<1>1. IsWellFoundedOn(less, Nat)
  <2>1. less = OpToRel(<, Nat)
    BY DEF OpToRel
  <2> QED
    BY <2>1, NatLessThanWellFounded
<1>0. \A i, j \in Nat : i < j => <<i, j>> \in less
  OBVIOUS
<1> HIDE DEF less
<1>2. PICK k \in S : \A j \in S : ~(<<j, k>> \in less)
  <2>1. S # {}
    OBVIOUS
  <2> QED
    BY <1>1, <2>1, WFMin
<1>3. ASSUME NEW j \in S PROVE k <= j
  <2>1. j \in Nat /\ k \in Nat
    OBVIOUS
  <2>2. ~(j < k)
    BY <1>0, <1>2, <2>1
  <2> QED
    BY <2>1, <2>2
<1> QED
  BY <1>2, <1>3 DEF Min

LEMMA FirstIsListed ==
  ASSUME NEW listed, SomeFlow(listed)
  PROVE  \E h \in FlowIds : FirstFlow(listed) = listed[h]
<1> DEFINE places == {k \in DOMAIN FlowOrder : listed[FlowOrder[k]] # None}
<1>1. PICK m \in DOMAIN FlowOrder : listed[FlowOrder[m]] # None
  BY DEF SomeFlow, FlowIds
<1>2. places \subseteq Nat
  <2>1. DOMAIN FlowOrder = 1 .. Len(FlowOrder) /\ Len(FlowOrder) \in Nat
    BY CanvasAssumption
  <2> QED
    BY <2>1
<1>3. m \in places
  BY <1>1
<1> HIDE DEF places
<1>4. Min(places) \in places
  BY <1>2, <1>3, SmallestExists
<1>5. Min(places) \in DOMAIN FlowOrder
  BY <1>4 DEF places
<1>6. FlowOrder[Min(places)] \in FlowIds
  BY <1>5 DEF FlowIds
<1>7. FirstFlow(listed) = listed[FlowOrder[Min(places)]]
  BY DEF FirstFlow, places
<1> QED
  BY <1>6, <1>7

QueueFits(ends, last) == IsSequence(inbox) /\ \A l \in ElementsOf(inbox) : ListFits(l, ends, last)
RequestsFit(ends, last) == IsSequence(requests) /\ \A r \in ElementsOf(requests) : Fits(r.flow, ends, last)

\* Every flow of the page, its storage, the server and the messages between them fits.
FlowsFit(ends, last) ==
  /\ active # None => Fits(active, ends, last)
  /\ before # None => Fits(before, ends, last)
  /\ ListFits(stored, ends, last) /\ ListFits(flows, ends, last) /\ ListFits(drafts, ends, last)
  /\ QueueFits(ends, last) /\ RequestsFit(ends, last)
  /\ \A h \in StaticFlows : Fits(OriginalFlow[h], ends, last)

flowsState == <<active, before, stored, flows, drafts, inbox, requests>>

LEMMA FlowsSame ==
  ASSUME NEW ends, NEW last, FlowsFit(ends, last), UNCHANGED flowsState
  PROVE  FlowsFit(ends, last)'
<1>1. /\ active' = active /\ before' = before /\ stored' = stored /\ flows' = flows
      /\ drafts' = drafts /\ inbox' = inbox /\ requests' = requests
  BY DEF flowsState
<1> QED
  BY <1>1 DEF FlowsFit, QueueFits, RequestsFit

\* A flow that follows the server's is the same but for its source.
SameFlow(x, y) == x.id = y.id /\ x.nodes = y.nodes /\ x.edges = y.edges

LEMMA NoDifferenceIsSame ==
  ASSUME NEW ends, NEW last, NEW x, NEW y, Fits(x, ends, last), Fits(y, ends, last), x.id = y.id,
         ~AnyChange(NodeDiff(x, y)), ~AnyChange(EdgeDiff(x, y))
  PROVE  SameFlow(x, y)
<1>1. IsFlow(x, last) /\ IsFlow(y, last)
  BY DEF Fits
<1>2. x.nodes = y.nodes
  <2>1. DOMAIN x.nodes = DOMAIN y.nodes /\ \A n \in DOMAIN x.nodes : x.nodes[n] = y.nodes[n]
    BY DEF AnyChange, NodeDiff
  <2> QED
    BY <1>1, <2>1 DEF IsFlow
<1>3. x.edges = y.edges
  <2>1. DOMAIN x.edges = DOMAIN y.edges /\ \A e \in DOMAIN x.edges : x.edges[e].settings = y.edges[e].settings
    BY DEF AnyChange, EdgeDiff
  <2>2. ASSUME NEW e \in DOMAIN x.edges PROVE x.edges[e] = y.edges[e]
    <3>1. EndsOf(x.edges[e]) = EndsOf(y.edges[e])
      BY <2>1 DEF Fits
    <3>2. x.edges[e].source = y.edges[e].source /\ x.edges[e].target = y.edges[e].target
      BY <3>1 DEF EndsOf
    <3>3. x.edges[e] \in [source : {x.edges[e].source}, target : {x.edges[e].target},
                          settings : {x.edges[e].settings}]
      BY <1>1 DEF IsFlow
    <3>4. y.edges[e] \in [source : {y.edges[e].source}, target : {y.edges[e].target},
                          settings : {y.edges[e].settings}]
      BY <1>1, <2>1 DEF IsFlow
    <3> QED
      BY <2>1, <3>2, <3>3, <3>4
  <2> QED
    BY <1>1, <2>1, <2>2 DEF IsFlow
<1> QED
  BY <1>2, <1>3 DEF SameFlow

LEMMA FollowIsSame ==
  ASSUME NEW ends, NEW last, FlowsFit(ends, last), active # None
  PROVE  Follow(active) # None /\ Fits(Follow(active), ends, last) /\ SameFlow(Follow(active), active)
<1>1. Fits(active, ends, last) /\ active.id \in FlowIds
  BY DEF FlowsFit, Fits, IsFlow
<1>2. CASE flows[active.id] # None /\ flows[active.id] # active /\ ~HasUnsaved(active, flows)
  <2>1. Follow(active) = flows[active.id]
    BY <1>2 DEF Follow
  <2>2. Fits(flows[active.id], ends, last) /\ flows[active.id].id = active.id
    BY <1>1, <1>2 DEF FlowsFit, ListFits
  <2>3. ~AnyChange(NodeDiff(active, flows[active.id])) /\ ~AnyChange(EdgeDiff(active, flows[active.id]))
    BY <1>2 DEF HasUnsaved
  <2>4. SameFlow(active, flows[active.id])
    BY <1>1, <2>2, <2>3, NoDifferenceIsSame
  <2> QED
    BY <1>2, <2>1, <2>2, <2>4 DEF SameFlow
<1>3. CASE ~(flows[active.id] # None /\ flows[active.id] # active /\ ~HasUnsaved(active, flows))
  <2>1. Follow(active) = active
    BY <1>3 DEF Follow
  <2> QED
    BY <1>1, <2>1 DEF SameFlow
<1> QED
  BY <1>2, <1>3

LEMMA ToOpenFits ==
  ASSUME NEW ends, NEW last, FlowsFit(ends, last), lastOpened # None => lastOpened \in FlowIds,
         ToOpen # None
  PROVE  Fits(ToOpen, ends, last)
<1>1. CASE DraftOpens
  <2>1. ToOpen = drafts[lastOpened] /\ lastOpened \in FlowIds
    BY <1>1 DEF ToOpen, DraftOpens
  <2> QED
    BY <2>1 DEF FlowsFit, ListFits
<1>2. CASE ~DraftOpens /\ active # None
  <2>1. ToOpen = Follow(active)
    BY <1>2 DEF ToOpen
  <2> QED
    BY <1>2, <2>1, FollowIsSame
<1>3. CASE ~DraftOpens /\ active = None /\ lastOpened # None /\ flows[lastOpened] # None
  <2>1. ToOpen = flows[lastOpened] /\ lastOpened \in FlowIds
    BY <1>3 DEF ToOpen
  <2> QED
    BY <2>1 DEF FlowsFit, ListFits
<1>4. CASE ~DraftOpens /\ active = None /\ ~(lastOpened # None /\ flows[lastOpened] # None)
  <2>1. SomeFlow(flows) /\ ToOpen = FirstFlow(flows)
    BY <1>4 DEF ToOpen
  <2>2. PICK h \in FlowIds : ToOpen = flows[h]
    BY <2>1, FirstIsListed
  <2> QED
    BY <2>2 DEF FlowsFit, ListFits
<1> QED
  BY <1>1, <1>2, <1>3, <1>4

-----------------------------------------------------------------------------
(* The steps of the editor.                                                *)

LastIsFlow == lastOpened # None => lastOpened \in FlowIds

LEMMA OpenEffectFits ==
  ASSUME NEW ends, NEW last, FlowsFit(ends, last), LastIsFlow, OpenEffect
  PROVE  FlowsFit(ends, last)' /\ LastIsFlow'
<1>1. UNCHANGED <<before, stored, flows, drafts, inbox, requests, lastOpened>>
  BY DEF OpenEffect, serverVars, pageVars, storageVars
<1>2. active' = active \/ active' = ToOpen
  BY DEF OpenEffect
<1>3. active' # None => Fits(active', ends, last)
  BY <1>2, ToOpenFits DEF FlowsFit, LastIsFlow
<1> QED
  BY <1>1, <1>3 DEF FlowsFit, QueueFits, RequestsFit, LastIsFlow

LEMMA StoreEffectFits ==
  ASSUME NEW ends, NEW last, FlowsFit(ends, last), LastIsFlow, StoreEffect
  PROVE  FlowsFit(ends, last)' /\ LastIsFlow'
<1>1. UNCHANGED <<active, before, stored, flows, inbox, requests>>
  BY DEF StoreEffect, serverVars, pageVars
<1>2. ListFits(drafts', ends, last) /\ LastIsFlow'
  <2>1. CASE UNCHANGED storageVars
    BY <2>1 DEF storageVars, FlowsFit, LastIsFlow
  <2>2. CASE ~UNCHANGED storageVars
    <3> DEFINE flow == IF hasUnsavedChanges THEN active ELSE None
    <3>1. active # None /\ lastOpened' = active.id /\ drafts' = [drafts EXCEPT ![active.id] = flow]
      BY <2>2 DEF StoreEffect
    <3>2. Fits(active, ends, last) /\ active.id \in FlowIds
      BY <3>1 DEF FlowsFit, Fits, IsFlow
    <3>3. ListFits(drafts, ends, last)
      BY DEF FlowsFit
    <3>4. flow # None => Fits(flow, ends, last) /\ flow.id = active.id
      BY <3>2
    <3> HIDE DEF flow
    <3> QED
      BY <3>1, <3>2, <3>3, <3>4, ListSet DEF LastIsFlow
  <2> QED
    BY <2>1, <2>2
<1> QED
  BY <1>1, <1>2 DEF FlowsFit, QueueFits, RequestsFit

\* What the server has of a flow that was saved or deleted.
LEMMA ListedFits ==
  ASSUME NEW ends, NEW last, NEW flow, Fits(flow, ends, last)
  PROVE  Fits(Listed(flow), ends, last) /\ Listed(flow).id = flow.id
<1> DEFINE x == Listed(flow)
<1>1. IsFlow(flow, last) /\ WellFormed(flow)
  BY DEF Fits
<1>2. {"id", "nodes", "edges"} \subseteq DOMAIN x /\ x.id = flow.id /\ x.nodes = flow.nodes /\ x.edges = flow.edges
  BY <1>1 DEF IsFlow, Listed
<1> HIDE DEF x
<1>3. x.nodes = [n \in DOMAIN x.nodes |-> x.nodes[n]] /\ x.edges = [e \in DOMAIN x.edges |-> x.edges[e]]
  BY <1>1, <1>2 DEF IsFlow
<1>4. MadeOf(x, flow)
  BY <1>1, <1>2, <1>3, EdgeFacts DEF MadeOf
<1> QED
  BY <1>2, <1>4, MadeOfFits DEF x

LEMMA UnsavedFits ==
  ASSUME NEW ends, NEW last, FlowsFit(ends, last), NEW h, Unsaved(h) # None
  PROVE  Fits(Unsaved(h), ends, last) /\ Unsaved(h).id = h
  BY CanvasAssumption DEF Unsaved, FlowsFit

LEMMA StoredFits ==
  ASSUME NEW ends, NEW last, FlowsFit(ends, last), ListFits(stored', ends, last),
         UNCHANGED <<active, before, flows, drafts>>,
         inbox' = Append(inbox, stored'), RequestsFit(ends, last)'
  PROVE  FlowsFit(ends, last)'
<1>1. QueueFits(ends, last)'
  BY Added DEF FlowsFit, QueueFits
<1> QED
  BY <1>1 DEF FlowsFit

LEMMA ServerHandlesFits ==
  ASSUME NEW ends, NEW last, FlowsFit(ends, last), ServerHandles
  PROVE  FlowsFit(ends, last)'
<1> DEFINE request == Head(requests)
           now == IF request.op = "save" THEN Listed(request.flow) ELSE Unsaved(request.flow.id)
<1>1. /\ UNCHANGED <<active, before, flows, drafts>>
      /\ requests # <<>> /\ requests' = Tail(requests) /\ inbox' = Append(inbox, stored')
      /\ stored' = stored \/ stored' = [stored EXCEPT ![request.flow.id] = now]
  BY DEF ServerHandles, pageVars, storageVars
<1>2. IsSequence(requests) /\ \A r \in ElementsOf(requests) : Fits(r.flow, ends, last)
  BY DEF FlowsFit, RequestsFit
<1>3. request \in ElementsOf(requests) /\ IsSequence(Tail(requests))
      /\ ElementsOf(Tail(requests)) \subseteq ElementsOf(requests)
  BY <1>1, <1>2, Rest
<1>4. RequestsFit(ends, last)'
  BY <1>1, <1>2, <1>3 DEF RequestsFit
<1>5. Fits(request.flow, ends, last)
  BY <1>2, <1>3
<1>6. now # None => Fits(now, ends, last) /\ now.id = request.flow.id
  BY <1>5, ListedFits, UnsavedFits
<1>7. ListFits(stored, ends, last)
  BY DEF FlowsFit
<1> HIDE DEF request, now
<1>8. ListFits(stored', ends, last)
  <2>1. ListFits([stored EXCEPT ![request.flow.id] = now], ends, last)
    BY <1>6, <1>7, ListSet
  <2>2. CASE stored' = stored
    BY <2>2, <1>7
  <2>3. CASE stored' = [stored EXCEPT ![request.flow.id] = now]
    BY <2>1, <2>3
  <2> QED
    BY <1>1, <2>2, <2>3
<1> QED
  BY <1>1, <1>4, <1>8, StoredFits

LEMMA OtherClientFits ==
  ASSUME NEW ends, NEW last, FlowsFit(ends, last), OtherClient
  PROVE  FlowsFit(ends, last)'
<1>1. /\ UNCHANGED <<active, before, flows, drafts, requests>>
      /\ inbox' = Append(inbox, stored')
  BY DEF OtherClient, pageVars, storageVars
<1>2. RequestsFit(ends, last)'
  BY <1>1 DEF FlowsFit, RequestsFit
<1>3. ListFits(stored, ends, last)
  BY DEF FlowsFit
<1>4. PICK h \in FlowIds :
        /\ stored[h] # None
        /\ \/ \E n \in DOMAIN stored[h].nodes, v \in Settings :
                stored' = [stored EXCEPT ![h].nodes[n].settings = v]
           \/ stored' = [stored EXCEPT ![h] = Unsaved(h)]
  BY DEF OtherClient
<1>5. Fits(stored[h], ends, last) /\ stored[h].id = h /\ h \in DOMAIN stored
  BY <1>3, <1>4 DEF ListFits
<1>6. \E flow : stored' = [stored EXCEPT ![h] = flow] /\ (flow # None => Fits(flow, ends, last) /\ flow.id = h)
  <2>1. CASE stored' = [stored EXCEPT ![h] = Unsaved(h)]
    BY <2>1, UnsavedFits
  <2>2. CASE \E n \in DOMAIN stored[h].nodes, v \in Settings :
               stored' = [stored EXCEPT ![h].nodes[n].settings = v]
    <3>1. PICK n \in DOMAIN stored[h].nodes, v \in Settings :
            stored' = [stored EXCEPT ![h].nodes[n].settings = v]
      BY <2>2
    <3> DEFINE node == [stored[h].nodes[n] EXCEPT !.settings = v]
               nodes == [stored[h].nodes EXCEPT ![n] = node]
               flow == [stored[h] EXCEPT !.nodes = nodes]
    <3>2. stored' = [stored EXCEPT ![h] = flow]
      BY <3>1
    <3>3. nodes = [m \in DOMAIN nodes |-> nodes[m]] /\ DOMAIN stored[h].nodes \subseteq DOMAIN nodes
      OBVIOUS
    <3>4. IsFlow(stored[h], last) /\ WellFormed(stored[h])
      BY <1>5 DEF Fits
    <3> HIDE DEF nodes
    <3>5. MadeOf(flow, stored[h])
      BY <3>3, <3>4, NodesSet
    <3>6. flow.id = h
      BY <3>5, <1>5 DEF MadeOf
    <3> HIDE DEF flow
    <3>7. Fits(flow, ends, last)
      BY <3>5, <1>5, MadeOfFits
    <3> QED
      BY <3>2, <3>6, <3>7
  <2> QED
    BY <1>4, <2>1, <2>2
<1>7. ListFits(stored', ends, last)
  <2>1. PICK flow : stored' = [stored EXCEPT ![h] = flow] /\ (flow # None => Fits(flow, ends, last) /\ flow.id = h)
    BY <1>6
  <2>2. ListFits([stored EXCEPT ![h] = flow], ends, last)
    BY <1>3, <2>1, ListSet
  <2> QED
    BY <2>1, <2>2
<1> QED
  BY <1>1, <1>2, <1>7, StoredFits

LEMMA FlowsLoadedFits ==
  ASSUME NEW ends, NEW last, FlowsFit(ends, last), FlowsLoaded
  PROVE  FlowsFit(ends, last)'
<1>1. /\ UNCHANGED <<active, before, stored, drafts, requests>>
      /\ inbox # <<>> /\ flows' = Head(inbox) /\ inbox' = Tail(inbox)
  BY DEF FlowsLoaded, storageVars
<1>2. IsSequence(inbox) /\ \A l \in ElementsOf(inbox) : ListFits(l, ends, last)
  BY DEF FlowsFit, QueueFits
<1>3. /\ IsSequence(Tail(inbox)) /\ ElementsOf(Tail(inbox)) \subseteq ElementsOf(inbox)
      /\ Head(inbox) \in ElementsOf(inbox)
  BY <1>1, <1>2, Rest
<1>4. ListFits(flows', ends, last) /\ QueueFits(ends, last)'
  BY <1>1, <1>2, <1>3 DEF QueueFits
<1> QED
  BY <1>1, <1>4 DEF FlowsFit, RequestsFit

LEMMA ReloadFits ==
  ASSUME NEW ends, NEW last, FlowsFit(ends, last), Reload
  PROVE  FlowsFit(ends, last)'
<1>1. /\ UNCHANGED <<stored, drafts>>
      /\ active' = None /\ (before' = active \/ before' = None)
      /\ inbox' = <<stored>> /\ flows' = [h \in FlowIds |-> None]
      /\ \E sent \in 0 .. Len(requests) : requests' = SubSeq(requests, 1, sent)
  BY DEF Reload, storageVars
<1>2. IsSequence(requests) /\ \A r \in ElementsOf(requests) : Fits(r.flow, ends, last)
  BY DEF FlowsFit, RequestsFit
<1>3. PICK sent \in 0 .. Len(requests) : requests' = SubSeq(requests, 1, sent)
  BY <1>1
<1>4. IsSequence(requests') /\ ElementsOf(requests') \subseteq ElementsOf(requests)
  BY <1>2, <1>3, Prefix
<1>5. RequestsFit(ends, last)'
  BY <1>2, <1>4 DEF RequestsFit
<1>6. QueueFits(ends, last)'
  <2>1. IsSequence(inbox') /\ ElementsOf(inbox') = {stored}
    BY <1>1, OneElement
  <2> QED
    BY <2>1 DEF QueueFits, FlowsFit
<1>7. ListFits(flows', ends, last)
  BY <1>1, NothingListed
<1>8. before' # None => Fits(before', ends, last)
  BY <1>1 DEF FlowsFit
<1> QED
  BY <1>1, <1>5, <1>6, <1>7, <1>8 DEF FlowsFit

LEMMA EditorFits ==
  ASSUME NEW ends, NEW last, FlowsFit(ends, last), LastIsFlow, EditorStep
  PROVE  FlowsFit(ends, last)' /\ LastIsFlow'
<1>1. CASE OpenEffect
  BY <1>1, OpenEffectFits
<1>2. CASE StoreEffect
  BY <1>2, StoreEffectFits
<1>3. CASE FlushStarts \/ ResetEnds
  <2>1. UNCHANGED flowsState /\ lastOpened' = lastOpened
    BY <1>3 DEF FlushStarts, ResetEnds, serverVars, pageVars, storageVars, flowsState
  <2> QED
    BY <2>1, FlowsSame DEF LastIsFlow
<1>4. CASE ServerHandles
  BY <1>4, ServerHandlesFits DEF ServerHandles, storageVars, LastIsFlow
<1>5. CASE OtherClient
  BY <1>5, OtherClientFits DEF OtherClient, storageVars, LastIsFlow
<1>6. CASE FlowsLoaded
  BY <1>6, FlowsLoadedFits DEF FlowsLoaded, storageVars, LastIsFlow
<1>7. CASE Reload
  BY <1>7, ReloadFits DEF Reload, storageVars, LastIsFlow
<1> QED
  BY <1>1, <1>2, <1>3, <1>4, <1>5, <1>6, <1>7 DEF EditorStep

-----------------------------------------------------------------------------
(* What the user does.                                                     *)

LEMMA ClickedLeaves ==
  ASSUME Clicked
  PROVE  before' = None /\ UNCHANGED <<stored, inbox, flows>>
  BY DEF Clicked

LEMMA EmptyFlowFits ==
  ASSUME NEW ends, NEW last, NEW h \in FlowIds
  PROVE  Fits(EmptyFlow(h), ends, last) /\ EmptyFlow(h).id = h
<1> DEFINE x == EmptyFlow(h)
           none == <<>>
<1>1. /\ {"id", "nodes", "edges"} \subseteq DOMAIN x
      /\ x.id = h /\ x.nodes = none /\ x.edges = none
  BY DEF EmptyFlow
<1>2. DOMAIN none = {} /\ none = [n \in DOMAIN none |-> none[n]]
  OBVIOUS
<1> HIDE DEF x, none
<1>3. IsFlow(x, last) /\ WellFormed(x)
  BY <1>1, <1>2 DEF IsFlow, WellFormed
<1>4. Fits(x, ends, last)
  BY <1>1, <1>2, <1>3 DEF Fits
<1> QED
  BY <1>1, <1>4 DEF x

LEMMA NewRequestFits ==
  ASSUME NEW ends, NEW last, RequestsFit(ends, last), NEW op, NEW flow, Fits(flow, ends, last),
         requests' = Append(requests, [op |-> op, flow |-> flow])
  PROVE  RequestsFit(ends, last)'
<1> DEFINE request == [op |-> op, flow |-> flow]
<1>1. request.flow = flow
  OBVIOUS
<1> HIDE DEF request
<1>2. requests' = Append(requests, request)
  BY DEF request
<1>3. IsSequence(requests') /\ ElementsOf(requests') \subseteq ElementsOf(requests) \cup {request}
  BY <1>2, Added DEF RequestsFit
<1> QED
  BY <1>1, <1>3 DEF RequestsFit

LEMMA EditFits ==
  ASSUME NEW ends, NEW last, FlowsFit(ends, last), LastIsFlow, Edit
  PROVE  FlowsFit(ends, last)' /\ LastIsFlow'
<1>1. before' = None /\ UNCHANGED <<stored, inbox, flows>>
  BY ClickedLeaves DEF Edit, Click
<1>2. OnlyActiveChanges
  BY DEF Edit, DeleteNode, DeleteEdge, UpdateNode, UpdateEdge, AddNode, ClearCanvas, BindNode, MagicLayout,
         UpdateActive
<1>3. UNCHANGED <<requests, drafts, lastOpened>>
  BY <1>2 DEF OnlyActiveChanges
<1>4. active # None => Fits(active, ends, last)
  BY DEF FlowsFit
<1>5. active # None => OpenIsFlow(last)
  BY <1>4 DEF Fits, OpenIsFlow
<1>6. Fits(active', ends, last)
  BY <1>4, <1>5, EditMade, MadeOfFits
<1> QED
  BY <1>1, <1>3, <1>6 DEF FlowsFit, QueueFits, RequestsFit, LastIsFlow

LEMMA LibraryFits ==
  ASSUME NEW ends, NEW last, FlowsFit(ends, last), LastIsFlow, Library
  PROVE  FlowsFit(ends, last)' /\ LastIsFlow'
<1>1. before' = None /\ UNCHANGED <<stored, inbox, flows>>
  BY ClickedLeaves DEF Library, Click
<1>2. RequestsFit(ends, last) /\ ListFits(drafts, ends, last) /\ ListFits(flows, ends, last)
  BY DEF FlowsFit
<1>3. /\ active' # None => Fits(active', ends, last)
      /\ RequestsFit(ends, last)' /\ ListFits(drafts', ends, last) /\ LastIsFlow'
  <2>1. CASE \E f \in FlowIds : SelectFlow(f)
    <3>1. PICK f \in FlowIds : SelectFlow(f)
      BY <2>1
    <3>2. active' = flows[f] /\ UNCHANGED <<requests, drafts, lastOpened>>
      BY <3>1 DEF SelectFlow, SetActive, OnlyActiveChanges
    <3> QED
      BY <1>2, <3>2 DEF ListFits, RequestsFit, LastIsFlow
  <2>2. CASE \E f \in FlowIds \ StaticFlows : CreateFlow(f)
    <3>1. PICK f \in FlowIds : CreateFlow(f)
      BY <2>2
    <3>2. /\ active' = EmptyFlow(f) /\ requests' = Append(requests, [op |-> "save", flow |-> EmptyFlow(f)])
          /\ UNCHANGED <<drafts, lastOpened>>
      BY <3>1 DEF CreateFlow, SetActive
    <3>3. Fits(EmptyFlow(f), ends, last)
      BY EmptyFlowFits
    <3>4. RequestsFit(ends, last)'
      BY <1>2, <3>2, <3>3, NewRequestFits
    <3> QED
      BY <1>2, <3>2, <3>3, <3>4 DEF LastIsFlow
  <2>3. CASE SaveActiveFlow
    <3>1. /\ active # None /\ requests' = Append(requests, [op |-> "save", flow |-> active])
          /\ drafts' = [drafts EXCEPT ![active.id] = None]
          /\ UNCHANGED <<active, lastOpened>>
      BY <2>3 DEF SaveActiveFlow
    <3>2. Fits(active, ends, last)
      BY <3>1 DEF FlowsFit
    <3>3. RequestsFit(ends, last)'
      BY <1>2, <3>1, <3>2, NewRequestFits
    <3>4. ListFits(drafts', ends, last)
      BY <1>2, <3>1, ListSet
    <3> QED
      BY <3>1, <3>2, <3>3, <3>4 DEF LastIsFlow
  <2>4. CASE DiscardDraft
    <3>1. /\ active # None /\ drafts' = [drafts EXCEPT ![active.id] = None]
          /\ UNCHANGED <<requests, lastOpened>>
          /\ active' = active \/ (flows[active.id] # None /\ active' = flows[active.id])
      BY <2>4 DEF DiscardDraft, SetActive
    <3>2. Fits(active, ends, last) /\ active.id \in FlowIds
      BY <3>1 DEF FlowsFit, Fits, IsFlow
    <3>3. Fits(active', ends, last)
      BY <1>2, <3>1, <3>2 DEF ListFits
    <3>4. ListFits(drafts', ends, last)
      BY <1>2, <3>1, ListSet
    <3> QED
      BY <1>2, <3>1, <3>3, <3>4 DEF RequestsFit, LastIsFlow
  <2> QED
    BY <2>1, <2>2, <2>3, <2>4 DEF Library
<1> QED
  BY <1>1, <1>3 DEF FlowsFit, QueueFits

LEMMA AnswerDeleteFits ==
  ASSUME NEW ends, NEW last, FlowsFit(ends, last), LastIsFlow, AnswerDelete, toDelete \in FlowIds
  PROVE  FlowsFit(ends, last)' /\ LastIsFlow'
<1>1. before' = None /\ UNCHANGED <<stored, inbox, flows>>
  BY ClickedLeaves DEF AnswerDelete
<1>2. RequestsFit(ends, last) /\ ListFits(drafts, ends, last)
  BY DEF FlowsFit
<1>3. CASE DeleteFlow(toDelete)
  <2>1. /\ requests' = Append(requests, [op |-> "delete", flow |-> EmptyFlow(toDelete)])
        /\ drafts' = [drafts EXCEPT ![toDelete] = None]
        /\ lastOpened' = lastOpened /\ (active' = active \/ active' = None)
    BY <1>3 DEF DeleteFlow, SetActive
  <2>2. RequestsFit(ends, last)'
    BY <1>2, <2>1, EmptyFlowFits, NewRequestFits
  <2>3. ListFits(drafts', ends, last)
    BY <1>2, <2>1, ListSet
  <2>4. active' # None => Fits(active', ends, last)
    BY <2>1 DEF FlowsFit
  <2> QED
    BY <1>1, <2>1, <2>2, <2>3, <2>4 DEF FlowsFit, QueueFits, LastIsFlow
<1>4. CASE NothingEdited
  <2>1. UNCHANGED <<active, requests, drafts, lastOpened>>
    BY <1>4 DEF NothingEdited, storageVars
  <2> QED
    BY <1>1, <2>1 DEF FlowsFit, QueueFits, RequestsFit, LastIsFlow
<1> QED
  BY <1>3, <1>4 DEF AnswerDelete

\* Clicks that edit nothing.
LEMMA LookFits ==
  ASSUME NEW ends, NEW last, FlowsFit(ends, last), LastIsFlow, Clicked, NothingEdited
  PROVE  FlowsFit(ends, last)' /\ LastIsFlow'
<1>1. before' = None /\ UNCHANGED <<stored, inbox, flows>>
  BY ClickedLeaves
<1>2. UNCHANGED <<active, requests, drafts, lastOpened>>
  BY DEF NothingEdited, storageVars
<1> QED
  BY <1>1, <1>2 DEF FlowsFit, QueueFits, RequestsFit, LastIsFlow

-----------------------------------------------------------------------------
(* A new edge has the next number, so that no other flow has it.           *)

\* The ends that were, and those of a new edge.
WithEdge(ends, flow, e, s, t) ==
  [p \in FlowIds \X Nat |-> IF p = <<flow.id, e>> THEN <<s, t>> ELSE ends[p]]

LEMMA OthersStillFit ==
  ASSUME NEW ends, NEW last \in Nat, NEW x, NEW y, Fits(x, ends, last), y.id \in FlowIds, NEW s, NEW t
  PROVE  Fits(x, WithEdge(ends, y, last + 1, s, t), last + 1)
<1>1. IsFlow(x, last) /\ WellFormed(x)
  BY DEF Fits
<1>2. DOMAIN x.edges \subseteq 1 .. last /\ x.id \in FlowIds
  BY <1>1 DEF IsFlow
<1>3. IsFlow(x, last + 1)
  <2>1. DOMAIN x.edges \subseteq 1 .. last + 1
    BY <1>2
  <2> QED
    BY <1>1, <2>1 DEF IsFlow
<1>4. ASSUME NEW e \in DOMAIN x.edges
      PROVE  WithEdge(ends, y, last + 1, s, t)[<<x.id, e>>] = ends[<<x.id, e>>]
  <2>1. e \in Nat /\ e # last + 1
    BY <1>2
  <2>2. <<x.id, e>> \in FlowIds \X Nat /\ <<x.id, e>> # <<y.id, last + 1>>
    BY <1>2, <2>1
  <2> QED
    BY <2>2 DEF WithEdge
<1> QED
  BY <1>1, <1>3, <1>4 DEF Fits

LEMMA ListsStillFit ==
  ASSUME NEW ends, NEW last \in Nat, NEW y, y.id \in FlowIds, NEW s, NEW t,
         NEW listed, ListFits(listed, ends, last)
  PROVE  ListFits(listed, WithEdge(ends, y, last + 1, s, t), last + 1)
  BY OthersStillFit DEF ListFits

LEMMA NewEdgeFits ==
  ASSUME NEW ends, NEW last \in Nat, active # None, Fits(active, ends, last),
         NEW s \in DOMAIN active.nodes, NEW t \in DOMAIN active.nodes, Drawable(s, t),
         NEW x,
         x = [active EXCEPT !.edges = [e \in DOMAIN active.edges \cup {last + 1} |->
                IF e = last + 1 THEN [source |-> s, target |-> t, settings |-> 0] ELSE active.edges[e]]]
  PROVE  Fits(x, WithEdge(ends, active, last + 1, s, t), last + 1)
<1> DEFINE new == [source |-> s, target |-> t, settings |-> 0]
           edges == [e \in DOMAIN active.edges \cup {last + 1} |->
                       IF e = last + 1 THEN new ELSE active.edges[e]]
           all == WithEdge(ends, active, last + 1, s, t)
<1>1. IsFlow(active, last) /\ WellFormed(active)
  BY DEF Fits
<1>2. Fits(active, all, last + 1)
  <2>1. active.id \in FlowIds
    BY <1>1 DEF IsFlow
  <2> QED
    BY <2>1, OthersStillFit
<1>3. /\ {"id", "nodes", "edges"} \subseteq DOMAIN x
      /\ x.id = active.id /\ x.nodes = active.nodes /\ x.edges = edges
  BY <1>1 DEF IsFlow
<1>4. /\ new.source = s /\ new.target = t
      /\ new \in [source : {new.source}, target : {new.target}, settings : {new.settings}]
  OBVIOUS
<1>5. /\ edges = [e \in DOMAIN edges |-> edges[e]]
      /\ DOMAIN edges = DOMAIN active.edges \cup {last + 1}
      /\ \A e \in DOMAIN edges : edges[e] = IF e = last + 1 THEN new ELSE active.edges[e]
  OBVIOUS
<1>6. s # t /\ \A e \in DOMAIN active.edges : ~(active.edges[e].source = s /\ active.edges[e].target = t)
  BY DEF Drawable, SameEnds
<1>7. all[<<active.id, last + 1>>] = <<s, t>>
  <2>1. active.id \in FlowIds /\ last + 1 \in Nat
    BY <1>1 DEF IsFlow
  <2> QED
    BY <2>1 DEF WithEdge
<1> HIDE DEF new, edges, all
<1>8. last + 1 \notin DOMAIN active.edges
  BY <1>1 DEF IsFlow
<1>9. IsFlow(x, last + 1)
  <2>1. DOMAIN x.edges \subseteq 1 .. last + 1
    <3>1. DOMAIN active.edges \subseteq 1 .. last
      BY <1>1 DEF IsFlow
    <3> QED
      BY <1>3, <1>5, <3>1
  <2>2. \A e \in DOMAIN x.edges :
          x.edges[e] \in [source : {x.edges[e].source}, target : {x.edges[e].target},
                          settings : {x.edges[e].settings}]
    BY <1>1, <1>3, <1>4, <1>5 DEF IsFlow
  <2> QED
    BY <1>1, <1>3, <1>5, <2>1, <2>2 DEF IsFlow
<1>10. WellFormed(x)
  <2>1. \A e \in DOMAIN x.edges :
          {x.edges[e].source, x.edges[e].target} \subseteq DOMAIN x.nodes /\ x.edges[e].source # x.edges[e].target
    BY <1>1, <1>3, <1>4, <1>5, <1>6 DEF WellFormed
  <2>2. \A e, d \in DOMAIN x.edges :
          x.edges[e].source = x.edges[d].source /\ x.edges[e].target = x.edges[d].target => e = d
    <3> TAKE e, d \in DOMAIN x.edges
    <3>1. CASE e = last + 1 /\ d = last + 1
      BY <3>1
    <3>2. CASE e # last + 1 /\ d # last + 1
      BY <3>2, <1>1, <1>3, <1>5 DEF WellFormed
    <3>3. CASE e = last + 1 /\ d # last + 1
      BY <3>3, <1>3, <1>4, <1>5, <1>6
    <3>4. CASE e # last + 1 /\ d = last + 1
      BY <3>4, <1>3, <1>4, <1>5, <1>6
    <3> QED
      BY <3>1, <3>2, <3>3, <3>4
  <2> QED
    BY <2>1, <2>2 DEF WellFormed
<1>11. \A e \in DOMAIN x.edges : all[<<x.id, e>>] = EndsOf(x.edges[e])
  BY <1>2, <1>3, <1>4, <1>5, <1>7 DEF Fits, EndsOf
<1>12. Fits(x, all, last + 1)
  BY <1>9, <1>10, <1>11 DEF Fits
<1> QED
  BY <1>12 DEF all

-----------------------------------------------------------------------------
(* The invariant.                                                          *)

\* An edge is drawn from a node of the open flow, while nothing else can be clicked.
DrawnFromNode ==
  connecting # None => toDelete = None /\ active # None /\ connecting \in DOMAIN active.nodes

DeletesFlow == toDelete # None => toDelete \in FlowIds

FlowsInv ==
  /\ CountersInv
  /\ lastEdge \in Nat /\ \E ends : FlowsFit(ends, lastEdge)
  /\ LastIsFlow /\ DeletesFlow /\ DrawnFromNode

LEMMA EndEdgeFits ==
  ASSUME NEW ends, FlowsFit(ends, lastEdge), LastIsFlow, lastEdge \in Nat, DrawnFromNode, EndEdge
  PROVE  lastEdge' \in Nat /\ LastIsFlow' /\ \E all : FlowsFit(all, lastEdge)'
<1>1. before' = None /\ UNCHANGED <<stored, inbox, flows>>
  BY ClickedLeaves DEF EndEdge
<1>2. connecting # None /\ active # None /\ connecting \in DOMAIN active.nodes
  BY DEF EndEdge, DrawnFromNode
<1>3. PICK t \in Nodes \cup {None} :
        IF Drawable(connecting, t)
        THEN /\ lastEdge' = lastEdge + 1
             /\ SetActive([active EXCEPT !.edges = [e \in DOMAIN @ \cup {lastEdge'} |->
                  IF e = lastEdge' THEN [source |-> connecting, target |-> t, settings |-> 0] ELSE @[e]]])
             /\ OnlyActiveChanges
        ELSE UNCHANGED lastEdge /\ NothingEdited
  BY DEF EndEdge
<1>4. CASE ~Drawable(connecting, t)
  <2>1. UNCHANGED <<active, requests, drafts, lastOpened>> /\ lastEdge' = lastEdge
    BY <1>3, <1>4 DEF NothingEdited, storageVars
  <2>2. FlowsFit(ends, lastEdge)'
    BY <1>1, <2>1 DEF FlowsFit, QueueFits, RequestsFit
  <2> QED
    BY <2>1, <2>2 DEF LastIsFlow
<1>5. CASE Drawable(connecting, t)
  <2> DEFINE all == WithEdge(ends, active, lastEdge + 1, connecting, t)
  <2>1. lastEdge' = lastEdge + 1 /\ UNCHANGED <<requests, drafts, lastOpened>>
    BY <1>3, <1>5 DEF OnlyActiveChanges
  <2>2. active' = [active EXCEPT !.edges = [e \in DOMAIN active.edges \cup {lastEdge + 1} |->
          IF e = lastEdge + 1 THEN [source |-> connecting, target |-> t, settings |-> 0] ELSE active.edges[e]]]
    BY <1>3, <1>5, <2>1 DEF SetActive
  <2>3. t \in DOMAIN active.nodes
    BY <1>2, <1>3, <1>5 DEF Drawable, Nodes
  <2>4. Fits(active, ends, lastEdge) /\ active.id \in FlowIds
    BY <1>2 DEF FlowsFit, Fits, IsFlow
  <2>5. Fits(active', all, lastEdge + 1)
    BY <1>2, <1>5, <2>2, <2>3, <2>4, NewEdgeFits
  <2>6. /\ ListFits(stored, all, lastEdge + 1) /\ ListFits(flows, all, lastEdge + 1)
        /\ ListFits(drafts, all, lastEdge + 1)
    BY <2>4, ListsStillFit DEF FlowsFit
  <2>7. IsSequence(inbox) /\ \A l \in ElementsOf(inbox) : ListFits(l, all, lastEdge + 1)
    BY <2>4, ListsStillFit DEF FlowsFit, QueueFits
  <2>8. IsSequence(requests) /\ \A r \in ElementsOf(requests) : Fits(r.flow, all, lastEdge + 1)
    BY <2>4, OthersStillFit DEF FlowsFit, RequestsFit
  <2>9. \A h \in StaticFlows : Fits(OriginalFlow[h], all, lastEdge + 1)
    BY <2>4, OthersStillFit DEF FlowsFit
  <2> HIDE DEF all
  <2>10. ASSUME NEW known, known = all PROVE FlowsFit(known, lastEdge)'
    BY <1>1, <2>1, <2>5, <2>6, <2>7, <2>8, <2>9, <2>10 DEF FlowsFit, QueueFits, RequestsFit
  <2> QED
    BY <2>1, <2>10 DEF LastIsFlow
<1> QED
  BY <1>4, <1>5

LEMMA StepFits ==
  ASSUME FlowsInv, [CanvasNext]_canvasVars
  PROVE  lastEdge' \in Nat /\ LastIsFlow' /\ \E ends : FlowsFit(ends, lastEdge)'
<1>1. PICK ends : FlowsFit(ends, lastEdge)
  BY DEF FlowsInv
<1>2. lastEdge \in Nat /\ LastIsFlow /\ DrawnFromNode /\ DeletesFlow
  BY DEF FlowsInv
<1>3. CASE EndEdge
  BY <1>1, <1>2, <1>3, EndEdgeFits
<1>4. CASE ~EndEdge
  <2>1. lastEdge' = lastEdge
    <3>1. CASE UNCHANGED canvasVars
      BY <3>1 DEF canvasVars
    <3>2. CASE CanvasNext
      BY <1>4, <3>2 DEF CanvasNext, EditorMoves, PanelFlushStarts, PanelEffect, Look, Edit, StartEdge,
                       Library, AskDelete, AnswerDelete, NoModal
    <3> QED
      BY <3>1, <3>2
  <2>2. ASSUME NEW last, last = lastEdge PROVE FlowsFit(ends, last)' /\ LastIsFlow'
    <3>1. FlowsFit(ends, last)
      BY <1>1, <2>2
    <3>2. CASE UNCHANGED editorVars
      <4>1. UNCHANGED flowsState /\ lastOpened' = lastOpened
        BY <3>2 DEF editorVars, flowsState, serverVars, pageVars, storageVars
      <4> QED
        BY <1>2, <3>1, <4>1, FlowsSame DEF LastIsFlow
    <3>3. CASE EditorStep
      BY <1>2, <3>1, <3>3, EditorFits
    <3>4. CASE Look \/ StartEdge \/ AskDelete
      <4>1. Clicked /\ NothingEdited
        BY <3>4 DEF Look, StartEdge, AskDelete, Click
      <4> QED
        BY <1>2, <3>1, <4>1, LookFits
    <3>5. CASE Edit
      BY <1>2, <3>1, <3>5, EditFits
    <3>6. CASE Library
      BY <1>2, <3>1, <3>6, LibraryFits
    <3>7. CASE AnswerDelete
      <4>1. toDelete \in FlowIds
        BY <1>2, <3>7 DEF AnswerDelete, DeletesFlow
      <4> QED
        BY <1>2, <3>1, <3>7, <4>1, AnswerDeleteFits
    <3>8. CASE UNCHANGED canvasVars \/ PanelFlushStarts \/ PanelEffect
      BY <3>2, <3>8 DEF canvasVars, PanelFlushStarts, PanelEffect
    <3> QED
      BY <1>4, <3>3, <3>4, <3>5, <3>6, <3>7, <3>8 DEF CanvasNext, EditorMoves
  <2>3. \E known : FlowsFit(known, lastEdge)'
    BY <2>1, <2>2 DEF FlowsFit, QueueFits, RequestsFit
  <2> QED
    BY <1>2, <2>1, <2>2, <2>3
<1> QED
  BY <1>3, <1>4

\* While an edge is drawn, what replaces the open flow has its nodes.
LEMMA DrawnStays ==
  ASSUME FlowsInv, [CanvasNext]_canvasVars
  PROVE  DrawnFromNode' /\ DeletesFlow'
<1>1. PICK ends : FlowsFit(ends, lastEdge)
  BY DEF FlowsInv
<1>2. DrawnFromNode /\ DeletesFlow /\ CountersInv
  BY DEF FlowsInv
<1>3. CASE UNCHANGED <<active, connecting, toDelete>>
  BY <1>2, <1>3 DEF DrawnFromNode, DeletesFlow
<1>4. CASE connecting' = None
  <2>1. toDelete' = toDelete \/ toDelete' = None \/ toDelete' \in FlowIds
    <3>1. CASE UNCHANGED canvasVars
      BY <3>1 DEF canvasVars
    <3>2. CASE CanvasNext
      BY <3>2 DEF CanvasNext, EditorMoves, PanelFlushStarts, PanelEffect, Look, Edit, StartEdge, EndEdge,
                  Library, AskDelete, AnswerDelete, NoModal
    <3> QED
      BY <3>1, <3>2
  <2> QED
    BY <1>2, <1>4, <2>1 DEF DrawnFromNode, DeletesFlow
<1>5. CASE EditorMoves
  <2>1. CASE reloads' # reloads
    BY <1>4, <1>5, <2>1 DEF EditorMoves
  <2>2. CASE reloads' = reloads
    <3>1. UNCHANGED <<connecting, toDelete>> /\ EditorStep
      BY <1>5, <2>2 DEF EditorMoves
    <3>2. ~Reload
      <4>1. Reload => reloads' = reloads + 1
        BY DEF Reload
      <4> QED
        BY <1>2, <2>2, <4>1 DEF CountersInv
    <3>3. CASE ~OpenEffect
      <4>1. active' = active
        BY <3>1, <3>2, <3>3 DEF EditorStep, StoreEffect, FlushStarts, ServerHandles, OtherClient, FlowsLoaded,
                                ResetEnds
      <4> QED
        BY <1>3, <3>1, <4>1
    <3>4. CASE OpenEffect
      <4>1. CASE active = None
        BY <1>2, <3>1, <4>1 DEF DrawnFromNode, DeletesFlow
      <4>2. CASE active # None
        <5>1. ToOpen = Follow(active)
          BY <4>2 DEF ToOpen, DraftOpens
        <5>2. active' = active \/ active' = Follow(active)
          BY <3>4, <5>1 DEF OpenEffect
        <5>3. Follow(active) # None /\ Follow(active).nodes = active.nodes
          BY <1>1, <4>2, FollowIsSame DEF SameFlow
        <5> QED
          BY <1>2, <3>1, <4>2, <5>2, <5>3 DEF DrawnFromNode, DeletesFlow
      <4> QED
        BY <4>1, <4>2
    <3> QED
      BY <3>3, <3>4
  <2> QED
    BY <2>1, <2>2
<1>6. CASE UNCHANGED canvasVars \/ PanelFlushStarts \/ PanelEffect
  BY <1>3, <1>6 DEF canvasVars, PanelFlushStarts, PanelEffect, editorVars
<1>7. CASE Look \/ Edit \/ Library
  <2>1. connecting' = None
    BY <1>7 DEF Look, Edit, Library, Click, NoModal
  <2> QED
    BY <1>4, <2>1
<1>8. CASE EndEdge
  BY <1>4, <1>8 DEF EndEdge
<1>9. CASE AskDelete
  BY <1>4, <1>9 DEF AskDelete, Click
<1>10. CASE StartEdge
  <2>1. \E n \in Nodes : connecting' = n
    BY <1>10 DEF StartEdge
  <2>2. toDelete = None /\ toDelete' = toDelete /\ active' = active
    BY <1>10 DEF StartEdge, Click, NothingEdited
  <2> QED
    BY <2>1, <2>2 DEF DrawnFromNode, DeletesFlow, Nodes
<1>11. CASE AnswerDelete
  <2>1. toDelete # None /\ toDelete' = None /\ connecting' = connecting
    BY <1>11 DEF AnswerDelete
  <2>2. connecting' = None
    BY <1>2, <2>1 DEF DrawnFromNode
  <2> QED
    BY <1>4, <2>2
<1> QED
  BY <1>5, <1>6, <1>7, <1>8, <1>9, <1>10, <1>11 DEF CanvasNext

LEMMA FlowsStepKeeps == FlowsInv /\ [CanvasNext]_canvasVars => FlowsInv'
  BY StepFits, DrawnStays, CountersKeep DEF FlowsInv

LEMMA FlowsStart == CanvasInit => FlowsInv
<1> SUFFICES ASSUME CanvasInit PROVE FlowsInv
  OBVIOUS
<1>1. /\ active = None /\ before = None /\ lastOpened = None /\ connecting = None /\ toDelete = None
      /\ flows = [h \in FlowIds |-> None] /\ drafts = flows /\ stored = [h \in FlowIds |-> Unsaved(h)]
      /\ requests = <<>> /\ inbox = <<stored>> /\ lastEdge = OldEdges
      /\ clicks = 0 /\ reloads = 0
  BY DEF CanvasInit, EditorInit
<1> DEFINE ends == [p \in FlowIds \X Nat |-> EndsOf(OriginalFlow[p[1]].edges[p[2]])]
<1>2. \A h \in StaticFlows : Fits(OriginalFlow[h], ends, OldEdges)
  <2> TAKE h \in StaticFlows
  <2>1. IsFlow(OriginalFlow[h], OldEdges) /\ OriginalFlow[h].id = h /\ WellFormed(OriginalFlow[h])
    BY CanvasAssumption
  <2>2. h \in FlowIds /\ \A e \in DOMAIN OriginalFlow[h].edges : e \in Nat
    BY <2>1 DEF IsFlow
  <2>3. \A e \in DOMAIN OriginalFlow[h].edges : ends[<<h, e>>] = EndsOf(OriginalFlow[h].edges[e])
    BY <2>2
  <2> HIDE DEF ends
  <2> QED
    BY <2>1, <2>3 DEF Fits
<1> HIDE DEF ends
<1>3. ListFits(flows, ends, OldEdges)
  BY <1>1, NothingListed
<1>4. ListFits(stored, ends, OldEdges)
  BY <1>1, <1>2, CanvasAssumption DEF ListFits, Unsaved
<1>5. QueueFits(ends, OldEdges) /\ RequestsFit(ends, OldEdges)
  BY <1>1, <1>4, OneElement, NoElement DEF QueueFits, RequestsFit
<1>6. FlowsFit(ends, OldEdges)
  BY <1>1, <1>2, <1>3, <1>4, <1>5 DEF FlowsFit
<1> QED
  BY <1>1, <1>6, CanvasAssumption DEF FlowsInv, CountersInv, LastIsFlow, DeletesFlow, DrawnFromNode

\* Whatever is drawn, deleted, saved, discarded or replaced by the server, no flow has an
\* edge to itself, two edges with the same ends, or an edge to a node it does not have: the
\* node an edge is drawn from stays, as the server's version takes the place of the open flow
\* only if they have the same nodes.
THEOREM FlowsStayWellFormed == CanvasSpec => []FlowsWellFormed
<1>1. FlowsInv => FlowsWellFormed
  BY DEF FlowsInv, FlowsFit, ListFits, Fits, FlowsWellFormed
<1> QED
  BY <1>1, FlowsStart, FlowsStepKeeps, PTL DEF CanvasSpec

-----------------------------------------------------------------------------
(* Unsaved changes and a reload.                                           *)

\* Once the second effect has seen unsaved changes they are the draft of the flow that opens
\* next, unless the user has saved or discarded them.
DraftKept ==
  ~storeDue /\ active # None /\ seen /\ active # released
    => lastOpened = active.id /\ drafts[active.id] = active

\* After a reload the flow is open again, or its draft opens with the server's flows.
BeforeKept ==
  before # None =>
    /\ lastOpened = before.id /\ ~resetting
    /\ active = None => drafts[before.id] = before /\ (loaded => openDue)
    /\ active # None => SameFlow(active, before)

RestoreInv == FlowsInv /\ DraftKept /\ BeforeKept

draftState == <<active, storeDue, seen, released, lastOpened, drafts>>

LEMMA DraftSame ==
  ASSUME DraftKept, UNCHANGED draftState
  PROVE  DraftKept'
<1>1. /\ active' = active /\ storeDue' = storeDue /\ seen' = seen /\ released' = released
      /\ lastOpened' = lastOpened /\ drafts' = drafts
  BY DEF draftState
<1> QED
  BY <1>1 DEF DraftKept

LEMMA DraftsAreListed ==
  ASSUME FlowsInv
  PROVE  /\ drafts = [h \in FlowIds |-> drafts[h]]
         /\ active # None => active.id \in FlowIds
         /\ before # None => before.id \in FlowIds
<1>1. PICK ends : FlowsFit(ends, lastEdge)
  BY DEF FlowsInv
<1>2. drafts = [h \in FlowIds |-> drafts[h]]
  BY <1>1 DEF FlowsFit, ListFits
<1>3. (active # None => active.id \in FlowIds) /\ (before # None => before.id \in FlowIds)
  BY <1>1 DEF FlowsFit, Fits, IsFlow
<1> QED
  BY <1>2, <1>3

LEMMA StoreEffectKeepsDraft ==
  ASSUME RestoreInv, StoreEffect
  PROVE  DraftKept'
<1>1. CASE ~StoreRuns
  <2>1. storeDue' = FALSE /\ ~storeDue /\ UNCHANGED <<active, seen, released, lastOpened, drafts>>
    BY <1>1 DEF StoreEffect, StoreRuns, storageVars
  <2> QED
    BY <2>1 DEF RestoreInv, DraftKept
<1>2. CASE StoreRuns /\ active # None
  <2>1. /\ active' = active /\ seen' = hasUnsavedChanges /\ lastOpened' = active.id
        /\ drafts' = [drafts EXCEPT ![active.id] = IF hasUnsavedChanges THEN active ELSE None]
    BY <1>2 DEF StoreEffect
  <2>2. hasUnsavedChanges => drafts'[active.id] = active
    <3>1. drafts = [h \in FlowIds |-> drafts[h]] /\ active.id \in FlowIds
      BY <1>2, DraftsAreListed DEF RestoreInv
    <3> HIDE DEF hasUnsavedChanges
    <3> QED
      BY <2>1, <3>1
  <2>3. seen' => hasUnsavedChanges
    BY <2>1
  <2> QED
    BY <2>1, <2>2, <2>3 DEF DraftKept
<1>3. CASE active = None
  <2>1. active' = None
    BY <1>3 DEF StoreEffect
  <2> QED
    BY <2>1 DEF DraftKept
<1> QED
  BY <1>1, <1>2, <1>3

LEMMA EditorKeepsDraft ==
  ASSUME RestoreInv, EditorStep
  PROVE  DraftKept'
<1>1. CASE OpenEffect
  <2>1. UNCHANGED <<seen, released, lastOpened, drafts>>
    BY <1>1 DEF OpenEffect, storageVars
  <2>2. CASE active' = active /\ storeDue' = storeDue
    BY <2>1, <2>2, DraftSame DEF draftState, RestoreInv
  <2>3. CASE ~(active' = active /\ storeDue' = storeDue)
    <3>1. storeDue' = (storeDue \/ openDue') /\ openDue' = (DraftOpens \/ active' # active)
      BY <1>1, <2>3 DEF OpenEffect
    <3>2. CASE openDue'
      BY <3>1, <3>2 DEF DraftKept
    <3>3. CASE ~openDue'
      <4>1. active' = active /\ (storeDue' <=> storeDue)
        BY <3>1, <3>3
      <4> QED
        BY <2>1, <4>1 DEF DraftKept, RestoreInv
    <3> QED
      BY <3>2, <3>3
  <2> QED
    BY <2>2, <2>3
<1>2. CASE StoreEffect
  BY <1>2, StoreEffectKeepsDraft
<1>3. CASE Reload
  <2>1. active' = None
    BY <1>3 DEF Reload
  <2> QED
    BY <2>1 DEF DraftKept
<1>4. CASE FlushStarts \/ ServerHandles \/ OtherClient \/ FlowsLoaded \/ ResetEnds
  <2>1. UNCHANGED draftState
    BY <1>4 DEF FlushStarts, ServerHandles, OtherClient, FlowsLoaded, ResetEnds, draftState, storageVars,
                effectVars
  <2> QED
    BY <2>1, DraftSame DEF RestoreInv
<1> QED
  BY <1>1, <1>2, <1>3, <1>4 DEF EditorStep

LEMMA ClickKeepsDraft ==
  ASSUME RestoreInv, Look \/ Edit \/ StartEdge \/ EndEdge \/ Library \/ AskDelete \/ AnswerDelete
  PROVE  DraftKept'
<1>1. seen' = seen
  BY DEF Look, Edit, StartEdge, EndEdge, Library, AskDelete, AnswerDelete, Click, Clicked
<1>2. CASE NothingEdited
  <2>1. UNCHANGED <<active, storeDue, released, lastOpened, drafts>>
    BY <1>2 DEF NothingEdited, storageVars
  <2> QED
    BY <1>1, <2>1, DraftSame DEF draftState, RestoreInv
<1>3. CASE storeDue' = TRUE
  BY <1>3 DEF DraftKept
<1>4. CASE active' = active /\ released' = active
  BY <1>4 DEF DraftKept
<1>5. CASE AnswerDelete /\ DeleteFlow(toDelete)
  <2>1. CASE active # None /\ active.id = toDelete
    BY <1>3, <1>5, <2>1 DEF DeleteFlow, SetActive
  <2>2. CASE ~(active # None /\ active.id = toDelete)
    <3>1. /\ drafts' = [drafts EXCEPT ![toDelete] = None]
          /\ UNCHANGED <<active, storeDue, lastOpened, released>>
      BY <1>5, <2>2 DEF DeleteFlow
    <3>2. active # None => drafts'[active.id] = drafts[active.id]
      <4> SUFFICES ASSUME active # None PROVE drafts'[active.id] = drafts[active.id]
        OBVIOUS
      <4>1. drafts = [h \in FlowIds |-> drafts[h]] /\ active.id \in FlowIds /\ active.id # toDelete
        BY <2>2, DraftsAreListed DEF RestoreInv
      <4> QED
        BY <3>1, <4>1
    <3> QED
      BY <1>1, <3>1, <3>2 DEF DraftKept, RestoreInv
  <2> QED
    BY <2>1, <2>2
<1>6. CASE Edit
  <2>1. storeDue' = TRUE
    BY <1>6 DEF Edit, DeleteNode, DeleteEdge, UpdateNode, UpdateEdge, AddNode, ClearCanvas, BindNode,
                MagicLayout, UpdateActive, SetActive
  <2> QED
    BY <1>3, <2>1
<1>7. CASE EndEdge
  <2>1. storeDue' = TRUE \/ NothingEdited
    BY <1>7 DEF EndEdge, SetActive
  <2> QED
    BY <1>2, <1>3, <2>1
<1>8. CASE Library
  <2>1. storeDue' = TRUE \/ (active' = active /\ released' = active)
    BY <1>8 DEF Library, SelectFlow, CreateFlow, SaveActiveFlow, DiscardDraft, SetActive
  <2> QED
    BY <1>3, <1>4, <2>1
<1>9. CASE Look \/ StartEdge \/ AskDelete
  BY <1>2, <1>9 DEF Look, StartEdge, AskDelete
<1> QED
  BY <1>2, <1>5, <1>6, <1>7, <1>8, <1>9 DEF AnswerDelete

LEMMA EditorKeepsBefore ==
  ASSUME RestoreInv, EditorStep
  PROVE  BeforeKept'
<1>1. CASE Reload
  <2>1. CASE Settled /\ hasUnsavedChanges /\ active # released
    <3>1. active # None /\ ~storeDue /\ seen
      BY <2>1 DEF Settled, Quiet, StoreRuns, hasUnsavedChanges, HasUnsaved
    <3>2. lastOpened = active.id /\ drafts[active.id] = active
      BY <2>1, <3>1 DEF RestoreInv, DraftKept
    <3>3. before' = active /\ active' = None /\ resetting' = FALSE /\ openDue' = TRUE
          /\ lastOpened' = lastOpened /\ drafts' = drafts
      BY <1>1, <2>1 DEF Reload, storageVars
    <3> QED
      BY <3>2, <3>3 DEF BeforeKept
  <2>2. CASE ~(Settled /\ hasUnsavedChanges /\ active # released)
    BY <1>1, <2>2 DEF Reload, BeforeKept
  <2> QED
    BY <2>1, <2>2
<1>2. CASE before = None /\ ~Reload
  <2>1. before' = None
    BY <1>2 DEF EditorStep, OpenEffect, StoreEffect, FlushStarts, ServerHandles, OtherClient, FlowsLoaded,
                ResetEnds
  <2> QED
    BY <2>1 DEF BeforeKept
<1>3. CASE before # None /\ OpenEffect
  <2>1. UNCHANGED <<before, lastOpened, drafts, resetting, loaded>>
    BY <1>3 DEF OpenEffect, pageVars, storageVars
  <2>2. /\ lastOpened = before.id /\ ~resetting
        /\ active = None => drafts[before.id] = before /\ (loaded => openDue)
        /\ active # None => SameFlow(active, before)
    BY <1>3 DEF RestoreInv, BeforeKept
  <2>3. CASE ~openDue /\ UNCHANGED <<active, openDue>>
    BY <2>1, <2>2, <2>3 DEF BeforeKept
  <2>4. CASE ~loaded /\ active' = active
    BY <2>1, <2>2, <2>4 DEF BeforeKept
  <2>5. CASE loaded /\ active' = ToOpen
    <3>1. CASE active = None
      <4>1. lastOpened # None
        BY <1>3, <2>2, DraftsAreListed, CanvasAssumption DEF RestoreInv
      <4>2. ToOpen = before
        BY <1>3, <2>2, <3>1, <4>1 DEF ToOpen, DraftOpens
      <4> QED
        BY <1>3, <2>1, <2>2, <2>5, <4>2 DEF BeforeKept, SameFlow
    <3>2. CASE active # None
      <4>1. PICK ends : FlowsFit(ends, lastEdge)
        BY DEF RestoreInv, FlowsInv
      <4>2. Follow(active) # None /\ SameFlow(Follow(active), active)
        BY <3>2, <4>1, FollowIsSame
      <4>3. ToOpen = Follow(active)
        BY <3>2 DEF ToOpen, DraftOpens
      <4> QED
        BY <2>1, <2>2, <2>5, <3>2, <4>2, <4>3 DEF BeforeKept, SameFlow
    <3> QED
      BY <3>1, <3>2
  <2> QED
    BY <1>3, <2>2, <2>3, <2>4, <2>5 DEF OpenEffect
<1>4. CASE before # None /\ StoreEffect
  <2>1. UNCHANGED <<before, active, resetting, loaded, openDue>>
    BY <1>4 DEF StoreEffect, pageVars
  <2>2. CASE UNCHANGED storageVars
    BY <2>1, <2>2 DEF storageVars, RestoreInv, BeforeKept
  <2>3. CASE ~UNCHANGED storageVars
    <3>1. active # None /\ lastOpened' = active.id
      BY <1>4, <2>3 DEF StoreEffect
    <3>2. SameFlow(active, before) /\ ~resetting
      BY <1>4, <3>1 DEF RestoreInv, BeforeKept
    <3> QED
      BY <2>1, <3>1, <3>2 DEF BeforeKept, SameFlow
  <2> QED
    BY <2>2, <2>3
<1>5. CASE before # None /\ (FlushStarts \/ ServerHandles \/ OtherClient \/ FlowsLoaded \/ ResetEnds)
  <2>1. UNCHANGED <<before, active, lastOpened, drafts>>
    BY <1>5 DEF FlushStarts, ServerHandles, OtherClient, FlowsLoaded, ResetEnds, storageVars
  <2>2. resetting' = resetting \/ resetting' = FALSE
    BY <1>5 DEF FlushStarts, ServerHandles, OtherClient, FlowsLoaded, ResetEnds, pageVars
  <2>3. UNCHANGED <<loaded, openDue>> \/ openDue' = TRUE
    BY <1>5 DEF FlushStarts, ServerHandles, OtherClient, FlowsLoaded, ResetEnds, pageVars, effectVars
  <2> QED
    BY <2>1, <2>2, <2>3 DEF RestoreInv, BeforeKept
<1> QED
  BY <1>1, <1>2, <1>3, <1>4, <1>5 DEF EditorStep

LEMMA RestoreStepKeeps == RestoreInv /\ [CanvasNext]_canvasVars => RestoreInv'
<1> SUFFICES ASSUME RestoreInv, [CanvasNext]_canvasVars PROVE RestoreInv'
  OBVIOUS
<1>1. FlowsInv'
  BY FlowsStepKeeps DEF RestoreInv
<1>2. CASE UNCHANGED editorVars
  <2>1. UNCHANGED <<active, storeDue, seen, released, lastOpened, drafts, before, resetting, loaded, openDue>>
    BY <1>2 DEF editorVars, pageVars, storageVars, effectVars
  <2>2. DraftKept'
    BY <2>1, DraftSame DEF draftState, RestoreInv
  <2>3. BeforeKept'
    BY <2>1 DEF RestoreInv, BeforeKept
  <2> QED
    BY <1>1, <2>2, <2>3 DEF RestoreInv
<1>3. CASE EditorStep
  BY <1>1, <1>3, EditorKeepsDraft, EditorKeepsBefore DEF RestoreInv
<1>4. CASE Look \/ Edit \/ StartEdge \/ EndEdge \/ Library \/ AskDelete \/ AnswerDelete
  <2>1. Clicked
    BY <1>4 DEF Look, Edit, StartEdge, EndEdge, Library, AskDelete, AnswerDelete, Click
  <2>2. BeforeKept'
    BY <2>1 DEF Clicked, BeforeKept
  <2> QED
    BY <1>1, <1>4, <2>2, ClickKeepsDraft DEF RestoreInv
<1>5. CASE UNCHANGED canvasVars \/ PanelFlushStarts \/ PanelEffect
  BY <1>2, <1>5 DEF canvasVars, PanelFlushStarts, PanelEffect
<1> QED
  BY <1>3, <1>4, <1>5 DEF CanvasNext, EditorMoves

\* Unsaved changes survive a reload, whatever the server sends, loses or holds back and
\* whenever the effects run: they were stored when the page was at rest, the new page opens
\* the draft and nothing else, and it follows the server only if there is nothing to lose.
\* A flow equal to the one last saved or discarded has no draft and is left out.
THEOREM UnsavedChangesSurvive == CanvasSpec => []ReloadRestores
<1>1. CanvasInit => RestoreInv
  BY FlowsStart DEF CanvasInit, EditorInit, RestoreInv, DraftKept, BeforeKept
<1>2. RestoreInv => ReloadRestores
  BY DEF RestoreInv, BeforeKept, ReloadRestores, AtRest, Settled, Quiet, SameFlow
<1> QED
  BY <1>1, <1>2, RestoreStepKeeps, PTL DEF CanvasSpec
=============================================================================
