----------------------------- MODULE NodeDisplay -----------------------------
(***************************************************************************)
(* The status of the nodes of a flow in a browser: handleFlowNodeStatus    *)
(* and the resets of SocketService                                         *)
(* (apps/frontend/src/app/services/socket.service.ts).  A node is shown as *)
(* executing for MIN_NODE_ACTIVE_MS at least: a status that comes earlier  *)
(* waits for a timer.                                                      *)
(***************************************************************************)
EXTENDS Naturals

CONSTANTS
  Nodes,
  SavedNodes,  \* the nodes of the flow as the backend saved it; the canvas may show a draft
  MaxStatuses  \* bound: events

VARIABLES
  nodeStatuses,      \* nodeStatuses[n], "" without an entry
  nodeStatusTimers,  \* nodeStatusTimers[n]: the status that waits, "" without a timer
  nodeActiveSince,   \* "" without an entry, "recent" for MIN_NODE_ACTIVE_MS, then "long"
  last,              \* last[n]: the last status the engine reported since n was cleared
  statuses

displayVars == <<nodeStatuses, nodeStatusTimers, nodeActiveSince, last, statuses>>

Statuses == {"executing", "idle", "completed", "error"}

DisplayInit ==
  /\ nodeStatuses = [n \in Nodes |-> ""] /\ nodeStatusTimers = [n \in Nodes |-> ""]
  /\ nodeActiveSince = [n \in Nodes |-> ""] /\ last = [n \in Nodes |-> ""]
  /\ statuses = 0

Reports(n, status) ==
  /\ statuses < MaxStatuses /\ statuses' = statuses + 1
  /\ last' = [last EXCEPT ![n] = status]

NodeExecutes_Mutant(n) ==
  /\ Reports(n, "executing")
  /\ nodeStatuses' = [nodeStatuses EXCEPT ![n] = "executing"]
  /\ nodeActiveSince' = [nodeActiveSince EXCEPT ![n] = "recent"]
  /\ UNCHANGED nodeStatusTimers

\* A node executes: a status that waits is dropped.
NodeExecutes(n) ==
  /\ Reports(n, "executing")
  /\ nodeStatuses' = [nodeStatuses EXCEPT ![n] = "executing"]
  /\ nodeStatusTimers' = [nodeStatusTimers EXCEPT ![n] = ""]
  /\ nodeActiveSince' = [nodeActiveSince EXCEPT ![n] = "recent"]

\* Any other status: shown at once, or after what remains of the minimum.
NodeRests(n, status) ==
  /\ Reports(n, status)
  /\ IF nodeActiveSince[n] = "recent"
       THEN /\ nodeStatusTimers' = [nodeStatusTimers EXCEPT ![n] = status]
            /\ UNCHANGED <<nodeStatuses, nodeActiveSince>>
       ELSE /\ nodeStatusTimers' = [nodeStatusTimers EXCEPT ![n] = ""]
            /\ nodeActiveSince' = [nodeActiveSince EXCEPT ![n] = ""]
            /\ nodeStatuses' = [nodeStatuses EXCEPT ![n] = status]

MinimumPasses(n) ==
  /\ nodeActiveSince[n] = "recent"
  /\ nodeActiveSince' = [nodeActiveSince EXCEPT ![n] = "long"]
  /\ UNCHANGED <<nodeStatuses, nodeStatusTimers, last, statuses>>

NodeTimerFires(n) ==
  /\ nodeStatusTimers[n] # "" /\ nodeActiveSince[n] # "recent"
  /\ nodeStatuses' = [nodeStatuses EXCEPT ![n] = nodeStatusTimers[n]]
  /\ nodeStatusTimers' = [nodeStatusTimers EXCEPT ![n] = ""]
  /\ nodeActiveSince' = [nodeActiveSince EXCEPT ![n] = ""]
  /\ UNCHANGED <<last, statuses>>

Cleared(f, ids) == [n \in Nodes |-> IF n \in ids THEN "" ELSE f[n]]

ClearNodes(ids) ==
  /\ nodeStatuses' = Cleared(nodeStatuses, ids) /\ nodeStatusTimers' = Cleared(nodeStatusTimers, ids)
  /\ nodeActiveSince' = Cleared(nodeActiveSince, ids) /\ last' = Cleared(last, ids)
  /\ UNCHANGED statuses

\* startFlow: clearFlowRuntimeState over the nodes of the saved flow.
FlowStartRequested == ClearNodes(SavedNodes)

\* The link drops: resetFlowRuntimeState.
DisplayReset == ClearNodes(Nodes)

DisplayNext ==
  \/ \E n \in Nodes :
       \/ NodeExecutes(n) \/ MinimumPasses(n) \/ NodeTimerFires(n)
       \/ \E status \in Statuses \ {"executing"} : NodeRests(n, status)
  \/ FlowStartRequested \/ DisplayReset

DisplaySpec == DisplayInit /\ [][DisplayNext]_displayVars

-----------------------------------------------------------------------------
DisplayTypeOK ==
  /\ nodeStatuses \in [Nodes -> Statuses \cup {""}]
  /\ nodeStatusTimers \in [Nodes -> Statuses \cup {""}]
  /\ nodeActiveSince \in [Nodes -> {"", "recent", "long"}]
  /\ last \in [Nodes -> Statuses \cup {""}]

\* What a node shows is the last status the engine reported, whatever timers of earlier
\* executions were set; only a node that executed moments ago still shows that, and then the
\* last status waits for its timer (handleFlowNodeStatus).
NodeShowsLast ==
  \A n \in Nodes :
    IF nodeStatusTimers[n] = "" THEN nodeStatuses[n] = last[n]
    ELSE nodeStatuses[n] = "executing" /\ nodeStatusTimers[n] = last[n] /\ nodeActiveSince[n] # ""
=============================================================================
