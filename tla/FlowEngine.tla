----------------------------- MODULE FlowEngine -----------------------------
(***************************************************************************)
(* FlowEngineService (apps/backend/src/core/flow-engine.service.ts) for    *)
(* one flow id that is started and stopped any number of times.            *)
(*                                                                         *)
(* JavaScript runs one piece of code at a time, up to its next await: an   *)
(* action below is the code between two awaits.  Each start of the flow    *)
(* creates an execution state (a RUN); activeFlows holds at most one of    *)
(* them.  A TASK is a timer callback: the pulse loop of a node, or one     *)
(* delayed edge.  A running task is a stack of executeNode calls, of which *)
(* the last one is at an await and the others wait for the one above.      *)
(*                                                                         *)
(* Abstractions: message contents are left out, so filters, edge           *)
(* conditions and delay expressions choose among the outcomes they can     *)
(* have; generation and publishing succeed or fail; time passes in ticks.  *)
(***************************************************************************)
EXTENDS Integers, Sequences, SequencesExt, FiniteSets

CONSTANTS
  Nodes,        \* the nodes of the flow
  Edges,        \* its edges in order: [source, target, fires, delays]; fires and
                \* delays are the outcomes shouldTriggerEdge and
                \* resolveEdgeDelay > 0 can have on this edge
  Count,        \* settings.count of each node, Infinity when absent
  Duration,     \* settings.duration of each node, Infinity when absent
  Filter,       \* the outcomes shouldProcessNode can have on each node
  Infinity,
  MaxRuns,      \* bound: how often the flow is started
  MaxPending,   \* bound: pending timers of one delayed edge in one run
  MaxDepth,     \* bound: nested executeNode calls of one task
  MaxTime       \* bound: ticks counted from the start of a run

ASSUME FlowAssumption ==
  /\ Infinity \notin Nat
  /\ Count \in [Nodes -> Nat \cup {Infinity}]
  /\ Duration \in [Nodes -> Nat \cup {Infinity}]
  /\ Filter \in [Nodes -> SUBSET BOOLEAN]
  /\ Edges \in Seq([source : Nodes, target : Nodes,
                    fires : SUBSET BOOLEAN, delays : SUBSET BOOLEAN])

ASSUME BoundAssumption ==
  /\ MaxRuns \in Nat \ {0}
  /\ MaxPending \in Nat
  /\ MaxDepth \in Nat
  /\ MaxTime \in Nat

Runs == 1 .. MaxRuns

Pulse(r, n) == [kind |-> "pulse", run |-> r, of |-> n]
Delayed(r, e, k) == [kind |-> "delayed", run |-> r, of |-> <<e, k>>]

Pulses(r) == {Pulse(r, n) : n \in Nodes}
DelayedTasks(r) == {Delayed(r, e, k) : e \in DOMAIN Edges, k \in 1 .. MaxPending}
TasksOf(r) == Pulses(r) \cup DelayedTasks(r)
Tasks == UNION {TasksOf(r) : r \in Runs}

\* The node a timer callback executes.
RootNode(t) == IF t.kind = "pulse" THEN t.of ELSE Edges[t.of[1]].target

Statuses == {"idle", "executing", "completed", "error"}
FinalStatuses == {"completed", "error"}

VARIABLES
  activeRun,   \* the run activeFlows holds under the flow's id, 0 when it holds none
  run,         \* run[r]: the FlowExecutionState of run r
  ending,      \* ending[r]: "new", "running", or how run r left activeFlows
  elapsed,     \* elapsed[r]: ticks since run r was created (the nodes' startTime)
  phase,       \* phase[t]: a timer is "armed", its callback is "running", or "off"
  stack        \* stack[t]: the executeNode calls the running task t is in

vars == <<activeRun, run, ending, elapsed, phase, stack>>

NodeStates == [sentCount : Nat, pulseTimer : BOOLEAN, pulseEnabled : BOOLEAN,
               status : Statuses, completed : BOOLEAN]

RunStates == [nodes : [Nodes -> NodeStates], activeTimers : SUBSET Tasks,
              activeExecutions : Nat]

\* pc: the await the call is at.  edge: the index of the edge triggerDownstream waits for.
Frames == [node : Nodes, pc : {"generating", "publishing", "downstream", "returning"},
           edge : Nat]

Frame(n, pc, e) == [node |-> n, pc |-> pc, edge |-> e]

TypeOK ==
  /\ activeRun \in 0 .. MaxRuns
  /\ run \in [Runs -> RunStates]
  /\ ending \in [Runs -> {"new", "running", "finalised", "stopped", "replaced"}]
  /\ elapsed \in [Runs -> Nat]
  /\ phase \in [Tasks -> {"off", "armed", "running"}]
  /\ stack \in [Tasks -> Seq(Frames)]

-----------------------------------------------------------------------------
(* The functions of the engine on an execution state.                      *)

\* findEntryNodes: the nodes no edge leads to.
EntryNodes == {n \in Nodes : \A e \in DOMAIN Edges : Edges[e].target # n}

\* resolveNodesToStart: the entry nodes, or every node of a flow without one.
NodesToStart == IF EntryNodes # {} THEN EntryNodes ELSE Nodes

\* createExecutionState with the pulses of the nodes in "pulsed" started.
CreatedRun(pulsed) ==
  [nodes |-> [n \in Nodes |-> [sentCount |-> 0, pulseTimer |-> n \in pulsed,
                              pulseEnabled |-> n \in pulsed,
                              status |-> "idle", completed |-> FALSE]],
   activeTimers |-> {}, activeExecutions |-> 0]

\* (The definitions named ..._Mutant are the faults the properties are tried on.)
AtLimit_Mutant(r, n, rs) ==   \* one message too many
  Count[n] # Infinity /\ rs.nodes[n].sentCount > Count[n]

\* hasNodeReachedLimit.  A duration of 0 is reached at once.
AtLimit(r, n, rs) ==
  \/ Count[n] # Infinity /\ rs.nodes[n].sentCount >= Count[n]
  \/ Duration[n] # Infinity /\ elapsed[r] >= Duration[n]

\* updateNodeStatus.  On "completed" and "error" the handle of the pulse timer is
\* dropped; the timer itself is not cleared.
WithStatus(ns, s) ==
  IF s \in FinalStatuses
  THEN [ns EXCEPT !.status = s, !.completed = TRUE,
                  !.pulseTimer = FALSE, !.pulseEnabled = FALSE]
  ELSE [ns EXCEPT !.status = s]

SetStatus(rs, n, s) == [rs EXCEPT !.nodes[n] = WithStatus(@, s)]

\* sentCount++ (kept only where a count limit reads it).
CountSent(rs, n) ==
  IF Count[n] = Infinity THEN rs ELSE [rs EXCEPT !.nodes[n].sentCount = @ + 1]

EnterExecution_Mutant(rs) == rs   \* the counter is not incremented
LeaveExecution_Mutant(rs) == rs   \* no finally block

\* state.activeExecutions++, and Math.max(0, state.activeExecutions - 1) in the finally block.
EnterExecution(rs) == [rs EXCEPT !.activeExecutions = @ + 1]
LeaveExecution(rs) ==
  [rs EXCEPT !.activeExecutions = IF @ > 0 THEN @ - 1 ELSE 0]

Quiet_MutantTimers(rs) ==   \* delayed edges are not waited for
  /\ rs.activeExecutions = 0
  /\ \A n \in Nodes : ~rs.nodes[n].pulseEnabled /\ ~rs.nodes[n].pulseTimer

\* The guards of maybeFinalizeFlow.
Quiet(rs) ==
  /\ rs.activeExecutions = 0
  /\ rs.activeTimers = {}
  /\ \A n \in Nodes : ~rs.nodes[n].pulseEnabled /\ ~rs.nodes[n].pulseTimer

\* The loop of maybeFinalizeFlow over the nodes that did not end.
Completed(rs) ==
  [rs EXCEPT !.nodes = [n \in Nodes |->
     IF rs.nodes[n].status = "error" \/ rs.nodes[n].completed
     THEN rs.nodes[n] ELSE WithStatus(rs.nodes[n], "completed")]]

\* maybeFinalizeFlow, called when the execution states are "state".  It looks the
\* run up by the flow's id: the run it ends need not be the caller's.
MaybeFinalize(state) ==
  IF activeRun # 0 /\ Quiet(state[activeRun])
  THEN /\ run' = [state EXCEPT ![activeRun] = Completed(@)]
       /\ activeRun' = 0
       /\ ending' = [ending EXCEPT ![activeRun] = "finalised"]
  ELSE /\ run' = state
       /\ UNCHANGED <<activeRun, ending>>

-----------------------------------------------------------------------------
(* executeNode and triggerDownstream.                                      *)

\* executeNode(node) up to its first await, in task t, when the execution states
\* are "state" and the calls of t are "calls": the limit, a missing schema and a
\* false filter return at once, anything else waits for generateBatch.
ExecuteNode(t, n, state, calls) ==
  LET r == t.run IN
  \/ /\ AtLimit(r, n, state[r])
     /\ stack' = [stack EXCEPT ![t] = calls]
     /\ MaybeFinalize([state EXCEPT ![r] = SetStatus(@, n, "completed")])
  \/ /\ ~AtLimit(r, n, state[r])
     /\ \E s \in {"error"} \cup {"idle" : b \in Filter[n] \ {TRUE}} :
          /\ stack' = [stack EXCEPT ![t] = calls]
          /\ MaybeFinalize([state EXCEPT ![r] = SetStatus(@, n, s)])
  \/ /\ ~AtLimit(r, n, state[r])
     /\ TRUE \in Filter[n]
     /\ Len(calls) < MaxDepth
     /\ stack' = [stack EXCEPT ![t] = Append(calls, Frame(n, "generating", 0))]
     /\ run' = [state EXCEPT ![r] = EnterExecution(SetStatus(@, n, "executing"))]
     /\ UNCHANGED <<activeRun, ending>>

\* The edges triggerDownstream looks at on node n from index i on.
EdgesFrom(n, i) == {e \in DOMAIN Edges : e >= i /\ Edges[e].source = n}

\* What the loop of triggerDownstream can do from index i to its next await: the
\* edges it schedules, and the edge whose target it executes (0: it returns).
Plans(n, i) ==
  {p \in [delay : SUBSET EdgesFrom(n, i), await : EdgesFrom(n, i) \cup {0}] :
     LET passed == {e \in EdgesFrom(n, i) : p.await = 0 \/ e < p.await} IN
       /\ p.delay \subseteq passed
       /\ \A e \in p.delay : TRUE \in Edges[e].fires /\ TRUE \in Edges[e].delays
       /\ \A e \in passed \ p.delay : FALSE \in Edges[e].fires
       /\ p.await # 0 => TRUE \in Edges[p.await].fires /\ FALSE \in Edges[p.await].delays}

FreeSlots(r, e) == {k \in 1 .. MaxPending : phase[Delayed(r, e, k)] = "off"}

\* scheduleDelayedEdge on each edge of "edges": the timers it arms.
NewTimers(r, edges) ==
  {Delayed(r, e, CHOOSE k \in FreeSlots(r, e) : TRUE) : e \in edges}

\* activeTimers.add(timer).
Tracked(rs, timers) == [rs EXCEPT !.activeTimers = @ \cup timers]

\* triggerDownstream in the last call of task t, from edge i to its next await.
TriggerDownstream(t, state, i) ==
  LET r == t.run
      n == Last(stack[t]).node
      Calls(pc, e) == Append(Front(stack[t]), Frame(n, pc, e))
  IN \E p \in Plans(n, i) :
       LET timers == NewTimers(r, p.delay)
           scheduled == [state EXCEPT ![r] = Tracked(@, timers)]
       IN /\ \A e \in p.delay : FreeSlots(r, e) # {}
          /\ phase' = [q \in Tasks |-> IF q \in timers THEN "armed" ELSE phase[q]]
          /\ IF p.await = 0
             THEN /\ stack' = [stack EXCEPT ![t] = Calls("returning", 0)]
                  /\ run' = scheduled
                  /\ UNCHANGED <<activeRun, ending>>
             ELSE ExecuteNode(t, Edges[p.await].target, scheduled, Calls("downstream", p.await))

\* The finally block of executeNode in the last call of task t.
ReturnFromExecution(t, state) ==
  /\ stack' = [stack EXCEPT ![t] = Front(@)]
  /\ MaybeFinalize([state EXCEPT ![t.run] = LeaveExecution(@)])

\* The await the last call of task t is at.
AtAwait(t, pc) == stack[t] # <<>> /\ Last(stack[t]).pc = pc

-----------------------------------------------------------------------------
(* The actions.                                                            *)

Init ==
  /\ activeRun = 0
  /\ run = [r \in Runs |-> CreatedRun({})]
  /\ ending = [r \in Runs |-> "new"]
  /\ elapsed = [r \in Runs |-> 0]
  /\ phase = [t \in Tasks |-> "off"]
  /\ stack = [t \in Tasks |-> <<>>]

\* startFlow.  activeFlows.set forgets the state of a run that is still active.
StartFlow(r) ==
  /\ ending[r] = "new"
  /\ \A q \in Runs : q < r => ending[q] # "new"
  /\ activeRun' = r
  /\ run' = [run EXCEPT ![r] = CreatedRun(NodesToStart)]
  /\ ending' = [q \in Runs |-> IF q = r THEN "running"
                               ELSE IF q = activeRun THEN "replaced" ELSE ending[q]]
  /\ phase' = [t \in Tasks |-> IF t \in {Pulse(r, n) : n \in NodesToStart}
                               THEN "armed" ELSE phase[t]]
  /\ UNCHANGED <<elapsed, stack>>

Cleared_Mutant(r) == run[r].activeTimers   \* pulse timers are not cleared

\* clearTimeout on activeTimers and on the pulse timers whose handle is kept.
Cleared(r) ==
  run[r].activeTimers \cup {Pulse(r, n) : n \in {m \in Nodes : run[r].nodes[m].pulseTimer}}

\* stopFlow.  Calls that are at an await go on.
StopFlow ==
  /\ activeRun # 0
  /\ phase' = [t \in Tasks |-> IF t \in Cleared(activeRun) /\ phase[t] = "armed"
                               THEN "off" ELSE phase[t]]
  /\ run' = [run EXCEPT ![activeRun].nodes =
               [n \in Nodes |-> [@[n] EXCEPT !.pulseTimer = FALSE]]]
  /\ ending' = [ending EXCEPT ![activeRun] = "stopped"]
  /\ activeRun' = 0
  /\ UNCHANGED <<elapsed, stack>>

\* A second passes since run r was created.
Tick(r) ==
  /\ ending[r] # "new"
  /\ elapsed[r] < MaxTime
  /\ elapsed' = [elapsed EXCEPT ![r] = @ + 1]
  /\ UNCHANGED <<activeRun, run, ending, phase, stack>>

\* The pulse timer of a node fires: nodeState.pulseTimer = undefined.
Fired(r, n) == [run EXCEPT ![r].nodes[n].pulseTimer = FALSE]

\* pulse, up to its await or its return when the node reached its limit.
PulseFires(r, n) ==
  LET t == Pulse(r, n) IN
  /\ phase[t] = "armed"
  /\ UNCHANGED elapsed
  /\ \/ /\ AtLimit(r, n, run[r])
        /\ phase' = [phase EXCEPT ![t] = "off"]
        /\ MaybeFinalize([Fired(r, n) EXCEPT ![r] = SetStatus(@, n, "completed")])
        /\ UNCHANGED stack
     \/ /\ ~AtLimit(r, n, run[r])
        /\ phase' = [phase EXCEPT ![t] = "running"]
        /\ ExecuteNode(t, n, Fired(r, n), <<>>)

PulseEnds_MutantCompleted(r, n) == activeRun = 0   \* a completed node pulses on
PulseEnds_MutantNever(r, n) == FALSE   \* the timer is always armed again

\* The condition of pulse for not arming its timer again.  activeFlows.has(flow.id)
\* asks for any run under the flow's id, not for this one.
PulseEnds(r, n) == run[r].nodes[n].completed \/ activeRun = 0

\* pulse after "await this.executeNode".
PulseReturns(r, n) ==
  LET t == Pulse(r, n) IN
  /\ phase[t] = "running" /\ stack[t] = <<>>
  /\ IF PulseEnds(r, n)
     THEN /\ phase' = [phase EXCEPT ![t] = "off"]
          /\ MaybeFinalize(run)
     ELSE /\ phase' = [phase EXCEPT ![t] = "armed"]
          /\ run' = [run EXCEPT ![r].nodes[n].pulseTimer = TRUE]
          /\ UNCHANGED <<activeRun, ending>>
  /\ UNCHANGED <<elapsed, stack>>

\* The timer of a delayed edge fires; it stays in activeTimers meanwhile.
DelayedFires(t) ==
  /\ phase[t] = "armed"
  /\ phase' = [phase EXCEPT ![t] = "running"]
  /\ ExecuteNode(t, RootNode(t), run, <<>>)
  /\ UNCHANGED elapsed

\* The finally block of the callback of a delayed edge.
DelayedReturns(t) ==
  /\ phase[t] = "running" /\ stack[t] = <<>>
  /\ phase' = [phase EXCEPT ![t] = "off"]
  /\ MaybeFinalize([run EXCEPT ![t.run].activeTimers = @ \ {t}])
  /\ UNCHANGED <<elapsed, stack>>

\* generateBatch returned a message; publishBatch is called.
Generated(t) ==
  /\ AtAwait(t, "generating")
  /\ stack' = [stack EXCEPT ![t] = Append(Front(@), Frame(Last(@).node, "publishing", 0))]
  /\ UNCHANGED <<activeRun, run, ending, elapsed, phase>>

\* generateBatch returned no usable message, or publishBatch threw.
ExecutionFails(t) ==
  /\ AtAwait(t, "generating") \/ AtAwait(t, "publishing")
  /\ ReturnFromExecution(t, [run EXCEPT ![t.run] = SetStatus(@, Last(stack[t]).node, "error")])
  /\ UNCHANGED <<elapsed, phase>>

\* publishBatch returned: count, report the status, trigger the first edges.
Published(t) ==
  /\ AtAwait(t, "publishing")
  /\ LET n == Last(stack[t]).node
         sent == CountSent(run[t.run], n)
         s == IF AtLimit(t.run, n, sent) THEN "completed" ELSE "idle"
     IN TriggerDownstream(t, [run EXCEPT ![t.run] = SetStatus(sent, n, s)], 1)
  /\ UNCHANGED elapsed

\* The executeNode that triggerDownstream waits for returned: the next edges.
DownstreamContinues(t) ==
  /\ AtAwait(t, "downstream")
  /\ TriggerDownstream(t, run, Last(stack[t]).edge + 1)
  /\ UNCHANGED elapsed

\* triggerDownstream returned.
ExecutionReturns(t) ==
  /\ AtAwait(t, "returning")
  /\ ReturnFromExecution(t, run)
  /\ UNCHANGED <<elapsed, phase>>

CallStep(t) ==
  \/ Generated(t) \/ ExecutionFails(t) \/ Published(t)
  \/ DownstreamContinues(t) \/ ExecutionReturns(t)

\* What the event loop does with one task once the timer or the promise is due.
TaskStep(t) ==
  \/ CallStep(t)
  \/ \E n \in Nodes : t = Pulse(t.run, n) /\ (PulseFires(t.run, n) \/ PulseReturns(t.run, n))
  \/ t.kind = "delayed" /\ (DelayedFires(t) \/ DelayedReturns(t))

Next ==
  \/ \E r \in Runs : StartFlow(r) \/ Tick(r)
  \/ StopFlow
  \/ \E t \in Tasks : TaskStep(t)

Spec == Init /\ [][Next]_vars

\* Timers fire, workers and brokers answer, time passes; nobody need start or stop.
Fairness ==
  /\ \A t \in Tasks : WF_vars(TaskStep(t))
  /\ \A r \in Runs : WF_vars(Tick(r))

FairSpec == Spec /\ Fairness

-----------------------------------------------------------------------------
(* Properties.                                                             *)

\* The executeNode calls of run r that passed the limit check and did not return.
Calls(r) == {c \in TasksOf(r) \X (1 .. MaxDepth) : c[2] <= Len(stack[c[1]])}

\* A pulse that will fire or may arm its timer again.
PulseLive(r, n) ==
  \/ phase[Pulse(r, n)] = "armed"
  \/ phase[Pulse(r, n)] = "running" /\ ~run[r].nodes[n].completed

Busy(r) ==
  \/ \E t \in TasksOf(r) : stack[t] # <<>>
  \/ \E t \in DelayedTasks(r) : phase[t] # "off"
  \/ \E n \in Nodes : PulseLive(r, n)

\* maybeFinalizeFlow trusts the counter: it is always the number of calls that have
\* not returned, so Math.max(0, ...) hides no call counted twice or not at all.
ExecutionsCounted ==
  \A r \in Runs : run[r].activeExecutions = Cardinality(Calls(r))

\* Until a run is stopped, activeTimers holds exactly its armed and running delayed
\* edges: stopFlow can clear each of them and maybeFinalizeFlow waits for each.
TimersTracked ==
  \A r \in Runs : ending[r] # "stopped" =>
    run[r].activeTimers = {t \in DelayedTasks(r) : phase[t] # "off"}

\* The handle of every armed pulse timer is kept, so that stopFlow can clear it.
PulsesTracked ==
  \A r \in Runs, n \in Nodes :
    phase[Pulse(r, n)] = "armed" <=> run[r].nodes[n].pulseTimer

\* Whatever is armed can be taken back: stopFlow finds every armed pulse timer and every
\* delayed edge of the run it stops, and maybeFinalizeFlow waits for the edges, through
\* failures, completions and a second start that replaces the run.
HandlesTracked == TimersTracked /\ PulsesTracked

\* A run that maybeFinalizeFlow ended is over: no call of it is pending and no timer
\* of it will ever publish a message or report a status again.
FinalisedQuiet == \A r \in Runs : ending[r] = "finalised" => ~Busy(r)

\* The engine ends a run by itself only when every entry node sent its count, ran for
\* its time or failed: no pause between two pulses is mistaken for the end.
FinalisedIsDone ==
  \A r \in Runs, n \in EntryNodes :
    ending[r] = "finalised" =>
      run[r].nodes[n].status = "error" \/ AtLimit(r, n, run[r])

\* Clients never see a node of a finished flow still executing.
NoneExecutingWhenFinalised ==
  \A r \in Runs, n \in Nodes :
    ending[r] = "finalised" => run[r].nodes[n].status # "executing"

\* "Total number of messages to send before this node stops": a node never sends
\* more than its count (flow-canvas.component.html:740).
CountRespected ==
  \A r \in Runs, n \in Nodes : Count[n] # Infinity => run[r].nodes[n].sentCount <= Count[n]

\* The same for the nodes that only their own pulse executes.
EntryCountRespected ==
  \A r \in Runs, n \in EntryNodes :
    Count[n] # Infinity => run[r].nodes[n].sentCount <= Count[n]

\* A run keeps to its limits from both sides: no entry node sends more than its count,
\* the run ends by itself only when each of them did its work or failed, and then no
\* node is shown executing.
LimitsKept == EntryCountRespected /\ FinalisedIsDone /\ NoneExecutingWhenFinalised

\* An entry node that reached a limit or failed never executes again: its pulse is
\* the only caller and it ends.
EntryNodesEndOnce ==
  [][\A r \in Runs, n \in EntryNodes :
       ending[r] # "new" /\ run[r].nodes[n].completed =>
         run'[r].nodes[n].status = run[r].nodes[n].status]_vars

\* "Stop the orchestration simulation" (flow-canvas.component.html:193): no node of a
\* stopped run pulses again, whatever is started after the stop.
StopEndsPulses ==
  \A r \in Runs : ending[r] = "stopped" => \A t \in Pulses(r) : phase[t] # "armed"

\* A stopped run falls silent for good once its pending calls and the delayed edges they
\* schedule are over.  Stated for a flow that is started once: another run of it in
\* activeFlows would keep the pulses of this one going.
StoppedRunDrains == \A r \in Runs : ending[r] = "stopped" /\ MaxRuns = 1 ~> []~Busy(r)

\* When every node to start has a limit or an end of its time, the run ends by itself.
RunsEnd == \A r \in Runs : ending[r] = "running" ~> ending[r] # "running"

\* The engine implements what FlowLifecycle promises.
Lifecycle == INSTANCE FlowLifecycle WITH busy <- {r \in Runs : Busy(r)}
LifecycleSpec == Lifecycle!Spec
=============================================================================
