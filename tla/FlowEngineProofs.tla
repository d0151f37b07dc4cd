-------------------------- MODULE FlowEngineProofs --------------------------
(***************************************************************************)
(* Proofs about FlowEngine, for every flow, every limit and every bound.   *)
(***************************************************************************)
EXTENDS FlowEngine, FiniteSetTheorems, SequenceTheorems, TLAPS

-----------------------------------------------------------------------------
(* Sequences of calls.                                                     *)

\* Popping a stack of calls leaves the other calls as they are.
LEMMA FrontOfCalls ==
  ASSUME NEW s \in Seq(Frames), s # <<>>
  PROVE  /\ Front(s) \in Seq(Frames)
         /\ Len(Front(s)) = Len(s) - 1
         /\ \A i \in 1 .. Len(s) - 1 : Front(s)[i] = s[i]
         /\ Last(s) \in Frames
         /\ Last(s) = s[Len(s)]
         /\ Len(s) \in Nat \ {0}
<1>1. Len(s) \in Nat \ {0}
  BY EmptySeq
<1>2. \A i \in 1 .. Len(s) - 1 : s[i] \in Frames
  BY <1>1
<1>3. Last(s) \in Frames /\ Last(s) = s[Len(s)]
  BY <1>1 DEF Last
<1> DEFINE m == Len(s) - 1
<1>4. m \in Nat /\ Front(s) = SubSeq(s, 1, m)
  BY <1>1 DEF Front
<1>5. /\ Front(s) \in Seq(Frames)
      /\ Len(Front(s)) = IF 1 <= m THEN m - 1 + 1 ELSE 0
      /\ \A i \in 1 .. m - 1 + 1 : Front(s)[i] = s[1 + i - 1]
  <2> HIDE DEF m
  <2> QED
    BY <1>2, <1>4, SubSeqProperties DEF m
<1>6. Len(Front(s)) = m /\ \A i \in 1 .. m : Front(s)[i] = s[i]
  <2> HIDE DEF m
  <2>1. \A i \in 1 .. m : i \in 1 .. m - 1 + 1 /\ 1 + i - 1 = i
    BY <1>4
  <2> QED
    BY <2>1, <1>4, <1>5
<1> QED
  BY <1>1, <1>3, <1>5, <1>6

\* Pushing a call.
LEMMA AppendCall ==
  ASSUME NEW s \in Seq(Frames), NEW f \in Frames
  PROVE  /\ Append(s, f) \in Seq(Frames)
         /\ Len(Append(s, f)) = Len(s) + 1
         /\ Append(s, f)[Len(s) + 1] = f
         /\ \A i \in 1 .. Len(s) : Append(s, f)[i] = s[i]
  BY AppendProperties

\* Replacing the call on top of the stack.
LEMMA ReplaceCall ==
  ASSUME NEW s \in Seq(Frames), s # <<>>, NEW f \in Frames
  PROVE  /\ Append(Front(s), f) \in Seq(Frames)
         /\ Len(Append(Front(s), f)) = Len(s)
         /\ Append(Front(s), f)[Len(s)] = f
         /\ \A i \in 1 .. Len(s) - 1 : Append(Front(s), f)[i] = s[i]
  BY FrontOfCalls, AppendCall

-----------------------------------------------------------------------------
(* The functions on execution states.                                      *)

Phases == {"off", "armed", "running"}

\* What an updateNodeStatus does to the flags of a node: it ends the node, or
\* leaves them alone.
Touched(new, old) ==
  \/ new.completed /\ ~new.pulseTimer /\ ~new.pulseEnabled
  \/ /\ new.completed = old.completed
     /\ new.pulseTimer = old.pulseTimer
     /\ new.pulseEnabled = old.pulseEnabled

\* updateNodeStatus changes one node and neither counter nor timers.
LEMMA SetStatusFacts ==
  ASSUME NEW rs \in RunStates, NEW n \in Nodes, NEW s \in Statuses
  PROVE  LET new == SetStatus(rs, n, s) IN
         /\ new \in RunStates
         /\ new.activeTimers = rs.activeTimers
         /\ new.activeExecutions = rs.activeExecutions
         /\ \A m \in Nodes \ {n} : new.nodes[m] = rs.nodes[m]
         /\ Touched(new.nodes[n], rs.nodes[n])
<1>1. WithStatus(rs.nodes[n], s) \in NodeStates /\ Touched(WithStatus(rs.nodes[n], s), rs.nodes[n])
  BY DEF RunStates, NodeStates, WithStatus, Touched, Statuses, FinalStatuses
<1>2. SetStatus(rs, n, s) = [rs EXCEPT !.nodes = [rs.nodes EXCEPT ![n] = WithStatus(rs.nodes[n], s)]]
  BY DEF SetStatus, RunStates
<1> QED
  BY <1>1, <1>2 DEF RunStates

\* Counting a message touches no flag, no timer and no call counter.
LEMMA CountSentFacts ==
  ASSUME NEW rs \in RunStates, NEW n \in Nodes
  PROVE  LET new == CountSent(rs, n) IN
         /\ new \in RunStates
         /\ new.activeTimers = rs.activeTimers
         /\ new.activeExecutions = rs.activeExecutions
         /\ \A m \in Nodes \ {n} : new.nodes[m] = rs.nodes[m]
         /\ new.nodes[n].completed = rs.nodes[n].completed
         /\ new.nodes[n].pulseTimer = rs.nodes[n].pulseTimer
         /\ new.nodes[n].pulseEnabled = rs.nodes[n].pulseEnabled
<1> DEFINE counted == [rs.nodes[n] EXCEPT !.sentCount = @ + 1]
<1>1. /\ counted \in NodeStates
      /\ counted.completed = rs.nodes[n].completed
      /\ counted.pulseTimer = rs.nodes[n].pulseTimer
      /\ counted.pulseEnabled = rs.nodes[n].pulseEnabled
  BY DEF RunStates, NodeStates
<1>2. CountSent(rs, n) = rs \/ CountSent(rs, n) = [rs EXCEPT !.nodes = [rs.nodes EXCEPT ![n] = counted]]
  BY DEF CountSent, RunStates
<1> QED
  BY <1>1, <1>2 DEF RunStates

\* The two counter operations.
LEMMA ExecutionCounter ==
  ASSUME NEW rs \in RunStates
  PROVE  /\ EnterExecution(rs) \in RunStates
         /\ EnterExecution(rs).activeExecutions = rs.activeExecutions + 1
         /\ EnterExecution(rs).activeTimers = rs.activeTimers
         /\ EnterExecution(rs).nodes = rs.nodes
         /\ LeaveExecution(rs) \in RunStates
         /\ LeaveExecution(rs).activeExecutions =
              IF rs.activeExecutions > 0 THEN rs.activeExecutions - 1 ELSE 0
         /\ LeaveExecution(rs).activeTimers = rs.activeTimers
         /\ LeaveExecution(rs).nodes = rs.nodes
  BY DEF RunStates, EnterExecution, LeaveExecution

\* Adding timers changes the set of timers only.
LEMMA TrackedFacts ==
  ASSUME NEW rs \in RunStates, NEW timers \in SUBSET Tasks
  PROVE  /\ Tracked(rs, timers) \in RunStates
         /\ Tracked(rs, timers).activeTimers = rs.activeTimers \cup timers
         /\ Tracked(rs, timers).activeExecutions = rs.activeExecutions
         /\ Tracked(rs, timers).nodes = rs.nodes
  BY DEF RunStates, Tracked

\* Completing the remaining nodes of a quiet run changes no flag but "completed".
LEMMA CompletedFacts ==
  ASSUME NEW rs \in RunStates, Quiet(rs)
  PROVE  LET new == Completed(rs) IN
         /\ new \in RunStates
         /\ new.activeTimers = rs.activeTimers
         /\ new.activeExecutions = rs.activeExecutions
         /\ \A m \in Nodes : /\ new.nodes[m].pulseTimer = rs.nodes[m].pulseTimer
                             /\ new.nodes[m].pulseEnabled = rs.nodes[m].pulseEnabled
                             /\ rs.nodes[m].completed => new.nodes[m].completed
<1>1. \A m \in Nodes : /\ WithStatus(rs.nodes[m], "completed") \in NodeStates
                       /\ WithStatus(rs.nodes[m], "completed").pulseTimer = rs.nodes[m].pulseTimer
                       /\ WithStatus(rs.nodes[m], "completed").pulseEnabled = rs.nodes[m].pulseEnabled
                       /\ WithStatus(rs.nodes[m], "completed").completed
  BY DEF RunStates, NodeStates, WithStatus, Statuses, FinalStatuses, Quiet
<1> DEFINE done == [m \in Nodes |-> IF rs.nodes[m].status = "error" \/ rs.nodes[m].completed
                                    THEN rs.nodes[m] ELSE WithStatus(rs.nodes[m], "completed")]
<1>2. done \in [Nodes -> NodeStates]
  BY <1>1 DEF RunStates
<1>3. Completed(rs) = [rs EXCEPT !.nodes = done]
  BY DEF Completed
<1>4. \A m \in Nodes : /\ done[m].pulseTimer = rs.nodes[m].pulseTimer
                       /\ done[m].pulseEnabled = rs.nodes[m].pulseEnabled
                       /\ rs.nodes[m].completed => done[m].completed
  BY <1>1
<1> HIDE DEF done
<1> QED
  BY <1>2, <1>3, <1>4 DEF RunStates

-----------------------------------------------------------------------------
(* maybeFinalizeFlow and executeNode.                                      *)

\* The execution states are mid, or maybeFinalizeFlow ended the active run in them.
Settled(mid) ==
  \/ /\ run' = mid
     /\ UNCHANGED <<activeRun, ending>>
  \/ /\ activeRun # 0
     /\ Quiet(mid[activeRun])
     /\ run' = [mid EXCEPT ![activeRun] = Completed(@)]
     /\ activeRun' = 0
     /\ ending' = [ending EXCEPT ![activeRun] = "finalised"]

LEMMA MaybeFinalizeSettles ==
  ASSUME NEW mid, MaybeFinalize(mid)
  PROVE  Settled(mid)
  BY DEF MaybeFinalize, Settled

\* Ending a run keeps every counter, timer and pulse flag.
LEMMA SettledFacts ==
  ASSUME TypeOK, NEW mid \in [Runs -> RunStates], Settled(mid)
  PROVE  /\ run' \in [Runs -> RunStates]
         /\ activeRun' \in 0 .. MaxRuns
         /\ ending' \in [Runs -> {"new", "running", "finalised", "stopped", "replaced"}]
         /\ \A r \in Runs :
              /\ run'[r].activeExecutions = mid[r].activeExecutions
              /\ run'[r].activeTimers = mid[r].activeTimers
              /\ \A n \in Nodes :
                   /\ run'[r].nodes[n].pulseTimer = mid[r].nodes[n].pulseTimer
                   /\ run'[r].nodes[n].pulseEnabled = mid[r].nodes[n].pulseEnabled
                   /\ mid[r].nodes[n].completed => run'[r].nodes[n].completed
<1>1. CASE run' = mid /\ UNCHANGED <<activeRun, ending>>
  BY <1>1 DEF TypeOK
<1>2. CASE /\ activeRun # 0
           /\ Quiet(mid[activeRun])
           /\ run' = [mid EXCEPT ![activeRun] = Completed(@)]
           /\ activeRun' = 0
           /\ ending' = [ending EXCEPT ![activeRun] = "finalised"]
  <2>1. activeRun \in Runs
    BY <1>2 DEF TypeOK, Runs
  <2>2. Completed(mid[activeRun]) \in RunStates
    BY <1>2, <2>1, CompletedFacts
  <2>3. ASSUME NEW r \in Runs, r # activeRun
        PROVE  run'[r] = mid[r]
    BY <1>2, <2>3
  <2>4. run'[activeRun] = Completed(mid[activeRun])
    BY <1>2, <2>1
  <2>5. /\ run'[activeRun].activeExecutions = mid[activeRun].activeExecutions
        /\ run'[activeRun].activeTimers = mid[activeRun].activeTimers
        /\ \A n \in Nodes :
             /\ run'[activeRun].nodes[n].pulseTimer = mid[activeRun].nodes[n].pulseTimer
             /\ run'[activeRun].nodes[n].pulseEnabled = mid[activeRun].nodes[n].pulseEnabled
             /\ mid[activeRun].nodes[n].completed => run'[activeRun].nodes[n].completed
    BY <1>2, <2>1, <2>4, CompletedFacts
  <2>6. run' \in [Runs -> RunStates]
    BY <1>2, <2>1, <2>2
  <2>7. /\ activeRun' \in 0 .. MaxRuns
        /\ ending' \in [Runs -> {"new", "running", "finalised", "stopped", "replaced"}]
    BY <1>2, <2>1, BoundAssumption DEF TypeOK
  <2> QED
    BY <2>3, <2>5, <2>6, <2>7
<1> QED
  BY <1>1, <1>2 DEF Settled

\* What executeNode does, up to its first await, to the run of task t: mid and s
\* are the execution states before maybeFinalizeFlow and the calls of t.
NodeOutcome(t, n, state, calls, mid, s) ==
  /\ stack' = [stack EXCEPT ![t] = s]
  /\ Settled(mid)
  /\ \A q \in Runs \ {t.run} : mid[q] = state[q]
  /\ mid[t.run].activeTimers = state[t.run].activeTimers
  /\ \/ /\ s = calls
        /\ mid[t.run].activeExecutions = state[t.run].activeExecutions
     \/ /\ s = Append(calls, Frame(n, "generating", 0))
        /\ Len(calls) < MaxDepth
        /\ mid[t.run].activeExecutions = state[t.run].activeExecutions + 1
  /\ \A m \in Nodes \ {n} : mid[t.run].nodes[m] = state[t.run].nodes[m]
  /\ Touched(mid[t.run].nodes[n], state[t.run].nodes[n])

LEMMA ExecuteNodeOutcome ==
  ASSUME NEW t \in Tasks, t.run \in Runs, NEW n \in Nodes,
         NEW state \in [Runs -> RunStates], NEW calls \in Seq(Frames),
         ExecuteNode(t, n, state, calls)
  PROVE  \E mid \in [Runs -> RunStates], s \in Seq(Frames) :
           NodeOutcome(t, n, state, calls, mid, s)
<1> DEFINE r == t.run
<1>1. ASSUME NEW st \in Statuses,
             stack' = [stack EXCEPT ![t] = calls],
             MaybeFinalize([state EXCEPT ![r] = SetStatus(@, n, st)])
      PROVE  \E mid \in [Runs -> RunStates], s \in Seq(Frames) :
               NodeOutcome(t, n, state, calls, mid, s)
  <2> DEFINE mid == [state EXCEPT ![r] = SetStatus(state[r], n, st)]
  <2>1. SetStatus(state[r], n, st) \in RunStates
    BY SetStatusFacts
  <2>2. mid \in [Runs -> RunStates] /\ mid[r] = SetStatus(state[r], n, st)
    BY <2>1
  <2>3. \A q \in Runs \ {r} : mid[q] = state[q]
    OBVIOUS
  <2>4. Settled(mid)
    BY <1>1, MaybeFinalizeSettles
  <2>5. /\ mid[r].activeTimers = state[r].activeTimers
        /\ mid[r].activeExecutions = state[r].activeExecutions
        /\ \A m \in Nodes \ {n} : mid[r].nodes[m] = state[r].nodes[m]
        /\ Touched(mid[r].nodes[n], state[r].nodes[n])
    BY <2>2, SetStatusFacts
  <2> HIDE DEF mid
  <2>6. NodeOutcome(t, n, state, calls, mid, calls)
    BY <1>1, <2>2, <2>3, <2>4, <2>5 DEF NodeOutcome
  <2> QED
    BY <2>2, <2>6
<1>2. ASSUME Len(calls) < MaxDepth,
             stack' = [stack EXCEPT ![t] = Append(calls, Frame(n, "generating", 0))],
             run' = [state EXCEPT ![r] = EnterExecution(SetStatus(@, n, "executing"))],
             UNCHANGED <<activeRun, ending>>
      PROVE  \E mid \in [Runs -> RunStates], s \in Seq(Frames) :
               NodeOutcome(t, n, state, calls, mid, s)
  <2> DEFINE rs == SetStatus(state[r], n, "executing")
  <2>1. /\ rs \in RunStates
        /\ rs.activeTimers = state[r].activeTimers
        /\ rs.activeExecutions = state[r].activeExecutions
        /\ \A m \in Nodes \ {n} : rs.nodes[m] = state[r].nodes[m]
        /\ Touched(rs.nodes[n], state[r].nodes[n])
    BY SetStatusFacts DEF Statuses
  <2> HIDE DEF rs
  <2>2. /\ EnterExecution(rs) \in RunStates
        /\ EnterExecution(rs).activeExecutions = rs.activeExecutions + 1
        /\ EnterExecution(rs).activeTimers = rs.activeTimers
        /\ EnterExecution(rs).nodes = rs.nodes
    BY <2>1, ExecutionCounter
  <2>3. run' = [state EXCEPT ![r] = EnterExecution(rs)]
    BY <1>2 DEF rs
  <2>4. /\ run' \in [Runs -> RunStates]
        /\ run'[r] = EnterExecution(rs)
        /\ \A q \in Runs \ {r} : run'[q] = state[q]
    BY <2>2, <2>3
  <2>5. Append(calls, Frame(n, "generating", 0)) \in Seq(Frames)
    BY AppendCall DEF Frame, Frames
  <2>6. Settled(run')
    BY <1>2 DEF Settled
  <2>7. NodeOutcome(t, n, state, calls, run', Append(calls, Frame(n, "generating", 0)))
    BY <1>2, <2>1, <2>2, <2>4, <2>6 DEF NodeOutcome
  <2> QED
    BY <2>4, <2>5, <2>7
<1> QED
  BY <1>1, <1>2 DEF ExecuteNode, Statuses

-----------------------------------------------------------------------------
(* The inductive invariant.                                                *)

\* activeFlows holds the run that did not end.
ActiveRunning == \A r \in Runs : ending[r] = "running" <=> activeRun = r

\* A run that was not started has no timer; only callbacks that run make calls.
NewIdle == \A r \in Runs : ending[r] = "new" => \A t \in TasksOf(r) : phase[t] = "off"
CallsRunning == \A t \in Tasks : phase[t] # "running" => stack[t] = <<>>
DepthBounded == \A t \in Tasks : Len(stack[t]) <= MaxDepth
CallsFinite == \A r \in Runs : IsFiniteSet(Calls(r))

\* A delayed edge that is not over is in activeTimers, in a stopped run too.
LiveTracked ==
  \A r \in Runs : \A t \in DelayedTasks(r) : phase[t] # "off" => t \in run[r].activeTimers

\* Only its own pulse executes an entry node, no edge leads there.
EntryCalls ==
  \A t \in Tasks : \A i \in 1 .. Len(stack[t]) :
    stack[t][i].node \in EntryNodes => t = Pulse(t.run, stack[t][i].node)

\* The flags of an entry node agree with its pulse.
EntryPulses ==
  \A r \in Runs, n \in EntryNodes :
    /\ phase[Pulse(r, n)] = "armed" <=> run[r].nodes[n].pulseTimer
    /\ phase[Pulse(r, n)] # "off" => run[r].nodes[n].completed \/ run[r].nodes[n].pulseEnabled

\* In a flow with entry nodes the other nodes have no pulse.
OnlyEntryPulses ==
  EntryNodes # {} => \A r \in Runs, n \in Nodes \ EntryNodes :
    /\ phase[Pulse(r, n)] = "off"
    /\ ~run[r].nodes[n].pulseTimer

IInv ==
  /\ TypeOK
  /\ ActiveRunning
  /\ NewIdle
  /\ CallsRunning
  /\ DepthBounded
  /\ CallsFinite
  /\ ExecutionsCounted
  /\ LiveTracked
  /\ TimersTracked
  /\ EntryCalls
  /\ EntryPulses
  /\ OnlyEntryPulses
  /\ EntryNodes # {} => FinalisedQuiet

-----------------------------------------------------------------------------
(* The effect of a step of task t: mid are the execution states before     *)
(* maybeFinalizeFlow, s are the calls of t after the step.                 *)

\* The calls of t grow or shrink by at most one, and the counter with them.
EffectOnCalls(t, mid, s) ==
  /\ stack' = [stack EXCEPT ![t] = s]
  /\ \A i \in 1 .. Len(s) : s[i].node \in EntryNodes => t = Pulse(t.run, s[i].node)
  /\ \/ /\ Len(s) = Len(stack[t])
        /\ mid[t.run].activeExecutions = run[t.run].activeExecutions
     \/ /\ Len(s) = Len(stack[t]) + 1
        /\ Len(s) <= MaxDepth
        /\ mid[t.run].activeExecutions = run[t.run].activeExecutions + 1
     \/ /\ Len(s) + 1 = Len(stack[t])
        /\ mid[t.run].activeExecutions =
             IF run[t.run].activeExecutions > 0 THEN run[t.run].activeExecutions - 1 ELSE 0

\* Other tasks are left alone, except for delayed edges that are armed.
Scheduled(t, q) == q \in DelayedTasks(t.run) /\ phase[q] = "off" /\ phase'[q] = "armed"

EffectOnTimers(t, mid, s) ==
  /\ phase' \in [Tasks -> Phases]
  /\ phase[t] # "off"
  /\ phase'[t] # "running" => s = <<>>
  /\ \A q \in Tasks \ {t} : phase'[q] = phase[q] \/ Scheduled(t, q)
  /\ \A q \in Tasks \ {t} :
       q \in mid[t.run].activeTimers <=> q \in run[t.run].activeTimers \/ Scheduled(t, q)
  /\ t \in DelayedTasks(t.run) =>
       (t \in mid[t.run].activeTimers <=> t \in run[t.run].activeTimers /\ phase'[t] # "off")
  /\ t \notin DelayedTasks(t.run) =>
       (t \in mid[t.run].activeTimers <=> t \in run[t.run].activeTimers)

\* An entry node is touched by its own pulse only, any node stays completed.
EffectOnNodes(t, mid) ==
  \A n \in Nodes :
    LET new == mid[t.run].nodes[n]
        old == run[t.run].nodes[n]
    IN /\ old.completed => new.completed
       /\ n \in EntryNodes /\ t # Pulse(t.run, n) =>
            /\ new.pulseTimer = old.pulseTimer
            /\ new.pulseEnabled = old.pulseEnabled
       /\ n \in EntryNodes /\ t = Pulse(t.run, n) =>
            /\ new.pulseTimer <=> phase'[t] = "armed"
            /\ phase'[t] # "off" => new.completed \/ new.pulseEnabled
       /\ EntryNodes # {} /\ n \notin EntryNodes => ~new.pulseTimer

Effect(t, mid, s) ==
  /\ Settled(mid)
  /\ \A q \in Runs \ {t.run} : mid[q] = run[q]
  /\ EffectOnCalls(t, mid, s)
  /\ EffectOnTimers(t, mid, s)
  /\ EffectOnNodes(t, mid)
  /\ \/ Busy(t.run)
     \/ phase'[t] = "off" /\ s = <<>> /\ \A q \in Tasks \ {t} : phase'[q] = phase[q]

\* The tasks of a run belong to it.
LEMMA TaskRuns ==
  /\ \A t \in Tasks : t.run \in Runs /\ t \in TasksOf(t.run)
  /\ \A r \in Runs : TasksOf(r) \subseteq Tasks /\ \A t \in TasksOf(r) : t.run = r
  /\ \A r \in Runs : DelayedTasks(r) \subseteq TasksOf(r)
  /\ \A r \in Runs, n \in Nodes : Pulse(r, n) \in TasksOf(r) /\ Pulse(r, n) \notin DelayedTasks(r)
  /\ \A t \in Tasks : t \in DelayedTasks(t.run) \/ \E n \in Nodes : t = Pulse(t.run, n)
  /\ \A t \in Tasks : t \in DelayedTasks(t.run) <=> t.kind = "delayed"
<1>1. ASSUME NEW r \in Runs, NEW t \in TasksOf(r)
      PROVE  /\ t.run = r /\ t \in Tasks
             /\ t \in DelayedTasks(r) \/ \E n \in Nodes : t = Pulse(r, n)
             /\ t \in DelayedTasks(r) <=> t.kind = "delayed"
  BY <1>1 DEF Tasks, TasksOf, DelayedTasks, Pulses, Pulse, Delayed
<1>2. \A t \in Tasks : \E r \in Runs : t \in TasksOf(r)
  BY DEF Tasks
<1>3. \A r \in Runs : DelayedTasks(r) \subseteq TasksOf(r)
  BY DEF TasksOf
<1>4. \A r \in Runs, n \in Nodes : Pulse(r, n) \in TasksOf(r) /\ Pulse(r, n).kind = "pulse"
  BY DEF TasksOf, Pulses, Pulse
<1> QED
  BY <1>1, <1>2, <1>3, <1>4

\* No edge leads to an entry node.
LEMMA TargetsNotEntry ==
  ASSUME NEW e \in DOMAIN Edges
  PROVE  Edges[e].target \in Nodes /\ Edges[e].target \notin EntryNodes
<1>1. Edges[e] \in [source : Nodes, target : Nodes,
                    fires : SUBSET BOOLEAN, delays : SUBSET BOOLEAN]
  BY FlowAssumption, ElementOfSeq, LenProperties
<1> QED
  BY <1>1 DEF EntryNodes

\* The pulses of different nodes are different tasks.
LEMMA PulseInjective ==
  \A r, q \in Runs : \A n, m \in Nodes : Pulse(r, n) = Pulse(q, m) => r = q /\ n = m
  BY DEF Pulse

-----------------------------------------------------------------------------
(* The steps of a call that is at an await.                                *)

\* While task t runs, updateNodeStatus on the nodes it executes agrees with the
\* invariant: an entry node is executed by its own pulse.
LEMMA CallNodes ==
  ASSUME IInv, NEW t \in Tasks, phase[t] = "running", phase'[t] = "running",
         NEW mid \in [Runs -> RunStates],
         \A n \in Nodes : Touched(mid[t.run].nodes[n], run[t.run].nodes[n]),
         \A n \in EntryNodes : t # Pulse(t.run, n) =>
           mid[t.run].nodes[n] = run[t.run].nodes[n]
  PROVE  EffectOnNodes(t, mid)
<1>1. t.run \in Runs
  BY TaskRuns
<1> SUFFICES ASSUME NEW n \in Nodes
             PROVE  LET new == mid[t.run].nodes[n]
                        old == run[t.run].nodes[n]
                    IN /\ old.completed => new.completed
                       /\ n \in EntryNodes /\ t # Pulse(t.run, n) =>
                            /\ new.pulseTimer = old.pulseTimer
                            /\ new.pulseEnabled = old.pulseEnabled
                       /\ n \in EntryNodes /\ t = Pulse(t.run, n) =>
                            /\ new.pulseTimer <=> phase'[t] = "armed"
                            /\ phase'[t] # "off" => new.completed \/ new.pulseEnabled
                       /\ EntryNodes # {} /\ n \notin EntryNodes => ~new.pulseTimer
  BY DEF EffectOnNodes
<1> DEFINE new == mid[t.run].nodes[n]
           old == run[t.run].nodes[n]
<1>2. Touched(new, old)
  OBVIOUS
<1>3. old.completed => new.completed
  BY <1>2 DEF Touched
<1>4. ASSUME n \in EntryNodes, t # Pulse(t.run, n)
      PROVE  new = old
  BY <1>4
<1>5. ASSUME n \in EntryNodes, t = Pulse(t.run, n)
      PROVE  /\ new.pulseTimer <=> phase'[t] = "armed"
             /\ phase'[t] # "off" => new.completed \/ new.pulseEnabled
  <2>1. ~old.pulseTimer /\ (old.completed \/ old.pulseEnabled)
    BY <1>1, <1>5 DEF IInv, EntryPulses
  <2> QED
    BY <1>2, <2>1 DEF Touched
<1>6. ASSUME EntryNodes # {}, n \notin EntryNodes
      PROVE  ~new.pulseTimer
  <2>1. ~old.pulseTimer
    BY <1>1, <1>6 DEF IInv, OnlyEntryPulses
  <2> QED
    BY <1>2, <2>1 DEF Touched
<1> QED
  BY <1>3, <1>4, <1>5, <1>6

\* The facts every call step starts from.
LEMMA CallFacts ==
  ASSUME IInv, NEW t \in Tasks, stack[t] # <<>>
  PROVE  /\ t.run \in Runs
         /\ phase[t] = "running"
         /\ stack[t] \in Seq(Frames)
         /\ Len(stack[t]) \in Nat \ {0}
         /\ Last(stack[t]).node \in Nodes
         /\ Last(stack[t]).node \in EntryNodes => t = Pulse(t.run, Last(stack[t]).node)
         /\ run \in [Runs -> RunStates]
         /\ Busy(t.run)
<1>1. t.run \in Runs /\ t \in TasksOf(t.run)
  BY TaskRuns
<1>2. phase[t] = "running" /\ stack[t] \in Seq(Frames) /\ run \in [Runs -> RunStates]
  BY DEF IInv, TypeOK, CallsRunning
<1>3. Busy(t.run)
  BY <1>1 DEF Busy
<1>4. /\ Len(stack[t]) \in Nat \ {0}
      /\ Last(stack[t]) = stack[t][Len(stack[t])]
      /\ Last(stack[t]) \in Frames
  BY <1>2, FrontOfCalls
<1>5. Last(stack[t]).node \in EntryNodes => t = Pulse(t.run, Last(stack[t]).node)
  BY <1>4 DEF IInv, EntryCalls
<1> QED
  BY <1>1, <1>2, <1>3, <1>4, <1>5 DEF Frames

\* A stack of calls of task t respects EntryCalls when it is built from the old one.
LEMMA ShorterCalls ==
  ASSUME IInv, NEW t \in Tasks, stack[t] # <<>>, NEW s \in Seq(Frames),
         Len(s) <= Len(stack[t]),
         \A i \in 1 .. Len(s) : s[i].node = stack[t][i].node
  PROVE  \A i \in 1 .. Len(s) : s[i].node \in EntryNodes => t = Pulse(t.run, s[i].node)
<1>1. Len(s) \in Nat /\ Len(stack[t]) \in Nat
  BY CallFacts, LenProperties
<1> QED
  BY <1>1 DEF IInv, EntryCalls

\* A call step without timers.
LEMMA NoTimers ==
  ASSUME IInv, NEW t \in Tasks, stack[t] # <<>>, UNCHANGED phase,
         NEW mid \in [Runs -> RunStates], NEW s,
         mid[t.run].activeTimers = run[t.run].activeTimers
  PROVE  EffectOnTimers(t, mid, s)
<1>1. phase[t] = "running"
  BY CallFacts
<1>2. phase' \in [Tasks -> Phases]
  BY DEF IInv, TypeOK, Phases
<1> QED
  BY <1>1, <1>2 DEF EffectOnTimers, Scheduled

LEMMA GeneratedEffect ==
  ASSUME IInv, NEW t \in Tasks, Generated(t)
  PROVE  \E mid \in [Runs -> RunStates], s \in Seq(Frames) : Effect(t, mid, s)
<1>1. stack[t] # <<>>
  BY DEF Generated, AtAwait
<1> DEFINE n == Last(stack[t]).node
           s == Append(Front(stack[t]), Frame(n, "publishing", 0))
<1>2. /\ s \in Seq(Frames)
      /\ Len(s) = Len(stack[t])
      /\ \A i \in 1 .. Len(s) : s[i].node = stack[t][i].node
  <2>1. Frame(n, "publishing", 0) \in Frames
    BY <1>1, CallFacts DEF Frame, Frames
  <2>2. Frame(n, "publishing", 0).node = stack[t][Len(stack[t])].node
    BY <1>1, CallFacts, FrontOfCalls DEF Frame
  <2>3. /\ stack[t] \in Seq(Frames)
        /\ Len(stack[t]) \in Nat \ {0}
    BY <1>1, CallFacts
  <2>4. /\ s \in Seq(Frames)
        /\ Len(s) = Len(stack[t])
        /\ s[Len(stack[t])] = Frame(n, "publishing", 0)
        /\ \A i \in 1 .. Len(stack[t]) - 1 : s[i] = stack[t][i]
    BY <1>1, <2>1, <2>3, ReplaceCall
  <2> HIDE DEF s
  <2> QED
    BY <2>2, <2>3, <2>4
<1>3. stack' = [stack EXCEPT ![t] = s]
  BY DEF Generated, IInv, TypeOK
<1>4. run \in [Runs -> RunStates] /\ Settled(run)
  BY <1>1, CallFacts DEF Generated, Settled
<1>5. EffectOnCalls(t, run, s)
  <2> HIDE DEF s
  <2> QED
    BY <1>1, <1>2, <1>3, ShorterCalls, LenProperties DEF EffectOnCalls
<1>6. EffectOnTimers(t, run, s)
  BY <1>1, <1>4, NoTimers DEF Generated
<1>7. EffectOnNodes(t, run)
  BY <1>1, <1>4, CallFacts, CallNodes DEF Generated, Touched
<1> HIDE DEF s
<1>8. Effect(t, run, s)
  BY <1>1, <1>4, <1>5, <1>6, <1>7, CallFacts DEF Effect
<1> QED
  BY <1>2, <1>4, <1>8

\* Execution states that differ from "run" by status updates and counted messages of
\* the last call of task t.
Updated(t, state) ==
  /\ state \in [Runs -> RunStates]
  /\ \A q \in Runs \ {t.run} : state[q] = run[q]
  /\ state[t.run].activeTimers = run[t.run].activeTimers
  /\ state[t.run].activeExecutions = run[t.run].activeExecutions
  /\ \A m \in Nodes \ {Last(stack[t]).node} : state[t.run].nodes[m] = run[t.run].nodes[m]
  /\ Touched(state[t.run].nodes[Last(stack[t]).node], run[t.run].nodes[Last(stack[t]).node])

LEMMA UpdatedNodes ==
  ASSUME IInv, NEW t \in Tasks, stack[t] # <<>>, NEW state, Updated(t, state)
  PROVE  /\ \A n \in Nodes : Touched(state[t.run].nodes[n], run[t.run].nodes[n])
         /\ \A n \in EntryNodes : t # Pulse(t.run, n) =>
              state[t.run].nodes[n] = run[t.run].nodes[n]
<1>1. \A n \in Nodes : Touched(state[t.run].nodes[n], run[t.run].nodes[n])
  BY DEF Updated, Touched
<1>2. ASSUME NEW n \in EntryNodes, t # Pulse(t.run, n)
      PROVE  state[t.run].nodes[n] = run[t.run].nodes[n]
  <2>1. n # Last(stack[t]).node /\ n \in Nodes
    BY <1>2, CallFacts DEF EntryNodes
  <2> QED
    BY <2>1 DEF Updated
<1> QED
  BY <1>1, <1>2

\* A call returns: its finally block runs.
LEMMA ReturnEffect ==
  ASSUME IInv, NEW t \in Tasks, stack[t] # <<>>, UNCHANGED phase,
         NEW state, Updated(t, state), ReturnFromExecution(t, state)
  PROVE  \E mid \in [Runs -> RunStates], s \in Seq(Frames) : Effect(t, mid, s)
<1> DEFINE s == Front(stack[t])
           mid == [state EXCEPT ![t.run] = LeaveExecution(state[t.run])]
<1>1. /\ stack[t] \in Seq(Frames)
      /\ Len(stack[t]) \in Nat \ {0}
      /\ t.run \in Runs
      /\ phase[t] = "running"
      /\ Busy(t.run)
  BY CallFacts
<1>2. /\ s \in Seq(Frames)
      /\ Len(s) + 1 = Len(stack[t])
      /\ \A i \in 1 .. Len(s) : s[i].node = stack[t][i].node
  <2>1. /\ s \in Seq(Frames)
        /\ Len(s) = Len(stack[t]) - 1
        /\ \A i \in 1 .. Len(stack[t]) - 1 : s[i] = stack[t][i]
    BY <1>1, FrontOfCalls
  <2> HIDE DEF s
  <2> QED
    BY <1>1, <2>1
<1>3. state \in [Runs -> RunStates]
  BY DEF Updated
<1>4. /\ LeaveExecution(state[t.run]) \in RunStates
      /\ LeaveExecution(state[t.run]).activeExecutions =
           IF state[t.run].activeExecutions > 0 THEN state[t.run].activeExecutions - 1 ELSE 0
      /\ LeaveExecution(state[t.run]).activeTimers = state[t.run].activeTimers
      /\ LeaveExecution(state[t.run]).nodes = state[t.run].nodes
  BY <1>1, <1>3, ExecutionCounter
<1>5. /\ mid \in [Runs -> RunStates]
      /\ mid[t.run] = LeaveExecution(state[t.run])
      /\ \A q \in Runs \ {t.run} : mid[q] = run[q]
  BY <1>1, <1>3, <1>4 DEF Updated
<1>6. Settled(mid)
  BY MaybeFinalizeSettles DEF ReturnFromExecution
<1>7. stack' = [stack EXCEPT ![t] = s]
  BY DEF ReturnFromExecution
<1> HIDE DEF s, mid
<1>8. EffectOnCalls(t, mid, s)
  <2>1. mid[t.run].activeExecutions =
          IF run[t.run].activeExecutions > 0 THEN run[t.run].activeExecutions - 1 ELSE 0
    BY <1>4, <1>5 DEF Updated
  <2>2. Len(s) <= Len(stack[t])
    BY <1>1, <1>2, LenProperties
  <2> QED
    BY <1>2, <1>7, <2>1, <2>2, ShorterCalls DEF EffectOnCalls
<1>9. EffectOnTimers(t, mid, s)
  BY <1>4, <1>5, NoTimers DEF Updated
<1>10. EffectOnNodes(t, mid)
  <2>1. \A n \in Nodes : mid[t.run].nodes[n] = state[t.run].nodes[n]
    BY <1>4, <1>5
  <2>2. \A n \in EntryNodes : n \in Nodes
    BY DEF EntryNodes
  <2> QED
    BY <1>1, <1>5, <2>1, <2>2, UpdatedNodes, CallNodes
<1>11. Effect(t, mid, s)
  BY <1>1, <1>5, <1>6, <1>8, <1>9, <1>10 DEF Effect
<1> QED
  BY <1>2, <1>5, <1>11

LEMMA ExecutionFailsEffect ==
  ASSUME IInv, NEW t \in Tasks, ExecutionFails(t)
  PROVE  \E mid \in [Runs -> RunStates], s \in Seq(Frames) : Effect(t, mid, s)
<1> DEFINE n == Last(stack[t]).node
           state == [run EXCEPT ![t.run] = SetStatus(run[t.run], n, "error")]
<1>1. stack[t] # <<>>
  BY DEF ExecutionFails, AtAwait
<1>2. t.run \in Runs /\ n \in Nodes /\ run \in [Runs -> RunStates]
  BY <1>1, CallFacts
<1>3. /\ SetStatus(run[t.run], n, "error") \in RunStates
      /\ SetStatus(run[t.run], n, "error").activeTimers = run[t.run].activeTimers
      /\ SetStatus(run[t.run], n, "error").activeExecutions = run[t.run].activeExecutions
      /\ \A m \in Nodes \ {n} : SetStatus(run[t.run], n, "error").nodes[m] = run[t.run].nodes[m]
      /\ Touched(SetStatus(run[t.run], n, "error").nodes[n], run[t.run].nodes[n])
  BY <1>2, SetStatusFacts DEF Statuses
<1>4. Updated(t, state)
  <2>1. /\ state \in [Runs -> RunStates]
        /\ state[t.run] = SetStatus(run[t.run], n, "error")
        /\ \A q \in Runs \ {t.run} : state[q] = run[q]
    BY <1>2, <1>3
  <2> HIDE DEF state
  <2> QED
    BY <1>3, <2>1 DEF Updated
<1>5. ReturnFromExecution(t, state)
  BY DEF ExecutionFails
<1> HIDE DEF state
<1> QED
  BY <1>1, <1>4, <1>5, ReturnEffect DEF ExecutionFails

LEMMA ExecutionReturnsEffect ==
  ASSUME IInv, NEW t \in Tasks, ExecutionReturns(t)
  PROVE  \E mid \in [Runs -> RunStates], s \in Seq(Frames) : Effect(t, mid, s)
<1>1. stack[t] # <<>>
  BY DEF ExecutionReturns, AtAwait
<1>2. Updated(t, run)
  BY <1>1, CallFacts DEF Updated, Touched
<1> QED
  BY <1>1, <1>2, ReturnEffect DEF ExecutionReturns

\* The timers scheduleDelayedEdge arms were off.
LEMMA NewTimersFacts ==
  ASSUME NEW r \in Runs, NEW edges \in SUBSET DOMAIN Edges,
         \A e \in edges : FreeSlots(r, e) # {}
  PROVE  \A q \in NewTimers(r, edges) : q \in DelayedTasks(r) /\ phase[q] = "off"
<1> SUFFICES ASSUME NEW e \in edges
             PROVE  LET q == Delayed(r, e, CHOOSE k \in FreeSlots(r, e) : TRUE)
                    IN  q \in DelayedTasks(r) /\ phase[q] = "off"
  BY DEF NewTimers
<1> DEFINE slot == CHOOSE k \in FreeSlots(r, e) : TRUE
<1>1. slot \in FreeSlots(r, e)
  OBVIOUS
<1> HIDE DEF slot
<1>2. slot \in 1 .. MaxPending /\ phase[Delayed(r, e, slot)] = "off"
  BY <1>1 DEF FreeSlots
<1>3. Delayed(r, e, slot) \in DelayedTasks(r)
  BY <1>2 DEF DelayedTasks
<1> QED
  BY <1>2, <1>3 DEF slot

LEMMA TouchedTwice ==
  ASSUME NEW x, NEW y, NEW z, Touched(x, y), Touched(y, z)
  PROVE  Touched(x, z)
  BY DEF Touched

\* triggerDownstream arms delayed edges and may execute one target.
LEMMA TriggerDownstreamEffect ==
  ASSUME IInv, NEW t \in Tasks, stack[t] # <<>>,
         NEW state, Updated(t, state), NEW i, TriggerDownstream(t, state, i)
  PROVE  \E mid \in [Runs -> RunStates], s \in Seq(Frames) : Effect(t, mid, s)
<1> DEFINE r == t.run
           n == Last(stack[t]).node
           Stacked(pc, e) == Append(Front(stack[t]), Frame(n, pc, e))
<1>1. /\ stack[t] \in Seq(Frames)
      /\ Len(stack[t]) \in Nat \ {0}
      /\ r \in Runs
      /\ n \in Nodes
      /\ phase[t] = "running"
      /\ Busy(r)
  BY CallFacts
<1>2. PICK p \in Plans(n, i) :
        /\ \A e \in p.delay : FreeSlots(r, e) # {}
        /\ phase' = [q \in Tasks |-> IF q \in NewTimers(r, p.delay) THEN "armed" ELSE phase[q]]
        /\ IF p.await = 0
           THEN /\ stack' = [stack EXCEPT ![t] = Stacked("returning", 0)]
                /\ run' = [state EXCEPT ![r] = Tracked(state[r], NewTimers(r, p.delay))]
                /\ UNCHANGED <<activeRun, ending>>
           ELSE ExecuteNode(t, Edges[p.await].target,
                            [state EXCEPT ![r] = Tracked(state[r], NewTimers(r, p.delay))],
                            Stacked("downstream", p.await))
  <2> HIDE DEF n
  <2> QED
    BY DEF TriggerDownstream, n
<1> DEFINE timers == NewTimers(r, p.delay)
           scheduled == [state EXCEPT ![r] = Tracked(state[r], timers)]
<1>3. p.delay \subseteq DOMAIN Edges /\ (p.await # 0 => p.await \in DOMAIN Edges)
  BY DEF Plans, EdgesFrom
<1>4. \A q \in timers : q \in DelayedTasks(r) /\ q \in Tasks /\ phase[q] = "off"
  <2>1. \A q \in timers : q \in DelayedTasks(r) /\ phase[q] = "off"
    BY <1>1, <1>2, <1>3, NewTimersFacts
  <2> QED
    BY <1>1, <2>1, TaskRuns
<1>5. /\ state \in [Runs -> RunStates]
      /\ state[r].activeTimers = run[r].activeTimers
      /\ state[r].activeExecutions = run[r].activeExecutions
      /\ \A q \in Runs \ {r} : state[q] = run[q]
  BY DEF Updated
<1> HIDE DEF timers
<1>6. /\ Tracked(state[r], timers) \in RunStates
      /\ Tracked(state[r], timers).activeTimers = run[r].activeTimers \cup timers
      /\ Tracked(state[r], timers).activeExecutions = run[r].activeExecutions
      /\ Tracked(state[r], timers).nodes = state[r].nodes
  <2>1. state[r] \in RunStates /\ timers \in SUBSET Tasks
    BY <1>1, <1>4, <1>5
  <2> QED
    BY <1>5, <2>1, TrackedFacts
<1>7. /\ scheduled \in [Runs -> RunStates]
      /\ scheduled[r].activeTimers = run[r].activeTimers \cup timers
      /\ scheduled[r].activeExecutions = run[r].activeExecutions
      /\ scheduled[r].nodes = state[r].nodes
      /\ \A q \in Runs \ {r} : scheduled[q] = run[q]
  BY <1>1, <1>5, <1>6
<1>8. /\ phase' \in [Tasks -> Phases]
      /\ \A q \in Tasks : phase'[q] = IF q \in timers THEN "armed" ELSE phase[q]
      /\ phase'[t] = "running"
      /\ \A q \in Tasks : Scheduled(t, q) <=> q \in timers
  <2>1. phase' = [q \in Tasks |-> IF q \in timers THEN "armed" ELSE phase[q]]
    BY <1>2 DEF timers
  <2>2. phase \in [Tasks -> Phases]
    BY DEF IInv, TypeOK, Phases
  <2> QED
    BY <1>1, <1>4, <2>1, <2>2 DEF Phases, Scheduled
<1> HIDE DEF scheduled
\* Whatever happens next, timers and nodes are accounted for.
<1>9. ASSUME NEW mid \in [Runs -> RunStates], NEW s,
             mid[r].activeTimers = scheduled[r].activeTimers
      PROVE  EffectOnTimers(t, mid, s)
  BY <1>1, <1>4, <1>7, <1>8, <1>9 DEF EffectOnTimers
<1>10. \A pc \in {"downstream", "returning"}, e \in Nat :
         /\ Stacked(pc, e) \in Seq(Frames)
         /\ Len(Stacked(pc, e)) = Len(stack[t])
         /\ \A j \in 1 .. Len(stack[t]) : Stacked(pc, e)[j].node = stack[t][j].node
  <2> SUFFICES ASSUME NEW pc \in {"downstream", "returning"}, NEW e \in Nat
               PROVE  /\ Stacked(pc, e) \in Seq(Frames)
                      /\ Len(Stacked(pc, e)) = Len(stack[t])
                      /\ \A j \in 1 .. Len(stack[t]) : Stacked(pc, e)[j].node = stack[t][j].node
    OBVIOUS
  <2>1. Frame(n, pc, e) \in Frames /\ Frame(n, pc, e).node = stack[t][Len(stack[t])].node
    <3>1. n = stack[t][Len(stack[t])].node
      BY <1>1, FrontOfCalls
    <3> QED
      BY <1>1, <3>1 DEF Frame, Frames
  <2>2. /\ Stacked(pc, e) \in Seq(Frames)
        /\ Len(Stacked(pc, e)) = Len(stack[t])
        /\ Stacked(pc, e)[Len(stack[t])] = Frame(n, pc, e)
        /\ \A j \in 1 .. Len(stack[t]) - 1 : Stacked(pc, e)[j] = stack[t][j]
    BY <1>1, <2>1, ReplaceCall
  <2> HIDE DEF Stacked
  <2> QED
    BY <1>1, <2>1, <2>2
<1>11. \A m \in Nodes : Touched(state[r].nodes[m], run[r].nodes[m])
  BY UpdatedNodes
<1>12. \A m \in EntryNodes : t # Pulse(r, m) => state[r].nodes[m] = run[r].nodes[m]
  BY UpdatedNodes
<1>13. CASE p.await = 0
  <2> DEFINE s == Stacked("returning", 0)
  <2>1. run' = scheduled /\ stack' = [stack EXCEPT ![t] = s] /\ UNCHANGED <<activeRun, ending>>
    BY <1>2, <1>13 DEF scheduled, timers
  <2>2. Settled(scheduled)
    BY <2>1 DEF Settled
  <2>3. s \in Seq(Frames) /\ Len(s) = Len(stack[t])
        /\ \A j \in 1 .. Len(s) : s[j].node = stack[t][j].node
    BY <1>10
  <2> HIDE DEF s
  <2>4. EffectOnCalls(t, scheduled, s)
    BY <1>1, <1>7, <2>1, <2>3, ShorterCalls DEF EffectOnCalls
  <2>5. EffectOnTimers(t, scheduled, s)
    BY <1>7, <1>9
  <2>6. EffectOnNodes(t, scheduled)
    BY <1>1, <1>7, <1>8, <1>11, <1>12, CallNodes
  <2>7. Effect(t, scheduled, s)
    BY <1>1, <1>7, <2>2, <2>4, <2>5, <2>6 DEF Effect
  <2> QED
    BY <1>7, <2>3, <2>7
<1>14. CASE p.await # 0
  <2> DEFINE m == Edges[p.await].target
             calls == Stacked("downstream", p.await)
  <2>1. m \in Nodes /\ m \notin EntryNodes
    BY <1>3, <1>14, TargetsNotEntry
  <2>2. p.await \in Nat
    <3>1. DOMAIN Edges = 1 .. Len(Edges) /\ Len(Edges) \in Nat
      BY FlowAssumption, LenProperties
    <3> QED
      BY <1>3, <1>14, <3>1
  <2>3. /\ calls \in Seq(Frames)
        /\ Len(calls) = Len(stack[t])
        /\ \A j \in 1 .. Len(calls) : calls[j].node = stack[t][j].node
    BY <1>10, <2>2
  <2>4. ExecuteNode(t, m, scheduled, calls)
    BY <1>2, <1>14 DEF scheduled, timers
  <2> HIDE DEF m, calls
  <2>5. PICK mid \in [Runs -> RunStates], s \in Seq(Frames) :
          NodeOutcome(t, m, scheduled, calls, mid, s)
    BY <1>1, <1>7, <2>1, <2>3, <2>4, ExecuteNodeOutcome
  <2>6. EffectOnCalls(t, mid, s)
    <3>1. \A j \in 1 .. Len(calls) : calls[j].node \in EntryNodes => t = Pulse(r, calls[j].node)
      <4>1. stack[t] # <<>> /\ Len(calls) <= Len(stack[t])
        BY <1>1, <2>3
      <4> QED
        BY <2>3, <4>1, ShorterCalls
    <3>2. CASE s = calls /\ mid[r].activeExecutions = scheduled[r].activeExecutions
      BY <1>7, <2>3, <2>5, <3>1, <3>2 DEF EffectOnCalls, NodeOutcome
    <3>3. CASE /\ s = Append(calls, Frame(m, "generating", 0))
               /\ Len(calls) < MaxDepth
               /\ mid[r].activeExecutions = scheduled[r].activeExecutions + 1
      <4>1. /\ Len(s) = Len(calls) + 1
            /\ s[Len(calls) + 1].node = m
            /\ \A j \in 1 .. Len(calls) : s[j] = calls[j]
        <5>1. Frame(m, "generating", 0) \in Frames /\ Frame(m, "generating", 0).node = m
          BY <2>1 DEF Frame, Frames
        <5> QED
          BY <2>3, <3>3, <5>1, AppendCall
      <4>2. \A j \in 1 .. Len(s) : s[j].node \in EntryNodes => t = Pulse(r, s[j].node)
        BY <1>1, <2>1, <2>3, <3>1, <4>1
      <4>3. Len(s) <= MaxDepth
        BY <1>1, <2>3, <3>3, <4>1, BoundAssumption
      <4> QED
        BY <1>7, <2>3, <2>5, <3>3, <4>1, <4>2, <4>3 DEF EffectOnCalls, NodeOutcome
    <3> QED
      BY <2>5, <3>2, <3>3 DEF NodeOutcome
  <2>7. EffectOnTimers(t, mid, s)
    BY <1>9, <2>5 DEF NodeOutcome
  <2>8. EffectOnNodes(t, mid)
    <3>1. \A k \in Nodes : Touched(mid[r].nodes[k], run[r].nodes[k])
      <4>1. \A k \in Nodes \ {m} : mid[r].nodes[k] = state[r].nodes[k]
        BY <1>7, <2>5 DEF NodeOutcome
      <4>2. Touched(mid[r].nodes[m], state[r].nodes[m])
        BY <1>7, <2>5 DEF NodeOutcome
      <4>3. Touched(mid[r].nodes[m], run[r].nodes[m])
        BY <1>11, <2>1, <4>2, TouchedTwice
      <4>4. ASSUME NEW k \in Nodes \ {m}
            PROVE  Touched(mid[r].nodes[k], run[r].nodes[k])
        BY <1>11, <4>1
      <4> QED
        BY <4>3, <4>4
    <3>2. \A k \in EntryNodes : t # Pulse(r, k) => mid[r].nodes[k] = run[r].nodes[k]
      <4>1. \A k \in EntryNodes : k \in Nodes \ {m}
        BY <2>1 DEF EntryNodes
      <4> QED
        BY <1>7, <1>12, <2>5, <4>1 DEF NodeOutcome
    <3> QED
      BY <1>1, <1>8, <3>1, <3>2, CallNodes
  <2>9. Effect(t, mid, s)
    BY <1>1, <1>7, <2>5, <2>6, <2>7, <2>8 DEF Effect, NodeOutcome
  <2> QED
    BY <2>5, <2>9
<1> QED
  BY <1>13, <1>14

LEMMA PublishedEffect ==
  ASSUME IInv, NEW t \in Tasks, Published(t)
  PROVE  \E mid \in [Runs -> RunStates], s \in Seq(Frames) : Effect(t, mid, s)
<1> DEFINE n == Last(stack[t]).node
           sent == CountSent(run[t.run], n)
           st == IF AtLimit(t.run, n, sent) THEN "completed" ELSE "idle"
           state == [run EXCEPT ![t.run] = SetStatus(sent, n, st)]
<1>1. stack[t] # <<>> /\ TriggerDownstream(t, state, 1)
  BY DEF Published, AtAwait
<1>2. t.run \in Runs /\ n \in Nodes /\ run \in [Runs -> RunStates]
  BY <1>1, CallFacts
<1>3. /\ sent \in RunStates
      /\ sent.activeTimers = run[t.run].activeTimers
      /\ sent.activeExecutions = run[t.run].activeExecutions
      /\ \A m \in Nodes \ {n} : sent.nodes[m] = run[t.run].nodes[m]
      /\ Touched(sent.nodes[n], run[t.run].nodes[n])
  BY <1>2, CountSentFacts DEF Touched
<1>4. st \in Statuses
  BY DEF Statuses
<1> HIDE DEF sent, st
<1>5. /\ SetStatus(sent, n, st) \in RunStates
      /\ SetStatus(sent, n, st).activeTimers = sent.activeTimers
      /\ SetStatus(sent, n, st).activeExecutions = sent.activeExecutions
      /\ \A m \in Nodes \ {n} : SetStatus(sent, n, st).nodes[m] = sent.nodes[m]
      /\ Touched(SetStatus(sent, n, st).nodes[n], sent.nodes[n])
  BY <1>2, <1>3, <1>4, SetStatusFacts
<1>6. Touched(SetStatus(sent, n, st).nodes[n], run[t.run].nodes[n])
  BY <1>3, <1>5, TouchedTwice
<1>7. Updated(t, state)
  <2>1. /\ state \in [Runs -> RunStates]
        /\ state[t.run] = SetStatus(sent, n, st)
        /\ \A q \in Runs \ {t.run} : state[q] = run[q]
    BY <1>2, <1>5
  <2> HIDE DEF state
  <2> QED
    BY <1>3, <1>5, <1>6, <2>1 DEF Updated
<1> HIDE DEF state
<1> QED
  BY <1>1, <1>7, TriggerDownstreamEffect

LEMMA DownstreamContinuesEffect ==
  ASSUME IInv, NEW t \in Tasks, DownstreamContinues(t)
  PROVE  \E mid \in [Runs -> RunStates], s \in Seq(Frames) : Effect(t, mid, s)
<1>1. stack[t] # <<>> /\ TriggerDownstream(t, run, Last(stack[t]).edge + 1)
  BY DEF DownstreamContinues, AtAwait
<1>2. Updated(t, run)
  BY <1>1, CallFacts DEF Updated, Touched
<1> QED
  BY <1>1, <1>2, TriggerDownstreamEffect

-----------------------------------------------------------------------------
(* The steps of a timer callback outside executeNode.                      *)

\* A step of a pulse outside executeNode changes its own node only.
LEMMA PulseNodes ==
  ASSUME IInv, NEW r \in Runs, NEW n \in Nodes, phase[Pulse(r, n)] # "off",
         NEW mid \in [Runs -> RunStates],
         \A m \in Nodes \ {n} : mid[r].nodes[m] = run[r].nodes[m],
         run[r].nodes[n].completed => mid[r].nodes[n].completed,
         n \in EntryNodes =>
           /\ mid[r].nodes[n].pulseTimer <=> phase'[Pulse(r, n)] = "armed"
           /\ phase'[Pulse(r, n)] # "off" =>
                mid[r].nodes[n].completed \/ mid[r].nodes[n].pulseEnabled
  PROVE  EffectOnNodes(Pulse(r, n), mid)
<1>1. Pulse(r, n).run = r
  BY DEF Pulse
<1>2. EntryNodes # {} => n \in EntryNodes
  BY DEF IInv, OnlyEntryPulses
<1> SUFFICES ASSUME NEW m \in Nodes
             PROVE  LET new == mid[r].nodes[m]
                        old == run[r].nodes[m]
                    IN /\ old.completed => new.completed
                       /\ m \in EntryNodes /\ Pulse(r, n) # Pulse(r, m) =>
                            /\ new.pulseTimer = old.pulseTimer
                            /\ new.pulseEnabled = old.pulseEnabled
                       /\ m \in EntryNodes /\ Pulse(r, n) = Pulse(r, m) =>
                            /\ new.pulseTimer <=> phase'[Pulse(r, n)] = "armed"
                            /\ phase'[Pulse(r, n)] # "off" => new.completed \/ new.pulseEnabled
                       /\ EntryNodes # {} /\ m \notin EntryNodes => ~new.pulseTimer
  BY <1>1 DEF EffectOnNodes
<1>3. CASE m = n
  BY <1>2, <1>3
<1>4. CASE m # n
  <2>1. Pulse(r, n) # Pulse(r, m)
    BY <1>4, PulseInjective
  <2>2. mid[r].nodes[m] = run[r].nodes[m]
    BY <1>4
  <2>3. EntryNodes # {} /\ m \notin EntryNodes => ~run[r].nodes[m].pulseTimer
    BY DEF IInv, OnlyEntryPulses
  <2> QED
    BY <2>1, <2>2, <2>3
<1> QED
  BY <1>3, <1>4

\* The facts every step of a callback outside executeNode starts from.
LEMMA CallbackFacts ==
  ASSUME IInv, NEW t \in Tasks, phase[t] = "armed" \/ stack[t] = <<>>
  PROVE  /\ stack[t] = <<>>
         /\ Len(stack[t]) = 0
         /\ stack = [stack EXCEPT ![t] = <<>>]
         /\ <<>> \in Seq(Frames)
         /\ t.run \in Runs
         /\ t \in TasksOf(t.run)
         /\ run \in [Runs -> RunStates]
         /\ phase \in [Tasks -> Phases]
<1>1. stack[t] = <<>>
  BY DEF IInv, CallsRunning
<1> QED
  BY <1>1, TaskRuns, EmptySeq DEF IInv, TypeOK, Phases

\* A callback step without calls: nothing, or the first call of executeNode.
LEMMA FirstCall ==
  ASSUME IInv, NEW t \in Tasks, stack[t] = <<>>, NEW n \in Nodes,
         n \in EntryNodes => t = Pulse(t.run, n),
         NEW state \in [Runs -> RunStates],
         state[t.run].activeExecutions = run[t.run].activeExecutions,
         NEW mid \in [Runs -> RunStates], NEW s \in Seq(Frames),
         NodeOutcome(t, n, state, <<>>, mid, s)
  PROVE  EffectOnCalls(t, mid, s)
<1>1. CASE s = <<>> /\ mid[t.run].activeExecutions = state[t.run].activeExecutions
  BY <1>1 DEF EffectOnCalls, NodeOutcome
<1>2. CASE /\ s = Append(<<>>, Frame(n, "generating", 0))
           /\ Len(<<>>) < MaxDepth
           /\ mid[t.run].activeExecutions = state[t.run].activeExecutions + 1
  <2>1. Frame(n, "generating", 0) \in Frames /\ Frame(n, "generating", 0).node = n
    BY DEF Frame, Frames
  <2>2. Len(s) = 1 /\ s[1].node = n
    BY <1>2, <2>1, EmptySeq, AppendCall
  <2>3. \A i \in 1 .. Len(s) : s[i].node = n
    BY <2>2
  <2> QED
    BY <1>2, <2>2, <2>3, EmptySeq, BoundAssumption DEF EffectOnCalls, NodeOutcome
<1> QED
  BY <1>1, <1>2 DEF NodeOutcome

\* clearing the handle of a fired pulse timer.
LEMMA FiredFacts ==
  ASSUME NEW r \in Runs, NEW n \in Nodes, run \in [Runs -> RunStates]
  PROVE  /\ Fired(r, n) \in [Runs -> RunStates]
         /\ \A q \in Runs \ {r} : Fired(r, n)[q] = run[q]
         /\ Fired(r, n)[r].activeTimers = run[r].activeTimers
         /\ Fired(r, n)[r].activeExecutions = run[r].activeExecutions
         /\ \A m \in Nodes \ {n} : Fired(r, n)[r].nodes[m] = run[r].nodes[m]
         /\ Fired(r, n)[r].nodes[n].completed = run[r].nodes[n].completed
         /\ Fired(r, n)[r].nodes[n].pulseEnabled = run[r].nodes[n].pulseEnabled
         /\ ~Fired(r, n)[r].nodes[n].pulseTimer
<1> DEFINE node == [run[r].nodes[n] EXCEPT !.pulseTimer = FALSE]
           rs == [run[r] EXCEPT !.nodes = [run[r].nodes EXCEPT ![n] = node]]
<1>1. /\ node \in NodeStates
      /\ node.completed = run[r].nodes[n].completed
      /\ node.pulseEnabled = run[r].nodes[n].pulseEnabled
      /\ ~node.pulseTimer
  <2>1. run[r] \in RunStates
    OBVIOUS
  <2>2. run[r].nodes[n] \in NodeStates
    BY <2>1 DEF RunStates
  <2> QED
    BY <2>2 DEF NodeStates
<1> HIDE DEF node
<1>2. /\ rs \in RunStates
      /\ rs.activeTimers = run[r].activeTimers
      /\ rs.activeExecutions = run[r].activeExecutions
      /\ rs.nodes[n] = node
      /\ \A m \in Nodes \ {n} : rs.nodes[m] = run[r].nodes[m]
  BY <1>1 DEF RunStates
<1>3. Fired(r, n) = [run EXCEPT ![r] = rs]
  <2>1. run[r].nodes[n] \in NodeStates
    BY DEF RunStates
  <2> QED
    BY <2>1 DEF Fired, node, RunStates, NodeStates
<1> HIDE DEF rs
<1> QED
  BY <1>1, <1>2, <1>3

LEMMA PulseFiresEffect ==
  ASSUME IInv, NEW r \in Runs, NEW n \in Nodes, PulseFires(r, n)
  PROVE  \E mid \in [Runs -> RunStates], s \in Seq(Frames) : Effect(Pulse(r, n), mid, s)
<1> DEFINE t == Pulse(r, n)
<1>1. t \in Tasks /\ t.run = r /\ t \notin DelayedTasks(r) /\ phase[t] = "armed"
  BY TaskRuns DEF PulseFires
<1>2. /\ stack[t] = <<>>
      /\ Len(stack[t]) = 0
      /\ stack = [stack EXCEPT ![t] = <<>>]
      /\ <<>> \in Seq(Frames)
      /\ run \in [Runs -> RunStates]
      /\ phase \in [Tasks -> Phases]
  BY <1>1, CallbackFacts
<1>3. Busy(r)
  BY <1>1 DEF Busy, PulseLive
<1> DEFINE state == Fired(r, n)
<1>4. /\ state \in [Runs -> RunStates]
      /\ \A q \in Runs \ {r} : state[q] = run[q]
      /\ state[r].activeTimers = run[r].activeTimers
      /\ state[r].activeExecutions = run[r].activeExecutions
      /\ \A m \in Nodes \ {n} : state[r].nodes[m] = run[r].nodes[m]
      /\ state[r].nodes[n].completed = run[r].nodes[n].completed
      /\ state[r].nodes[n].pulseEnabled = run[r].nodes[n].pulseEnabled
      /\ ~state[r].nodes[n].pulseTimer
  BY <1>2, FiredFacts
<1>5. ASSUME n \in EntryNodes
      PROVE  run[r].nodes[n].completed \/ run[r].nodes[n].pulseEnabled
  BY <1>1, <1>5 DEF IInv, EntryPulses
\* In both branches the node is touched once and its timer has fired.
<1>6. ASSUME NEW mid \in [Runs -> RunStates], NEW s,
             \A m \in Nodes \ {n} : mid[r].nodes[m] = state[r].nodes[m],
             Touched(mid[r].nodes[n], state[r].nodes[n]),
             mid[r].activeTimers = state[r].activeTimers,
             \/ phase' = [phase EXCEPT ![t] = "off"] /\ s = <<>>
             \/ phase' = [phase EXCEPT ![t] = "running"]
      PROVE  EffectOnNodes(t, mid) /\ EffectOnTimers(t, mid, s)
  <2>1. phase'[t] # "armed" /\ phase' \in [Tasks -> Phases]
        /\ \A q \in Tasks \ {t} : phase'[q] = phase[q]
    BY <1>1, <1>2, <1>6 DEF Phases
  <2>2. EffectOnTimers(t, mid, s)
    BY <1>1, <1>2, <1>4, <1>6, <2>1 DEF EffectOnTimers, Scheduled
  <2>3. ~mid[r].nodes[n].pulseTimer
    BY <1>4, <1>6 DEF Touched
  <2>4. \A m \in Nodes \ {n} : mid[r].nodes[m] = run[r].nodes[m]
    BY <1>4, <1>6
  <2>5. run[r].nodes[n].completed => mid[r].nodes[n].completed
    BY <1>4, <1>6 DEF Touched
  <2>6. n \in EntryNodes => mid[r].nodes[n].completed \/ mid[r].nodes[n].pulseEnabled
    BY <1>4, <1>5, <1>6 DEF Touched
  <2>7. phase[t] # "off"
    BY <1>1
  <2> HIDE DEF t
  <2> QED
    BY <2>1, <2>2, <2>3, <2>4, <2>5, <2>6, <2>7, PulseNodes DEF t
<1>7. CASE /\ AtLimit(r, n, run[r])
           /\ phase' = [phase EXCEPT ![t] = "off"]
           /\ MaybeFinalize([Fired(r, n) EXCEPT ![r] = SetStatus(@, n, "completed")])
           /\ UNCHANGED stack
  <2> DEFINE mid == [state EXCEPT ![r] = SetStatus(state[r], n, "completed")]
  <2> HIDE DEF state
  <2>1. /\ SetStatus(state[r], n, "completed") \in RunStates
        /\ SetStatus(state[r], n, "completed").activeTimers = state[r].activeTimers
        /\ SetStatus(state[r], n, "completed").activeExecutions = state[r].activeExecutions
        /\ \A m \in Nodes \ {n} :
             SetStatus(state[r], n, "completed").nodes[m] = state[r].nodes[m]
        /\ Touched(SetStatus(state[r], n, "completed").nodes[n], state[r].nodes[n])
    BY <1>4, SetStatusFacts DEF Statuses
  <2>2. /\ mid \in [Runs -> RunStates]
        /\ mid[r] = SetStatus(state[r], n, "completed")
        /\ \A q \in Runs \ {r} : mid[q] = run[q]
    BY <1>4, <2>1
  <2>3. Settled(mid)
    BY <1>7, MaybeFinalizeSettles DEF state
  <2> HIDE DEF mid
  <2>4. EffectOnNodes(t, mid) /\ EffectOnTimers(t, mid, <<>>)
    BY <1>6, <1>7, <2>1, <2>2
  <2>5. EffectOnCalls(t, mid, <<>>)
    BY <1>1, <1>2, <1>4, <1>7, <2>1, <2>2, EmptySeq DEF EffectOnCalls
  <2>6. Effect(t, mid, <<>>)
    BY <1>1, <1>3, <2>2, <2>3, <2>4, <2>5 DEF Effect
  <2> QED
    BY <1>2, <2>2, <2>6
<1>8. CASE /\ ~AtLimit(r, n, run[r])
           /\ phase' = [phase EXCEPT ![t] = "running"]
           /\ ExecuteNode(t, n, Fired(r, n), <<>>)
  <2>1. PICK mid \in [Runs -> RunStates], s \in Seq(Frames) :
          NodeOutcome(t, n, state, <<>>, mid, s)
    BY <1>1, <1>2, <1>4, <1>8, ExecuteNodeOutcome
  <2> HIDE DEF state
  <2>2. EffectOnNodes(t, mid) /\ EffectOnTimers(t, mid, s)
    BY <1>1, <1>6, <1>8, <2>1 DEF NodeOutcome
  <2>3. EffectOnCalls(t, mid, s)
    <3> HIDE DEF t
    <3> QED
      BY <1>1, <1>2, <1>4, <2>1, FirstCall DEF t
  <2>4. Settled(mid) /\ \A q \in Runs \ {r} : mid[q] = run[q]
    BY <1>1, <1>4, <2>1 DEF NodeOutcome
  <2>5. Effect(t, mid, s)
    BY <1>1, <1>3, <2>2, <2>3, <2>4 DEF Effect
  <2> QED
    BY <2>5
<1> QED
  BY <1>7, <1>8 DEF PulseFires

\* A pulse that ends, or arms its timer again.
LEMMA PulseReturnsEffect ==
  ASSUME IInv, NEW r \in Runs, NEW n \in Nodes, PulseReturns(r, n)
  PROVE  \E mid \in [Runs -> RunStates], s \in Seq(Frames) : Effect(Pulse(r, n), mid, s)
<1> DEFINE t == Pulse(r, n)
<1>1. /\ t \in Tasks /\ t.run = r /\ t \notin DelayedTasks(r)
      /\ phase[t] = "running" /\ stack[t] = <<>> /\ UNCHANGED stack
  BY TaskRuns DEF PulseReturns
<1>2. /\ Len(stack[t]) = 0
      /\ stack = [stack EXCEPT ![t] = <<>>]
      /\ <<>> \in Seq(Frames)
      /\ run \in [Runs -> RunStates]
      /\ phase \in [Tasks -> Phases]
  BY <1>1, CallbackFacts
<1>3. ASSUME n \in EntryNodes
      PROVE  /\ ~run[r].nodes[n].pulseTimer
             /\ run[r].nodes[n].completed \/ run[r].nodes[n].pulseEnabled
  BY <1>1, <1>3 DEF IInv, EntryPulses
<1>4. ASSUME NEW mid, mid[r].activeExecutions = run[r].activeExecutions
      PROVE  EffectOnCalls(t, mid, <<>>)
  BY <1>1, <1>2, <1>4, EmptySeq DEF EffectOnCalls
<1>5. CASE PulseEnds(r, n)
  <2>1. phase' = [phase EXCEPT ![t] = "off"] /\ MaybeFinalize(run)
    BY <1>5 DEF PulseReturns
  <2>2. /\ phase' \in [Tasks -> Phases] /\ phase'[t] = "off"
        /\ \A q \in Tasks \ {t} : phase'[q] = phase[q]
    BY <1>1, <1>2, <2>1 DEF Phases
  <2>3. EffectOnNodes(t, run)
    <3> HIDE DEF t
    <3> QED
      BY <1>1, <1>2, <1>3, <2>2, PulseNodes DEF t
  <2>4. EffectOnTimers(t, run, <<>>)
    BY <1>1, <2>2 DEF EffectOnTimers, Scheduled
  <2>5. Effect(t, run, <<>>)
    BY <1>1, <1>4, <2>1, <2>2, <2>3, <2>4, MaybeFinalizeSettles DEF Effect
  <2> QED
    BY <1>2, <2>5
<1>6. CASE ~PulseEnds(r, n)
  <2> DEFINE node == [run[r].nodes[n] EXCEPT !.pulseTimer = TRUE]
             rs == [run[r] EXCEPT !.nodes = [run[r].nodes EXCEPT ![n] = node]]
  <2>1. /\ phase' = [phase EXCEPT ![t] = "armed"]
        /\ run' = [run EXCEPT ![r].nodes[n].pulseTimer = TRUE]
        /\ UNCHANGED <<activeRun, ending>>
        /\ ~run[r].nodes[n].completed
    BY <1>6 DEF PulseReturns, PulseEnds
  <2>2. run[r] \in RunStates /\ run[r].nodes[n] \in NodeStates
    BY <1>2 DEF RunStates
  <2>3. /\ node \in NodeStates
        /\ node.completed = run[r].nodes[n].completed
        /\ node.pulseEnabled = run[r].nodes[n].pulseEnabled
        /\ node.pulseTimer
    BY <2>2 DEF NodeStates
  <2>4. run' = [run EXCEPT ![r] = rs]
    BY <1>2, <2>1
  <2> HIDE DEF node
  <2>5. /\ rs \in RunStates
        /\ rs.activeTimers = run[r].activeTimers
        /\ rs.activeExecutions = run[r].activeExecutions
        /\ rs.nodes[n] = node
        /\ \A m \in Nodes \ {n} : rs.nodes[m] = run[r].nodes[m]
    BY <2>2, <2>3 DEF RunStates
  <2> HIDE DEF rs
  <2>6. /\ run' \in [Runs -> RunStates]
        /\ run'[r] = rs
        /\ \A q \in Runs \ {r} : run'[q] = run[q]
    BY <1>2, <2>4, <2>5
  <2>7. /\ phase' \in [Tasks -> Phases] /\ phase'[t] = "armed"
        /\ \A q \in Tasks \ {t} : phase'[q] = phase[q]
    BY <1>1, <1>2, <2>1 DEF Phases
  <2>8. EffectOnNodes(t, run')
    <3>1. n \in EntryNodes => run[r].nodes[n].pulseEnabled
      BY <1>3, <2>1
    <3>2. /\ \A m \in Nodes \ {n} : run'[r].nodes[m] = run[r].nodes[m]
          /\ ~run[r].nodes[n].completed
          /\ run'[r].nodes[n].pulseTimer
          /\ run'[r].nodes[n].pulseEnabled = run[r].nodes[n].pulseEnabled
      BY <2>1, <2>3, <2>5, <2>6
    <3>3. phase[t] # "off"
      BY <1>1
    <3> HIDE DEF t
    <3> QED
      BY <2>6, <2>7, <3>1, <3>2, <3>3, PulseNodes DEF t
  <2>9. EffectOnTimers(t, run', <<>>)
    BY <1>1, <2>5, <2>6, <2>7 DEF EffectOnTimers, Scheduled
  <2>10. EffectOnCalls(t, run', <<>>)
    BY <1>4, <2>5, <2>6
  <2>11. Busy(r)
    BY <1>1, <2>1 DEF Busy, PulseLive
  <2>12. Settled(run')
    BY <2>1 DEF Settled
  <2>13. Effect(t, run', <<>>)
    BY <1>1, <2>6, <2>8, <2>9, <2>10, <2>11, <2>12 DEF Effect
  <2> QED
    BY <1>2, <2>6, <2>13
<1> QED
  BY <1>5, <1>6

\* The node a delayed edge executes is not an entry node.
LEMMA DelayedRoot ==
  ASSUME NEW r \in Runs, NEW t \in DelayedTasks(r)
  PROVE  RootNode(t) \in Nodes /\ RootNode(t) \notin EntryNodes
<1>1. PICK e \in DOMAIN Edges, k \in 1 .. MaxPending : t = Delayed(r, e, k)
  BY DEF DelayedTasks
<1>2. RootNode(t) = Edges[e].target
  BY <1>1 DEF RootNode, Delayed
<1> QED
  BY <1>2, TargetsNotEntry

\* The callback of a delayed edge changes no entry node.
LEMMA DelayedNodes ==
  ASSUME IInv, NEW r \in Runs, NEW t \in DelayedTasks(r),
         NEW mid \in [Runs -> RunStates], NEW n \in Nodes, n \notin EntryNodes,
         \A m \in Nodes \ {n} : mid[r].nodes[m] = run[r].nodes[m],
         Touched(mid[r].nodes[n], run[r].nodes[n])
  PROVE  EffectOnNodes(t, mid)
<1>1. t.run = r /\ \A m \in Nodes : t # Pulse(r, m)
  BY TaskRuns
<1> SUFFICES ASSUME NEW m \in Nodes
             PROVE  LET new == mid[r].nodes[m]
                        old == run[r].nodes[m]
                    IN /\ old.completed => new.completed
                       /\ m \in EntryNodes =>
                            /\ new.pulseTimer = old.pulseTimer
                            /\ new.pulseEnabled = old.pulseEnabled
                       /\ EntryNodes # {} /\ m \notin EntryNodes => ~new.pulseTimer
  BY <1>1 DEF EffectOnNodes
<1>2. EntryNodes # {} /\ m \notin EntryNodes => ~run[r].nodes[m].pulseTimer
  BY DEF IInv, OnlyEntryPulses
<1> QED
  BY <1>2 DEF Touched

LEMMA DelayedFiresEffect ==
  ASSUME IInv, NEW t \in Tasks, t.kind = "delayed", DelayedFires(t)
  PROVE  \E mid \in [Runs -> RunStates], s \in Seq(Frames) : Effect(t, mid, s)
<1> DEFINE n == RootNode(t)
<1>1. /\ t.run \in Runs /\ t \in DelayedTasks(t.run)
      /\ phase[t] = "armed"
      /\ n \in Nodes /\ n \notin EntryNodes
  BY TaskRuns, DelayedRoot DEF DelayedFires
<1>2. /\ stack[t] = <<>>
      /\ <<>> \in Seq(Frames)
      /\ run \in [Runs -> RunStates]
      /\ phase \in [Tasks -> Phases]
  BY <1>1, CallbackFacts
<1> HIDE DEF n
<1>3. PICK mid \in [Runs -> RunStates], s \in Seq(Frames) : NodeOutcome(t, n, run, <<>>, mid, s)
  BY <1>1, <1>2, ExecuteNodeOutcome DEF DelayedFires, n
<1>4. EffectOnCalls(t, mid, s)
  BY <1>1, <1>2, <1>3, FirstCall
<1>5. EffectOnTimers(t, mid, s)
  <2>1. phase' = [phase EXCEPT ![t] = "running"]
    BY DEF DelayedFires
  <2>2. /\ phase' \in [Tasks -> Phases] /\ phase'[t] = "running"
        /\ \A q \in Tasks \ {t} : phase'[q] = phase[q]
    BY <1>2, <2>1 DEF Phases
  <2> QED
    BY <1>1, <1>3, <2>2 DEF EffectOnTimers, Scheduled, NodeOutcome
<1>6. EffectOnNodes(t, mid)
  BY <1>1, <1>3, DelayedNodes DEF NodeOutcome
<1>7. Busy(t.run)
  BY <1>1 DEF Busy
<1>8. Effect(t, mid, s)
  BY <1>3, <1>4, <1>5, <1>6, <1>7 DEF Effect, NodeOutcome
<1> QED
  BY <1>8

LEMMA DelayedReturnsEffect ==
  ASSUME IInv, NEW t \in Tasks, t.kind = "delayed", DelayedReturns(t)
  PROVE  \E mid \in [Runs -> RunStates], s \in Seq(Frames) : Effect(t, mid, s)
<1> DEFINE rs == [run[t.run] EXCEPT !.activeTimers = @ \ {t}]
           mid == [run EXCEPT ![t.run] = rs]
<1>1. /\ t.run \in Runs /\ t \in DelayedTasks(t.run)
      /\ phase[t] = "running" /\ stack[t] = <<>> /\ UNCHANGED stack
  BY TaskRuns DEF DelayedReturns
<1>2. /\ Len(stack[t]) = 0
      /\ stack = [stack EXCEPT ![t] = <<>>]
      /\ <<>> \in Seq(Frames)
      /\ run \in [Runs -> RunStates]
      /\ phase \in [Tasks -> Phases]
  BY <1>1, CallbackFacts
<1>3. /\ rs \in RunStates
      /\ rs.activeTimers = run[t.run].activeTimers \ {t}
      /\ rs.activeExecutions = run[t.run].activeExecutions
      /\ rs.nodes = run[t.run].nodes
  <2>1. run[t.run] \in RunStates
    BY <1>1, <1>2
  <2> QED
    BY <2>1 DEF RunStates
<1>4. Settled(mid)
  BY MaybeFinalizeSettles DEF DelayedReturns
<1> HIDE DEF rs
<1>5. /\ mid \in [Runs -> RunStates]
      /\ mid[t.run] = rs
      /\ \A q \in Runs \ {t.run} : mid[q] = run[q]
  BY <1>1, <1>2, <1>3
<1> HIDE DEF mid
<1>6. EffectOnCalls(t, mid, <<>>)
  BY <1>1, <1>2, <1>3, <1>5, EmptySeq DEF EffectOnCalls
<1>7. EffectOnTimers(t, mid, <<>>)
  <2>1. phase' = [phase EXCEPT ![t] = "off"]
    BY DEF DelayedReturns
  <2>2. /\ phase' \in [Tasks -> Phases] /\ phase'[t] = "off"
        /\ \A q \in Tasks \ {t} : phase'[q] = phase[q]
    BY <1>2, <2>1 DEF Phases
  <2> QED
    BY <1>1, <1>3, <1>5, <2>2 DEF EffectOnTimers, Scheduled
<1>8. EffectOnNodes(t, mid)
  <2>1. RootNode(t) \in Nodes /\ RootNode(t) \notin EntryNodes
    BY <1>1, DelayedRoot
  <2>2. \A m \in Nodes : mid[t.run].nodes[m] = run[t.run].nodes[m]
    BY <1>3, <1>5
  <2> QED
    BY <1>1, <1>5, <2>1, <2>2, DelayedNodes DEF Touched
<1>9. Busy(t.run)
  BY <1>1 DEF Busy
<1>10. Effect(t, mid, <<>>)
  BY <1>4, <1>5, <1>6, <1>7, <1>8, <1>9 DEF Effect
<1> QED
  BY <1>2, <1>5, <1>10

\* Every step of a task has such an effect.
LEMMA TaskStepEffect ==
  ASSUME IInv, NEW t \in Tasks, TaskStep(t)
  PROVE  \E mid \in [Runs -> RunStates], s \in Seq(Frames) : Effect(t, mid, s)
<1>1. CASE CallStep(t)
  BY <1>1, GeneratedEffect, ExecutionFailsEffect, PublishedEffect,
     DownstreamContinuesEffect, ExecutionReturnsEffect DEF CallStep
<1>2. ASSUME NEW n \in Nodes, t = Pulse(t.run, n), PulseFires(t.run, n) \/ PulseReturns(t.run, n)
      PROVE  \E mid \in [Runs -> RunStates], s \in Seq(Frames) : Effect(t, mid, s)
  <2>1. t.run \in Runs
    BY TaskRuns
  <2>2. \E mid \in [Runs -> RunStates], s \in Seq(Frames) : Effect(Pulse(t.run, n), mid, s)
    BY <1>2, <2>1, PulseFiresEffect, PulseReturnsEffect
  <2> QED
    BY <1>2, <2>2
<1>3. CASE t.kind = "delayed" /\ (DelayedFires(t) \/ DelayedReturns(t))
  BY <1>3, DelayedFiresEffect, DelayedReturnsEffect
<1> QED
  BY <1>1, <1>2, <1>3 DEF TaskStep

-----------------------------------------------------------------------------
(* The invariant is inductive.                                             *)

\* The counter of a run follows the number of its calls.
LEMMA CallsChange ==
  ASSUME IInv, NEW t \in Tasks, NEW mid \in [Runs -> RunStates], NEW s \in Seq(Frames),
         EffectOnCalls(t, mid, s),
         \A q \in Runs \ {t.run} : mid[q] = run[q]
  PROVE  \A r \in Runs : /\ IsFiniteSet(Calls(r)')
                         /\ mid[r].activeExecutions = Cardinality(Calls(r)')
<1>1. /\ stack \in [Tasks -> Seq(Frames)]
      /\ \A q \in Tasks : Len(stack[q]) \in Nat /\ Len(stack[q]) <= MaxDepth
      /\ Len(s) \in Nat
      /\ MaxDepth \in Nat
      /\ t.run \in Runs /\ t \in TasksOf(t.run)
      /\ \A r \in Runs : \A q \in TasksOf(r) : q \in Tasks /\ q.run = r
      /\ \A r \in Runs : IsFiniteSet(Calls(r)) /\ run[r].activeExecutions = Cardinality(Calls(r))
      /\ \A r \in Runs : Cardinality(Calls(r)) \in Nat
  <2>1. /\ stack \in [Tasks -> Seq(Frames)]
        /\ \A r \in Runs : IsFiniteSet(Calls(r)) /\ run[r].activeExecutions = Cardinality(Calls(r))
    BY DEF IInv, TypeOK, CallsFinite, ExecutionsCounted
  <2> QED
    BY <2>1, TaskRuns, LenProperties, BoundAssumption, FS_CardinalityType DEF IInv, DepthBounded
<1>2. stack' = [stack EXCEPT ![t] = s]
  BY DEF EffectOnCalls
<1>3. /\ stack'[t] = s
      /\ \A q \in Tasks \ {t} : stack'[q] = stack[q]
  BY <1>1, <1>2
<1> DEFINE CallsAfter(r) == {c \in TasksOf(r) \X (1 .. MaxDepth) : c[2] <= Len(stack'[c[1]])}
<1>4. \A r \in Runs : Calls(r)' = CallsAfter(r)
  BY DEF Calls
<1>5. ASSUME NEW r \in Runs \ {t.run}
      PROVE  CallsAfter(r) = Calls(r)
  <2>1. \A q \in TasksOf(r) : stack'[q] = stack[q]
    BY <1>1, <1>3
  <2> QED
    BY <2>1 DEF Calls
<1> DEFINE r == t.run
           Counted(q) == /\ IsFiniteSet(CallsAfter(q))
                         /\ mid[q].activeExecutions = Cardinality(CallsAfter(q))
<1>6. ASSUME Len(s) = Len(stack[t]),
             mid[r].activeExecutions = run[r].activeExecutions
      PROVE  Counted(r)
  <2>1. \A q \in TasksOf(r) : Len(stack'[q]) = Len(stack[q])
    BY <1>1, <1>3, <1>6
  <2>2. CallsAfter(r) = Calls(r)
    BY <2>1 DEF Calls
  <2> QED
    BY <1>1, <1>6, <2>2
<1>7. ASSUME Len(s) = Len(stack[t]) + 1,
             Len(s) <= MaxDepth,
             mid[r].activeExecutions = run[r].activeExecutions + 1
      PROVE  Counted(r)
  <2> DEFINE new == <<t, Len(s)>>
  <2>1. \A q \in TasksOf(r) : q # t => stack'[q] = stack[q]
    BY <1>1, <1>3
  <2>2. CallsAfter(r) = Calls(r) \cup {new}
    <3>1. ASSUME NEW q \in TasksOf(r), NEW d \in 1 .. MaxDepth
          PROVE  <<q, d>> \in CallsAfter(r) <=> <<q, d>> \in Calls(r) \cup {new}
      <4>1. CASE q = t
        BY <1>1, <1>3, <1>7, <4>1 DEF Calls
      <4>2. CASE q # t
        BY <2>1, <4>2 DEF Calls
      <4> QED
        BY <4>1, <4>2
    <3>2. new \in TasksOf(r) \X (1 .. MaxDepth)
      BY <1>1, <1>7
    <3> QED
      BY <3>1, <3>2 DEF Calls
  <2>3. new \notin Calls(r)
    BY <1>1, <1>7 DEF Calls
  <2>4. /\ IsFiniteSet(Calls(r) \cup {new})
        /\ Cardinality(Calls(r) \cup {new}) = Cardinality(Calls(r)) + 1
    BY <1>1, <2>3, FS_AddElement
  <2> QED
    BY <1>1, <1>7, <2>2, <2>4
<1>8. ASSUME Len(s) + 1 = Len(stack[t]),
             mid[r].activeExecutions =
               IF run[r].activeExecutions > 0 THEN run[r].activeExecutions - 1 ELSE 0
      PROVE  Counted(r)
  <2> DEFINE old == <<t, Len(stack[t])>>
  <2>1. \A q \in TasksOf(r) : q # t => stack'[q] = stack[q]
    BY <1>1, <1>3
  <2>2. CallsAfter(r) = Calls(r) \ {old}
    <3>1. ASSUME NEW q \in TasksOf(r), NEW d \in 1 .. MaxDepth
          PROVE  <<q, d>> \in CallsAfter(r) <=> <<q, d>> \in Calls(r) \ {old}
      <4>1. CASE q = t
        BY <1>1, <1>3, <1>8, <4>1 DEF Calls
      <4>2. CASE q # t
        BY <2>1, <4>2 DEF Calls
      <4> QED
        BY <4>1, <4>2
    <3> QED
      BY <3>1 DEF Calls
  <2>3. old \in Calls(r)
    BY <1>1, <1>8 DEF Calls
  <2>4. /\ IsFiniteSet(Calls(r) \ {old})
        /\ Cardinality(Calls(r) \ {old}) = Cardinality(Calls(r)) - 1
    BY <1>1, <2>3, FS_RemoveElement
  <2>5. Cardinality(Calls(r)) > 0
    BY <1>1, <2>3, <2>4, FS_CardinalityType
  <2> QED
    BY <1>1, <1>8, <2>2, <2>4, <2>5
<1>9. Counted(r)
  BY <1>6, <1>7, <1>8 DEF EffectOnCalls
<1>10. ASSUME NEW q \in Runs \ {r}
       PROVE  Counted(q)
  <2>1. CallsAfter(q) = Calls(q) /\ mid[q] = run[q]
    BY <1>5, <1>10
  <2> QED
    BY <1>1, <1>10, <2>1
<1> HIDE DEF CallsAfter
<1> QED
  BY <1>4, <1>9, <1>10

\* Steps of a task preserve the invariant.
LEMMA TaskStepInv ==
  ASSUME IInv, NEW t \in Tasks, TaskStep(t)
  PROVE  IInv'
<1>1. PICK mid \in [Runs -> RunStates], s \in Seq(Frames) : Effect(t, mid, s)
  BY TaskStepEffect
<1>2. UNCHANGED elapsed
  BY DEF TaskStep, CallStep, Generated, ExecutionFails, Published, DownstreamContinues,
     ExecutionReturns, PulseFires, PulseReturns, DelayedFires, DelayedReturns
<1>3. TypeOK
  BY DEF IInv
<1>4. /\ t.run \in Runs /\ t \in TasksOf(t.run)
      /\ \A r \in Runs : \A q \in TasksOf(r) : q \in Tasks /\ q.run = r
      /\ \A r \in Runs : \A q \in DelayedTasks(r) : q \in Tasks /\ q.run = r
      /\ \A r \in Runs, n \in Nodes :
           /\ Pulse(r, n) \in Tasks /\ Pulse(r, n).run = r
           /\ Pulse(r, n) \notin DelayedTasks(r)
  BY TaskRuns
<1>5. /\ run' \in [Runs -> RunStates]
      /\ activeRun' \in 0 .. MaxRuns
      /\ ending' \in [Runs -> {"new", "running", "finalised", "stopped", "replaced"}]
      /\ \A r \in Runs :
           /\ run'[r].activeExecutions = mid[r].activeExecutions
           /\ run'[r].activeTimers = mid[r].activeTimers
           /\ \A n \in Nodes :
                /\ run'[r].nodes[n].pulseTimer = mid[r].nodes[n].pulseTimer
                /\ run'[r].nodes[n].pulseEnabled = mid[r].nodes[n].pulseEnabled
                /\ mid[r].nodes[n].completed => run'[r].nodes[n].completed
  BY <1>1, <1>3, SettledFacts DEF Effect
<1>6. /\ EffectOnCalls(t, mid, s)
      /\ EffectOnTimers(t, mid, s)
      /\ EffectOnNodes(t, mid)
      /\ \A q \in Runs \ {t.run} : mid[q] = run[q]
      /\ stack' = [stack EXCEPT ![t] = s]
  BY <1>1 DEF Effect, EffectOnCalls
<1>7. /\ stack'[t] = s
      /\ \A q \in Tasks \ {t} : stack'[q] = stack[q]
      /\ stack' \in [Tasks -> Seq(Frames)]
  BY <1>3, <1>6 DEF TypeOK
\* Other runs keep their timers; a run's end is its only change of state.
<1>8. /\ \A r \in Runs \ {t.run} : \A q \in TasksOf(r) : q # t /\ phase'[q] = phase[q]
      /\ \A q \in Tasks \ {t} : phase'[q] = phase[q] \/ Scheduled(t, q)
      /\ phase[t] # "off"
  BY <1>4, <1>6 DEF EffectOnTimers, Scheduled
<1>9. \/ UNCHANGED <<activeRun, ending>>
      \/ /\ activeRun \in Runs /\ activeRun' = 0
         /\ Quiet(mid[activeRun])
         /\ ending' = [ending EXCEPT ![activeRun] = "finalised"]
  BY <1>1, <1>3 DEF Effect, Settled, TypeOK, Runs
<1>10. TypeOK'
  BY <1>2, <1>3, <1>5, <1>6, <1>7 DEF TypeOK, EffectOnTimers, Phases
<1>11. ActiveRunning'
  <2>1. CASE UNCHANGED <<activeRun, ending>>
    BY <2>1 DEF IInv, ActiveRunning
  <2>2. CASE activeRun \in Runs /\ activeRun' = 0
             /\ ending' = [ending EXCEPT ![activeRun] = "finalised"]
    <3> SUFFICES ASSUME NEW r \in Runs
                 PROVE  ending'[r] = "running" <=> activeRun' = r
      BY DEF ActiveRunning
    <3>1. r # 0
      BY DEF Runs
    <3>2. ending'[r] # "running"
      BY <1>3, <2>2 DEF IInv, ActiveRunning, TypeOK
    <3> QED
      BY <2>2, <3>1, <3>2
  <2> QED
    BY <1>9, <2>1, <2>2
<1>12. NewIdle'
  <2> SUFFICES ASSUME NEW r \in Runs, ending'[r] = "new", NEW q \in TasksOf(r)
               PROVE  phase'[q] = "off"
    BY DEF NewIdle
  <2>1. ending[r] = "new"
    BY <1>3, <1>9 DEF TypeOK
  <2>2. r # t.run /\ phase[q] = "off"
    BY <1>4, <1>8, <2>1 DEF IInv, NewIdle
  <2> QED
    BY <1>8, <2>2
<1>13. CallsRunning'
  <2> SUFFICES ASSUME NEW q \in Tasks, phase'[q] # "running"
               PROVE  stack'[q] = <<>>
    BY DEF CallsRunning
  <2>1. CASE q = t
    BY <1>6, <1>7, <2>1 DEF EffectOnTimers
  <2>2. CASE q # t
    BY <1>7, <1>8, <2>2 DEF IInv, CallsRunning, Scheduled
  <2> QED
    BY <2>1, <2>2
<1>14. DepthBounded'
  <2> SUFFICES ASSUME NEW q \in Tasks
               PROVE  Len(stack'[q]) <= MaxDepth
    BY DEF DepthBounded
  <2>1. CASE q = t
    <3>1. Len(stack[t]) \in Nat /\ Len(stack[t]) <= MaxDepth /\ MaxDepth \in Nat /\ Len(s) \in Nat
      BY <1>3, LenProperties, BoundAssumption DEF IInv, DepthBounded, TypeOK
    <3> QED
      BY <1>6, <1>7, <2>1, <3>1 DEF EffectOnCalls
  <2>2. CASE q # t
    BY <1>7, <2>2 DEF IInv, DepthBounded
  <2> QED
    BY <2>1, <2>2
<1>15. CallsFinite' /\ ExecutionsCounted'
  <2>1. \A r \in Runs : /\ IsFiniteSet(Calls(r)')
                        /\ run'[r].activeExecutions = Cardinality(Calls(r)')
    BY <1>5, <1>6, CallsChange
  <2> QED
    BY <2>1 DEF CallsFinite, ExecutionsCounted
<1>16. LiveTracked'
  <2> SUFFICES ASSUME NEW r \in Runs, NEW q \in DelayedTasks(r), phase'[q] # "off"
               PROVE  q \in run'[r].activeTimers
    BY DEF LiveTracked
  <2>1. CASE r = t.run
    <3>1. CASE q = t
      BY <1>4, <1>5, <1>6, <1>8, <2>1, <3>1 DEF IInv, LiveTracked, EffectOnTimers
    <3>2. CASE q # t
      BY <1>4, <1>5, <1>6, <1>8, <2>1, <3>2 DEF IInv, LiveTracked, EffectOnTimers
    <3> QED
      BY <3>1, <3>2
  <2>2. CASE r # t.run
    <3>1. phase'[q] = phase[q]
      BY <1>8, <2>2 DEF TasksOf
    <3> QED
      BY <1>5, <1>6, <2>2, <3>1 DEF IInv, LiveTracked
  <2> QED
    BY <2>1, <2>2
<1>17. TimersTracked'
  <2> SUFFICES ASSUME NEW r \in Runs, ending'[r] # "stopped"
               PROVE  run'[r].activeTimers = {q \in DelayedTasks(r) : phase'[q] # "off"}
    BY DEF TimersTracked
  <2>1. run[r].activeTimers = {q \in DelayedTasks(r) : phase[q] # "off"}
    <3>1. ending[r] # "stopped"
      BY <1>3, <1>9 DEF TypeOK, IInv, ActiveRunning
    <3> QED
      BY <3>1 DEF IInv, TimersTracked
  <2>2. CASE r = t.run
    <3>1. mid[r].activeTimers \subseteq Tasks
      BY <2>2 DEF RunStates
    <3>2. ASSUME NEW q \in Tasks
          PROVE  q \in mid[r].activeTimers <=> q \in DelayedTasks(r) /\ phase'[q] # "off"
      <4>1. CASE q = t
        BY <1>6, <1>8, <2>1, <2>2, <4>1 DEF EffectOnTimers
      <4>2. CASE q # t
        BY <1>6, <1>8, <2>1, <2>2, <4>2 DEF EffectOnTimers, Scheduled
      <4> QED
        BY <4>1, <4>2
    <3> QED
      BY <1>4, <1>5, <3>1, <3>2
  <2>3. CASE r # t.run
    <3>1. \A q \in DelayedTasks(r) : phase'[q] = phase[q]
      BY <1>8, <2>3 DEF TasksOf
    <3> QED
      BY <1>5, <1>6, <2>1, <2>3, <3>1
  <2> QED
    BY <2>2, <2>3
<1>18. EntryCalls'
  <2> SUFFICES ASSUME NEW q \in Tasks, NEW i \in 1 .. Len(stack'[q]),
                      stack'[q][i].node \in EntryNodes
               PROVE  q = Pulse(q.run, stack'[q][i].node)
    BY DEF EntryCalls, EntryNodes
  <2>1. CASE q = t
    BY <1>6, <1>7, <2>1 DEF EffectOnCalls
  <2>2. CASE q # t
    BY <1>7, <2>2 DEF IInv, EntryCalls
  <2> QED
    BY <2>1, <2>2
<1>19. EntryPulses'
  <2> SUFFICES ASSUME NEW r \in Runs, NEW n \in EntryNodes
               PROVE  /\ phase'[Pulse(r, n)] = "armed" <=> run'[r].nodes[n].pulseTimer
                      /\ phase'[Pulse(r, n)] # "off" =>
                           run'[r].nodes[n].completed \/ run'[r].nodes[n].pulseEnabled
    BY DEF EntryPulses, EntryNodes
  <2>1. /\ n \in Nodes
        /\ phase[Pulse(r, n)] = "armed" <=> run[r].nodes[n].pulseTimer
        /\ phase[Pulse(r, n)] # "off" =>
             run[r].nodes[n].completed \/ run[r].nodes[n].pulseEnabled
    BY DEF IInv, EntryPulses, EntryNodes
  <2>2. CASE t = Pulse(r, n)
    <3>1. r = t.run
      BY <1>4, <2>1, <2>2
    <3>2. /\ mid[r].nodes[n].pulseTimer <=> phase'[t] = "armed"
          /\ phase'[t] # "off" => mid[r].nodes[n].completed \/ mid[r].nodes[n].pulseEnabled
      BY <1>6, <2>1, <2>2, <3>1 DEF EffectOnNodes
    <3> QED
      BY <1>5, <2>1, <2>2, <3>2
  <2>3. CASE t # Pulse(r, n)
    <3>1. phase'[Pulse(r, n)] = phase[Pulse(r, n)]
      BY <1>4, <1>8, <2>1, <2>3 DEF Scheduled
    <3>2. CASE r = t.run
      BY <1>5, <1>6, <2>1, <2>3, <3>1, <3>2 DEF EffectOnNodes
    <3>3. CASE r # t.run
      BY <1>5, <1>6, <2>1, <3>1, <3>3
    <3> QED
      BY <3>2, <3>3
  <2> QED
    BY <2>2, <2>3
<1>20. OnlyEntryPulses'
  <2> SUFFICES ASSUME EntryNodes # {}, NEW r \in Runs, NEW n \in Nodes \ EntryNodes
               PROVE  /\ phase'[Pulse(r, n)] = "off"
                      /\ ~run'[r].nodes[n].pulseTimer
    BY DEF OnlyEntryPulses, EntryNodes
  <2>1. phase[Pulse(r, n)] = "off" /\ ~run[r].nodes[n].pulseTimer
    BY DEF IInv, OnlyEntryPulses
  <2>2. phase'[Pulse(r, n)] = "off"
    BY <1>4, <1>8, <2>1 DEF Scheduled
  <2>3. ~mid[r].nodes[n].pulseTimer
    BY <1>6, <2>1 DEF EffectOnNodes
  <2> QED
    BY <1>5, <2>2, <2>3
<1>21. ASSUME EntryNodes # {}
       PROVE  FinalisedQuiet'
  <2> SUFFICES ASSUME NEW r \in Runs, ending'[r] = "finalised"
               PROVE  ~Busy(r)'
    BY DEF FinalisedQuiet
  <2>1. \A n \in Nodes : run[r].nodes[n].completed => run'[r].nodes[n].completed
    BY <1>5, <1>6 DEF EffectOnNodes
  <2>2. CASE ending[r] = "finalised"
    <3>1. ~Busy(r)
      BY <1>21, <2>2 DEF IInv, FinalisedQuiet
    <3>2. /\ \A q \in TasksOf(r) : stack'[q] = <<>>
          /\ \A q \in TasksOf(r) : phase'[q] = phase[q] \/ phase'[q] = "off"
      <4>1. CASE r = t.run
        <5>1. phase'[t] = "off" /\ s = <<>> /\ \A q \in Tasks \ {t} : phase'[q] = phase[q]
          BY <1>1, <3>1, <4>1 DEF Effect
        <5> QED
          BY <1>4, <1>7, <3>1, <5>1 DEF Busy
      <4>2. CASE r # t.run
        BY <1>4, <1>7, <1>8, <3>1, <4>2 DEF Busy
      <4> QED
        BY <4>1, <4>2
    <3>3. \A q \in DelayedTasks(r) : phase'[q] = "off"
      BY <3>1, <3>2 DEF Busy, TasksOf
    <3>4. \A n \in Nodes : ~PulseLive(r, n)'
      <4> SUFFICES ASSUME NEW n \in Nodes
                   PROVE  ~PulseLive(r, n)'
        OBVIOUS
      <4>1. phase'[Pulse(r, n)] = phase[Pulse(r, n)] \/ phase'[Pulse(r, n)] = "off"
        BY <3>2, TaskRuns
      <4>2. ~PulseLive(r, n)
        BY <3>1 DEF Busy
      <4> QED
        BY <2>1, <4>1, <4>2 DEF PulseLive
    <3> QED
      BY <3>2, <3>3, <3>4 DEF Busy
  <2>3. CASE ending[r] # "finalised"
    <3>1. r = activeRun /\ Quiet(mid[r])
      BY <1>3, <1>9, <2>3 DEF TypeOK
    <3>2. \A q \in TasksOf(r) : stack'[q] = <<>>
      <4>1. Calls(r)' = {}
        <5>1. run'[r].activeExecutions = 0
          BY <1>5, <3>1 DEF Quiet
        <5>2. IsFiniteSet(Calls(r)') /\ Cardinality(Calls(r)') = 0
          BY <1>15, <5>1 DEF CallsFinite, ExecutionsCounted
        <5> QED
          BY <5>2, FS_EmptySet
      <4> SUFFICES ASSUME NEW q \in TasksOf(r), stack'[q] # <<>>
                   PROVE  FALSE
        OBVIOUS
      <4>2. q \in Tasks /\ stack'[q] \in Seq(Frames)
        BY <1>4, <1>7
      <4>3. Len(stack'[q]) \in Nat \ {0} /\ Len(stack'[q]) <= MaxDepth
        BY <1>14, <4>2, EmptySeq DEF DepthBounded
      <4>4. <<q, 1>> \in Calls(r)'
        BY <4>3, BoundAssumption DEF Calls
      <4> QED
        BY <4>1, <4>4
    <3>3. \A q \in DelayedTasks(r) : phase'[q] = "off"
      BY <1>5, <1>16, <3>1 DEF LiveTracked, Quiet
    <3>4. \A n \in Nodes : ~PulseLive(r, n)'
      <4> SUFFICES ASSUME NEW n \in Nodes
                   PROVE  ~PulseLive(r, n)'
        OBVIOUS
      <4>1. CASE n \in EntryNodes
        BY <1>5, <1>19, <3>1, <4>1 DEF EntryPulses, PulseLive, Quiet
      <4>2. CASE n \notin EntryNodes
        BY <1>20, <1>21, <4>2 DEF OnlyEntryPulses, PulseLive, EntryNodes
      <4> QED
        BY <4>1, <4>2
    <3> QED
      BY <3>2, <3>3, <3>4 DEF Busy
  <2> QED
    BY <2>2, <2>3
<1>22. (EntryNodes # {} => FinalisedQuiet)'
  BY <1>21 DEF EntryNodes
<1> QED
  BY <1>10, <1>11, <1>12, <1>13, <1>14, <1>15, <1>16, <1>17, <1>18, <1>19, <1>20, <1>22
     DEF IInv

-----------------------------------------------------------------------------
(* Starting, stopping and the passing of time.                             *)

\* Whether a run is busy depends on its own timers, calls and nodes.
LEMMA BusySame ==
  ASSUME NEW r \in Runs,
         \A t \in TasksOf(r) : stack'[t] = stack[t] /\ phase'[t] = phase[t],
         run'[r] = run[r]
  PROVE  Busy(r)' <=> Busy(r)
<1>1. \A n \in Nodes : Pulse(r, n) \in TasksOf(r)
  BY DEF TasksOf, Pulses
<1>2. DelayedTasks(r) \subseteq TasksOf(r)
  BY DEF TasksOf
<1>3. ASSUME NEW n \in Nodes
      PROVE  PulseLive(r, n)' <=> PulseLive(r, n)
  BY <1>1 DEF PulseLive
<1> QED
  BY <1>2, <1>3 DEF Busy

\* createExecutionState arms the pulses it is told to.
LEMMA CreatedFacts ==
  ASSUME NEW pulsed, NEW n \in Nodes
  PROVE  /\ CreatedRun(pulsed).nodes[n].pulseTimer = (n \in pulsed)
         /\ CreatedRun(pulsed).nodes[n].pulseEnabled = (n \in pulsed)
<1> DEFINE ns(m) == [sentCount |-> 0, pulseTimer |-> m \in pulsed,
                     pulseEnabled |-> m \in pulsed, status |-> "idle", completed |-> FALSE]
           nodes == [m \in Nodes |-> ns(m)]
<1>1. CreatedRun(pulsed) = [nodes |-> nodes, activeTimers |-> {}, activeExecutions |-> 0]
  BY DEF CreatedRun
<1>2. ns(n).pulseTimer = (n \in pulsed) /\ ns(n).pulseEnabled = (n \in pulsed)
  BY Zenon
<1> HIDE DEF ns
<1>3. nodes[n] = ns(n)
  OBVIOUS
<1> HIDE DEF nodes
<1>4. CreatedRun(pulsed).nodes = nodes
  BY <1>1
<1> QED
  BY <1>2, <1>3, <1>4

\* A run that was not started has no call, and what startFlow stores has type.
LEMMA StartFacts ==
  ASSUME IInv, NEW r \in Runs, ending[r] = "new"
  PROVE  /\ Calls(r) = {}
         /\ CreatedRun(NodesToStart) \in RunStates
         /\ NodesToStart \subseteq Nodes
<1>1. \A t \in TasksOf(r) : t \in Tasks /\ phase[t] = "off" /\ stack[t] = <<>>
  BY TaskRuns DEF IInv, NewIdle, CallsRunning
<1>2. Calls(r) = {}
  <2> SUFFICES ASSUME NEW c \in Calls(r)
               PROVE  FALSE
    OBVIOUS
  <2>1. c[1] \in TasksOf(r) /\ c[2] \in 1 .. MaxDepth /\ c[2] <= Len(stack[c[1]])
    BY DEF Calls
  <2>2. stack[c[1]] = <<>>
    BY <1>1, <2>1
  <2>3. Len(stack[c[1]]) = 0
    BY <2>2
  <2> QED
    BY <2>1, <2>3, BoundAssumption
<1>3. NodesToStart \subseteq Nodes
  BY DEF NodesToStart, EntryNodes
<1>4. CreatedRun(NodesToStart) \in RunStates
  BY <1>3 DEF CreatedRun, RunStates, NodeStates, Statuses
<1> QED
  BY <1>2, <1>3, <1>4

LEMMA StartFlowInv ==
  ASSUME IInv, NEW r \in Runs, StartFlow(r)
  PROVE  IInv'
<1> DEFINE started == {Pulse(r, n) : n \in NodesToStart}
<1>1. TypeOK /\ ending[r] = "new"
  BY DEF IInv, StartFlow
<1>2. /\ Calls(r) = {}
      /\ CreatedRun(NodesToStart) \in RunStates
      /\ NodesToStart \subseteq Nodes
  BY <1>1, StartFacts
<1>3. /\ \A q \in Runs : \A t \in TasksOf(q) : t \in Tasks /\ t.run = q
      /\ \A q \in Runs : \A t \in DelayedTasks(q) : t \in TasksOf(q)
      /\ \A q \in Runs, n \in Nodes :
           Pulse(q, n) \in TasksOf(q) /\ Pulse(q, n) \notin DelayedTasks(q)
  BY TaskRuns DEF TasksOf, Pulses
<1>4. /\ activeRun' = r
      /\ run' = [run EXCEPT ![r] = CreatedRun(NodesToStart)]
      /\ ending' = [q \in Runs |-> IF q = r THEN "running"
                                   ELSE IF q = activeRun THEN "replaced" ELSE ending[q]]
      /\ phase' = [t \in Tasks |-> IF t \in started THEN "armed" ELSE phase[t]]
      /\ UNCHANGED <<elapsed, stack>>
  BY DEF StartFlow
<1>5. /\ run'[r] = CreatedRun(NodesToStart)
      /\ \A q \in Runs \ {r} : run'[q] = run[q]
  BY <1>1, <1>4 DEF TypeOK
<1>6. \A t \in started : /\ t.run = r /\ t \in Tasks
                           /\ t \in TasksOf(r) /\ t \notin DelayedTasks(r)
  BY <1>2, <1>3
<1> HIDE DEF started
<1>7. /\ \A q \in Runs \ {r} : \A t \in TasksOf(q) : phase'[t] = phase[t]
      /\ \A q \in Runs : \A t \in DelayedTasks(q) : phase'[t] = phase[t]
      /\ \A t \in TasksOf(r) : phase[t] = "off"
  BY <1>1, <1>3, <1>4, <1>6 DEF IInv, NewIdle
<1>8. TypeOK'
  <2>1. run' \in [Runs -> RunStates]
    BY <1>1, <1>2, <1>4 DEF TypeOK
  <2>2. ending' \in [Runs -> {"new", "running", "finalised", "stopped", "replaced"}]
    BY <1>1, <1>4 DEF TypeOK
  <2>3. phase' \in [Tasks -> {"off", "armed", "running"}]
    BY <1>1, <1>4 DEF TypeOK
  <2> QED
    BY <1>1, <1>4, <2>1, <2>2, <2>3, BoundAssumption DEF TypeOK, Runs
<1>9. ActiveRunning'
  BY <1>1, <1>4 DEF IInv, ActiveRunning
<1>10. NewIdle'
  BY <1>4, <1>7 DEF IInv, NewIdle
<1>11. CallsRunning'
  BY <1>4, <1>6, <1>7 DEF IInv, CallsRunning
<1>12. DepthBounded'
  BY <1>4 DEF IInv, DepthBounded
<1>13. CallsFinite' /\ ExecutionsCounted'
  <2> SUFFICES ASSUME NEW q \in Runs
               PROVE  /\ IsFiniteSet(Calls(q)')
                      /\ run'[q].activeExecutions = Cardinality(Calls(q)')
    BY DEF CallsFinite, ExecutionsCounted
  <2>1. Calls(q)' = Calls(q)
    BY <1>4 DEF Calls
  <2>2. CASE q = r
    <3>1. run'[q].activeExecutions = 0
      BY <1>5, <2>2 DEF CreatedRun
    <3> QED
      BY <1>2, <2>1, <2>2, <3>1, FS_EmptySet
  <2>3. CASE q # r
    BY <1>5, <2>1, <2>3 DEF IInv, CallsFinite, ExecutionsCounted
  <2> QED
    BY <2>2, <2>3
<1>14. LiveTracked'
  <2> SUFFICES ASSUME NEW q \in Runs, NEW t \in DelayedTasks(q), phase'[t] # "off"
               PROVE  t \in run'[q].activeTimers
    BY DEF LiveTracked
  <2>1. q # r
    BY <1>3, <1>7
  <2> QED
    BY <1>5, <1>7, <2>1 DEF IInv, LiveTracked
<1>15. TimersTracked'
  <2> SUFFICES ASSUME NEW q \in Runs, ending'[q] # "stopped"
               PROVE  run'[q].activeTimers = {t \in DelayedTasks(q) : phase'[t] # "off"}
    BY DEF TimersTracked
  <2>1. CASE q = r
    <3>1. run'[q].activeTimers = {}
      BY <1>5, <2>1 DEF CreatedRun
    <3> QED
      BY <1>3, <1>7, <2>1, <3>1
  <2>2. CASE q # r
    <3>1. ending[q] # "stopped" \/ q = activeRun
      BY <1>4, <2>2
    <3>2. ending[q] # "stopped"
      BY <3>1 DEF IInv, ActiveRunning
    <3> QED
      BY <1>5, <1>7, <2>2, <3>2 DEF IInv, TimersTracked
  <2> QED
    BY <2>1, <2>2
<1>16. EntryCalls'
  BY <1>4 DEF IInv, EntryCalls, EntryNodes
<1>17. EntryPulses'
  <2> SUFFICES ASSUME NEW q \in Runs, NEW n \in EntryNodes
               PROVE  /\ phase'[Pulse(q, n)] = "armed" <=> run'[q].nodes[n].pulseTimer
                      /\ phase'[Pulse(q, n)] # "off" =>
                           run'[q].nodes[n].completed \/ run'[q].nodes[n].pulseEnabled
    BY DEF EntryPulses, EntryNodes
  <2>1. n \in Nodes /\ n \in NodesToStart
    BY DEF EntryNodes, NodesToStart
  <2>2. CASE q = r
    <3>1. run'[q].nodes[n].pulseTimer = TRUE /\ run'[q].nodes[n].pulseEnabled = TRUE
      BY <1>5, <2>1, <2>2, CreatedFacts, Zenon
    <3>2. Pulse(q, n) \in started /\ Pulse(q, n) \in Tasks
      BY <1>3, <2>1, <2>2 DEF started
    <3>3. phase'[Pulse(q, n)] = "armed"
      BY <1>4, <3>2
    <3> QED
      BY <3>1, <3>3
  <2>3. CASE q # r
    BY <1>3, <1>5, <1>7, <2>1, <2>3 DEF IInv, EntryPulses
  <2> QED
    BY <2>2, <2>3
<1>18. OnlyEntryPulses'
  <2> SUFFICES ASSUME EntryNodes # {}, NEW q \in Runs, NEW n \in Nodes \ EntryNodes
               PROVE  /\ phase'[Pulse(q, n)] = "off"
                      /\ ~run'[q].nodes[n].pulseTimer
    BY DEF OnlyEntryPulses, EntryNodes
  <2>1. n \notin NodesToStart
    BY DEF NodesToStart
  <2>2. Pulse(q, n) \notin started
    <3>1. \A m \in NodesToStart : Pulse(q, n) # Pulse(r, m)
      BY <1>2, <2>1, PulseInjective
    <3> QED
      BY <3>1 DEF started
  <2>3. phase'[Pulse(q, n)] = "off"
    <3>1. phase[Pulse(q, n)] = "off" /\ Pulse(q, n) \in Tasks
      BY <1>3 DEF IInv, OnlyEntryPulses
    <3> QED
      BY <1>4, <2>2, <3>1
  <2>4. CASE q = r
    <3>1. run'[q].nodes[n].pulseTimer = (n \in NodesToStart)
      BY <1>5, <2>4, CreatedFacts, Zenon
    <3> QED
      BY <2>1, <2>3, <3>1
  <2>5. CASE q # r
    BY <1>5, <2>3, <2>5 DEF IInv, OnlyEntryPulses
  <2> QED
    BY <2>4, <2>5
<1>19. (EntryNodes # {} => FinalisedQuiet)'
  <2> SUFFICES ASSUME EntryNodes # {}, NEW q \in Runs, ending'[q] = "finalised"
               PROVE  ~Busy(q)'
    BY DEF FinalisedQuiet, EntryNodes
  <2>1. q # r /\ ending[q] = "finalised"
    BY <1>4
  <2>2. Busy(q)' <=> Busy(q)
    BY <1>4, <1>5, <1>7, <2>1, BusySame
  <2> QED
    BY <2>1, <2>2 DEF IInv, FinalisedQuiet
<1> QED
  BY <1>8, <1>9, <1>10, <1>11, <1>12, <1>13, <1>14, <1>15, <1>16, <1>17, <1>18, <1>19
     DEF IInv

LEMMA StopFlowInv ==
  ASSUME IInv, StopFlow
  PROVE  IInv'
<1> DEFINE r == activeRun
<1>1. TypeOK /\ r \in Runs /\ ending[r] = "running"
  BY DEF IInv, StopFlow, TypeOK, ActiveRunning, Runs
<1>2. /\ \A q \in Runs : \A t \in TasksOf(q) : t \in Tasks /\ t.run = q
      /\ \A q \in Runs : \A t \in DelayedTasks(q) : t \in TasksOf(q)
      /\ \A q \in Runs, n \in Nodes :
           Pulse(q, n) \in TasksOf(q) /\ Pulse(q, n) \notin DelayedTasks(q)
  BY TaskRuns DEF TasksOf, Pulses
<1>3. /\ activeRun' = 0
      /\ run' = [run EXCEPT ![r].nodes = [n \in Nodes |-> [@[n] EXCEPT !.pulseTimer = FALSE]]]
      /\ ending' = [ending EXCEPT ![r] = "stopped"]
      /\ phase' = [t \in Tasks |-> IF t \in Cleared(r) /\ phase[t] = "armed"
                                   THEN "off" ELSE phase[t]]
      /\ UNCHANGED <<elapsed, stack>>
  BY DEF StopFlow
<1>4. /\ run' \in [Runs -> RunStates]
      /\ \A q \in Runs \ {r} : run'[q] = run[q]
      /\ run'[r].activeTimers = run[r].activeTimers
      /\ run'[r].activeExecutions = run[r].activeExecutions
      /\ \A n \in Nodes : /\ run'[r].nodes[n].pulseTimer = FALSE
                          /\ run'[r].nodes[n].pulseEnabled = run[r].nodes[n].pulseEnabled
                          /\ run'[r].nodes[n].completed = run[r].nodes[n].completed
  <2> DEFINE nodes == [n \in Nodes |-> [run[r].nodes[n] EXCEPT !.pulseTimer = FALSE]]
  <2>1. run[r] \in RunStates
    BY <1>1 DEF TypeOK
  <2>2. \A n \in Nodes : /\ nodes[n] \in NodeStates
                          /\ nodes[n].pulseTimer = FALSE
                          /\ nodes[n].pulseEnabled = run[r].nodes[n].pulseEnabled
                          /\ nodes[n].completed = run[r].nodes[n].completed
    BY <2>1 DEF RunStates, NodeStates
  <2>3. run' = [run EXCEPT ![r] = [run[r] EXCEPT !.nodes = nodes]]
    BY <1>3
  <2>4. nodes \in [Nodes -> NodeStates]
    BY <2>2
  <2> HIDE DEF nodes
  <2>5. /\ [run[r] EXCEPT !.nodes = nodes] \in RunStates
        /\ [run[r] EXCEPT !.nodes = nodes].nodes = nodes
        /\ [run[r] EXCEPT !.nodes = nodes].activeTimers = run[r].activeTimers
        /\ [run[r] EXCEPT !.nodes = nodes].activeExecutions = run[r].activeExecutions
    BY <2>1, <2>4 DEF RunStates
  <2>6. /\ run'[r] = [run[r] EXCEPT !.nodes = nodes]
        /\ \A q \in Runs \ {r} : run'[q] = run[q]
    BY <1>1, <2>3 DEF TypeOK
  <2>7. run' \in [Runs -> RunStates]
    BY <1>1, <2>3, <2>5 DEF TypeOK
  <2> QED
    BY <2>2, <2>5, <2>6, <2>7
\* Only tasks of the stopped run are cleared: its timers are tracked.
<1>5. \A t \in Cleared(r) : t \in TasksOf(r)
  <2>1. run[r].activeTimers \subseteq TasksOf(r)
    BY <1>1, <1>2 DEF IInv, TimersTracked
  <2> QED
    BY <1>1, <1>2, <2>1 DEF Cleared
<1>6. /\ \A q \in Runs \ {r} : \A t \in TasksOf(q) : phase'[t] = phase[t]
      /\ \A t \in Tasks : phase'[t] = phase[t] \/ (phase'[t] = "off" /\ phase[t] = "armed")
      /\ phase' \in [Tasks -> {"off", "armed", "running"}]
  <2>1. \A t \in Tasks :
          phase'[t] = IF t \in Cleared(r) /\ phase[t] = "armed" THEN "off" ELSE phase[t]
    BY <1>3
  <2>2. \A q \in Runs \ {r} : \A t \in TasksOf(q) : phase'[t] = phase[t]
    BY <1>2, <1>5, <1>1, <2>1
  <2>3. phase' \in [Tasks -> {"off", "armed", "running"}]
    BY <1>1, <1>3 DEF TypeOK
  <2> QED
    BY <2>1, <2>2, <2>3
<1> HIDE DEF r
<1>7. TypeOK'
  BY <1>1, <1>3, <1>4, <1>6, BoundAssumption DEF TypeOK
<1>8. ActiveRunning'
  <2> SUFFICES ASSUME NEW q \in Runs
               PROVE  ending'[q] = "running" <=> activeRun' = q
    BY DEF ActiveRunning
  <2>1. q # 0
    BY DEF Runs
  <2> QED
    BY <1>1, <1>3, <2>1 DEF IInv, ActiveRunning, TypeOK, r
<1>9. NewIdle'
  BY <1>1, <1>2, <1>3, <1>6 DEF IInv, NewIdle, TypeOK
<1>10. CallsRunning'
  BY <1>3, <1>6 DEF IInv, CallsRunning
<1>11. DepthBounded'
  BY <1>3 DEF IInv, DepthBounded
<1>12. CallsFinite' /\ ExecutionsCounted'
  <2>1. \A q \in Runs : Calls(q)' = Calls(q) /\ run'[q].activeExecutions = run[q].activeExecutions
    BY <1>3, <1>4 DEF Calls
  <2> QED
    BY <2>1 DEF IInv, CallsFinite, ExecutionsCounted
<1>13. LiveTracked'
  <2> SUFFICES ASSUME NEW q \in Runs, NEW t \in DelayedTasks(q), phase'[t] # "off"
               PROVE  t \in run'[q].activeTimers
    BY DEF LiveTracked
  <2>1. phase[t] # "off"
    BY <1>2, <1>6
  <2>2. t \in run[q].activeTimers
    BY <2>1 DEF IInv, LiveTracked
  <2> QED
    BY <1>4, <2>2
<1>14. TimersTracked'
  <2> SUFFICES ASSUME NEW q \in Runs, ending'[q] # "stopped"
               PROVE  run'[q].activeTimers = {t \in DelayedTasks(q) : phase'[t] # "off"}
    BY DEF TimersTracked
  <2>1. q # r /\ ending[q] # "stopped"
    BY <1>1, <1>3 DEF TypeOK
  <2> QED
    BY <1>2, <1>4, <1>6, <2>1 DEF IInv, TimersTracked
<1>15. EntryCalls'
  BY <1>3 DEF IInv, EntryCalls, EntryNodes
<1>16. EntryPulses'
  <2> SUFFICES ASSUME NEW q \in Runs, NEW n \in EntryNodes
               PROVE  /\ phase'[Pulse(q, n)] = "armed" <=> run'[q].nodes[n].pulseTimer
                      /\ phase'[Pulse(q, n)] # "off" =>
                           run'[q].nodes[n].completed \/ run'[q].nodes[n].pulseEnabled
    BY DEF EntryPulses, EntryNodes
  <2>1. /\ n \in Nodes
        /\ phase[Pulse(q, n)] = "armed" <=> run[q].nodes[n].pulseTimer
        /\ phase[Pulse(q, n)] # "off" =>
             run[q].nodes[n].completed \/ run[q].nodes[n].pulseEnabled
    BY DEF IInv, EntryPulses, EntryNodes
  <2>2. CASE q = r
    <3>1. phase[Pulse(q, n)] = "armed" => Pulse(q, n) \in Cleared(r)
      BY <2>1, <2>2 DEF Cleared
    <3>2. phase'[Pulse(q, n)] # "armed"
      BY <1>2, <1>3, <2>1, <3>1
    <3>3. ~run'[q].nodes[n].pulseTimer
      BY <1>4, <2>1, <2>2
    <3>4. phase'[Pulse(q, n)] # "off" => phase[Pulse(q, n)] # "off"
      BY <1>2, <1>6, <2>1
    <3> QED
      BY <1>4, <2>1, <2>2, <3>2, <3>3, <3>4
  <2>3. CASE q # r
    BY <1>2, <1>4, <1>6, <2>1, <2>3
  <2> QED
    BY <2>2, <2>3
<1>17. OnlyEntryPulses'
  <2> SUFFICES ASSUME EntryNodes # {}, NEW q \in Runs, NEW n \in Nodes \ EntryNodes
               PROVE  /\ phase'[Pulse(q, n)] = "off"
                      /\ ~run'[q].nodes[n].pulseTimer
    BY DEF OnlyEntryPulses, EntryNodes
  <2>1. phase[Pulse(q, n)] = "off" /\ ~run[q].nodes[n].pulseTimer
    BY DEF IInv, OnlyEntryPulses
  <2>2. phase'[Pulse(q, n)] = "off"
    BY <1>2, <1>6, <2>1
  <2>3. ~run'[q].nodes[n].pulseTimer
    BY <1>4, <2>1
  <2> QED
    BY <2>2, <2>3
<1>18. (EntryNodes # {} => FinalisedQuiet)'
  <2> SUFFICES ASSUME EntryNodes # {}, NEW q \in Runs, ending'[q] = "finalised"
               PROVE  ~Busy(q)'
    BY DEF FinalisedQuiet, EntryNodes
  <2>1. q # r /\ ending[q] = "finalised"
    BY <1>1, <1>3 DEF TypeOK
  <2>2. Busy(q)' <=> Busy(q)
    BY <1>3, <1>4, <1>6, <2>1, BusySame
  <2> QED
    BY <2>1, <2>2 DEF IInv, FinalisedQuiet
<1> QED
  BY <1>7, <1>8, <1>9, <1>10, <1>11, <1>12, <1>13, <1>14, <1>15, <1>16, <1>17, <1>18
     DEF IInv

\* The invariant does not depend on the time, except for its type.
LEMMA SameInv ==
  ASSUME IInv, UNCHANGED <<activeRun, run, ending, phase, stack>>,
         elapsed' \in [Runs -> Nat]
  PROVE  IInv'
<1>1. TypeOK'
  BY DEF IInv, TypeOK
<1>2. ActiveRunning' /\ NewIdle' /\ CallsRunning' /\ DepthBounded'
  BY DEF IInv, ActiveRunning, NewIdle, CallsRunning, DepthBounded
<1>3. CallsFinite' /\ ExecutionsCounted'
  <2>1. \A q \in Runs : Calls(q)' = Calls(q)
    BY DEF Calls
  <2> QED
    BY <2>1 DEF IInv, CallsFinite, ExecutionsCounted
<1>4. LiveTracked' /\ TimersTracked'
  BY DEF IInv, LiveTracked, TimersTracked
<1>5. EntryCalls' /\ EntryPulses' /\ OnlyEntryPulses'
  BY DEF IInv, EntryCalls, EntryPulses, OnlyEntryPulses, EntryNodes
<1>6. (EntryNodes # {} => FinalisedQuiet)'
  <2>1. \A q \in Runs : Busy(q)' <=> Busy(q)
    BY BusySame
  <2> QED
    BY <2>1 DEF IInv, FinalisedQuiet, EntryNodes
<1> QED
  BY <1>1, <1>2, <1>3, <1>4, <1>5, <1>6 DEF IInv

LEMMA TickInv ==
  ASSUME IInv, NEW r \in Runs, Tick(r)
  PROVE  IInv'
<1>1. elapsed' \in [Runs -> Nat]
  BY DEF IInv, TypeOK, Tick
<1> QED
  BY <1>1, SameInv DEF Tick

LEMMA InitInv == Init => IInv
<1> SUFFICES ASSUME Init
             PROVE  IInv
  OBVIOUS
<1>1. TypeOK
  <2>1. CreatedRun({}) \in RunStates
    BY DEF CreatedRun, RunStates, NodeStates, Statuses
  <2> QED
    BY <2>1, BoundAssumption DEF Init, TypeOK
<1>2. \A r \in Runs : Calls(r) = {}
  <2> SUFFICES ASSUME NEW r \in Runs, NEW c \in Calls(r)
               PROVE  FALSE
    OBVIOUS
  <2>1. c[1] \in Tasks /\ c[2] \in 1 .. MaxDepth /\ c[2] <= Len(stack[c[1]])
    BY TaskRuns DEF Calls
  <2>2. Len(stack[c[1]]) = 0
    BY <2>1 DEF Init
  <2> QED
    BY <2>1, <2>2, BoundAssumption
<1>3. CallsFinite /\ ExecutionsCounted
  <2>1. \A r \in Runs : run[r].activeExecutions = 0
    BY DEF Init, CreatedRun
  <2> QED
    BY <1>2, <2>1, FS_EmptySet DEF CallsFinite, ExecutionsCounted
<1>4. \A r \in Runs : \A t \in TasksOf(r) : t \in Tasks /\ phase[t] = "off"
  BY TaskRuns DEF Init
<1>5. \A r \in Runs, n \in Nodes : ~run[r].nodes[n].pulseTimer /\ Pulse(r, n) \in TasksOf(r)
  <2>1. \A r \in Runs : run[r] = CreatedRun({})
    BY DEF Init
  <2>2. \A r \in Runs, n \in Nodes : run[r].nodes[n].pulseTimer = (n \in {})
    BY <2>1, CreatedFacts, Zenon
  <2>3. \A r \in Runs, n \in Nodes : Pulse(r, n) \in TasksOf(r)
    BY DEF TasksOf, Pulses
  <2> QED
    BY <2>2, <2>3
<1>6. LiveTracked /\ TimersTracked
  <2>1. \A r \in Runs : run[r].activeTimers = {}
    BY DEF Init, CreatedRun
  <2> QED
    BY <1>4, <2>1 DEF LiveTracked, TimersTracked, TasksOf
<1>7. EntryPulses /\ OnlyEntryPulses
  BY <1>4, <1>5 DEF EntryPulses, OnlyEntryPulses, EntryNodes
<1>8. EntryCalls /\ DepthBounded /\ CallsRunning
  <2>1. \A t \in Tasks : stack[t] = <<>> /\ Len(stack[t]) = 0
    BY DEF Init
  <2> QED
    BY <2>1, BoundAssumption DEF EntryCalls, DepthBounded, CallsRunning
<1>9. ActiveRunning /\ NewIdle /\ FinalisedQuiet
  BY <1>4 DEF Init, ActiveRunning, NewIdle, FinalisedQuiet, Runs
<1> QED
  BY <1>1, <1>3, <1>6, <1>7, <1>8, <1>9 DEF IInv

LEMMA NextInv == IInv /\ [Next]_vars => IInv'
<1> SUFFICES ASSUME IInv, [Next]_vars
             PROVE  IInv'
  OBVIOUS
<1>1. ASSUME NEW r \in Runs, StartFlow(r)
      PROVE  IInv'
  BY <1>1, StartFlowInv
<1>2. ASSUME NEW r \in Runs, Tick(r)
      PROVE  IInv'
  BY <1>2, TickInv
<1>3. CASE StopFlow
  BY <1>3, StopFlowInv
<1>4. ASSUME NEW t \in Tasks, TaskStep(t)
      PROVE  IInv'
  BY <1>4, TaskStepInv
<1>5. CASE UNCHANGED vars
  BY <1>5, SameInv DEF vars, IInv, TypeOK
<1> QED
  BY <1>1, <1>2, <1>3, <1>4, <1>5 DEF Next

-----------------------------------------------------------------------------
(* The theorems: for every flow graph, limit, number of runs and bound.    *)

\* The inductive invariant holds in every reachable state of the engine.
THEOREM Invariance == Spec => []IInv
  BY InitInv, NextInv, PTL DEF Spec

\* Every state of the engine has its type.
THEOREM TypeCorrect == Spec => []TypeOK
<1>1. IInv => TypeOK
  BY DEF IInv
<1> QED
  BY <1>1, Invariance, PTL

\* activeExecutions, which maybeFinalizeFlow trusts, is at every moment the number of
\* executeNode calls of the run that passed the limit check and did not return.
THEOREM ExecutionsAreCounted == Spec => []ExecutionsCounted
<1>1. IInv => ExecutionsCounted
  BY DEF IInv
<1> QED
  BY <1>1, Invariance, PTL

\* activeTimers holds exactly the delayed edges that are armed or running, for every
\* run that stopFlow did not end, a run replaced by a later start included.
THEOREM TimersAreTracked == Spec => []TimersTracked
<1>1. IInv => TimersTracked
  BY DEF IInv
<1> QED
  BY <1>1, Invariance, PTL

\* In a flow with an entry node the handle of every armed pulse timer is kept, so that
\* stopFlow can clear it.
THEOREM PulsesAreTracked ==
  ASSUME EntryNodes # {}
  PROVE  Spec => []PulsesTracked
<1>1. IInv => PulsesTracked
  <2> SUFFICES ASSUME IInv, NEW r \in Runs, NEW n \in Nodes
               PROVE  phase[Pulse(r, n)] = "armed" <=> run[r].nodes[n].pulseTimer
    BY DEF PulsesTracked
  <2>1. CASE n \in EntryNodes
    BY <2>1 DEF IInv, EntryPulses
  <2>2. CASE n \notin EntryNodes
    BY <2>2 DEF IInv, OnlyEntryPulses
  <2> QED
    BY <2>1, <2>2
<1> QED
  BY <1>1, Invariance, PTL

\* In a flow with an entry node everything that is armed can be taken back: stopFlow finds
\* every pulse timer, and every delayed edge of a run that was not stopped yet.
THEOREM HandlesAreTracked ==
  ASSUME EntryNodes # {}
  PROVE  Spec => []HandlesTracked
<1>1. TimersTracked /\ PulsesTracked => HandlesTracked
  BY DEF HandlesTracked
<1> QED
  BY <1>1, TimersAreTracked, PulsesAreTracked, PTL

\* In a flow with an entry node, a run that maybeFinalizeFlow ended is over: it makes no
\* call any more and no timer of it will fire.  Without an entry node this fails (the
\* README, under Disagreements).
THEOREM FinalisedIsQuiet ==
  ASSUME EntryNodes # {}
  PROVE  Spec => []FinalisedQuiet
<1>1. IInv => FinalisedQuiet
  BY DEF IInv
<1> QED
  BY <1>1, Invariance, PTL
=============================================================================
