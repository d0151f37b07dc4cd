-------------------------- MODULE FlowLimitsProofs --------------------------
(***************************************************************************)
(* Proofs that a run of FlowEngine keeps to its limits, that an entry node *)
(* ends once and that the engine implements FlowLifecycle, for every flow  *)
(* with an entry node, every limit and every number of runs.  They build   *)
(* on the invariant of FlowEngineProofs.                                   *)
(***************************************************************************)
EXTENDS FlowEngineProofs

\* The limits of node n, in a run r in which it is in state ns.
Reached(r, n, ns) ==
  \/ Count[n] # Infinity /\ ns.sentCount >= Count[n]
  \/ Duration[n] # Infinity /\ elapsed[r] >= Duration[n]

\* An entry node kept to its count, and ended for a reason, its timer with it.
Sound(r, n, ns) ==
  /\ Count[n] # Infinity => ns.sentCount <= Count[n]
  /\ ns.completed => ns.status = "error" \/ Reached(r, n, ns)
  /\ ns.completed => ~ns.pulseTimer

\* It may send one more message.
Free(n, ns) == ~ns.completed /\ (Count[n] # Infinity => ns.sentCount < Count[n])

\* The last of the calls s generates or publishes a message of n; the others wait.
AtTop(s, n) == s # <<>> /\ Last(s).node = n /\ Last(s).pc \in {"generating", "publishing"}
OnlyTopWorks(s) == \A i \in 1 .. Len(s) - 1 : s[i].pc = "downstream"

LimitInv ==
  /\ \A r \in Runs, n \in EntryNodes :
       /\ Sound(r, n, run[r].nodes[n])
       /\ AtTop(stack[Pulse(r, n)], n) => Free(n, run[r].nodes[n])
       /\ ending[r] # "new" => run[r].nodes[n].completed \/ run[r].nodes[n].pulseEnabled
       /\ ending[r] = "finalised" => run[r].nodes[n].completed
  /\ \A t \in Tasks : OnlyTopWorks(stack[t])
  /\ \A r \in Runs, n \in Nodes :
       run[r].nodes[n].status = "executing" => \E t \in TasksOf(r) : AtTop(stack[t], n)

-----------------------------------------------------------------------------
(* What a step of task t does to the limits: mid are the execution states  *)
(* before maybeFinalizeFlow, s are the calls of t after the step.          *)

NodeEffect(r, n, new, old, s) ==
  /\ Sound(r, n, new)
  /\ AtTop(s, n) => Free(n, new)
  /\ old.completed => new.completed /\ new.status = old.status
  /\ old.completed \/ old.pulseEnabled => new.completed \/ new.pulseEnabled

LimitEffect(t, mid, s) ==
  /\ UNCHANGED elapsed /\ stack' = [stack EXCEPT ![t] = s] /\ Settled(mid)
  /\ \A q \in Runs \ {t.run} : mid[q] = run[q]
  /\ OnlyTopWorks(s)
  /\ \A n \in EntryNodes :
       IF t = Pulse(t.run, n) THEN NodeEffect(t.run, n, mid[t.run].nodes[n], run[t.run].nodes[n], s)
       ELSE mid[t.run].nodes[n] = run[t.run].nodes[n]
  /\ \A n \in Nodes : mid[t.run].nodes[n].status = "executing" =>
       AtTop(s, n) \/ (run[t.run].nodes[n].status = "executing" /\ ~AtTop(stack[t], n))

\* What updateNodeStatus does to one node.
LEMMA StatusFacts ==
  ASSUME NEW rs \in RunStates, NEW n \in Nodes, NEW st \in Statuses
  PROVE  LET new == SetStatus(rs, n, st).nodes[n]
             old == rs.nodes[n]
         IN /\ new.status = st /\ new.sentCount = old.sentCount
            /\ st \in FinalStatuses => new.completed /\ ~new.pulseTimer /\ ~new.pulseEnabled
            /\ st \notin FinalStatuses => /\ new.completed = old.completed
                                          /\ new.pulseTimer = old.pulseTimer
                                          /\ new.pulseEnabled = old.pulseEnabled
<1>1. rs.nodes \in [Nodes -> NodeStates]
  BY DEF RunStates
<1>2. SetStatus(rs, n, st).nodes[n] = WithStatus(rs.nodes[n], st)
  BY <1>1 DEF SetStatus, RunStates
<1> QED
  BY <1>1, <1>2 DEF WithStatus, NodeStates

\* sentCount++.
LEMMA CountFacts ==
  ASSUME NEW rs \in RunStates, NEW n \in Nodes
  PROVE  LET new == CountSent(rs, n).nodes[n]
             old == rs.nodes[n]
         IN /\ new.sentCount = IF Count[n] = Infinity THEN old.sentCount ELSE old.sentCount + 1
            /\ new.status = old.status
<1>1. rs.nodes \in [Nodes -> NodeStates]
  BY DEF RunStates
<1>2. CASE Count[n] = Infinity
  BY <1>2 DEF CountSent
<1>3. CASE Count[n] # Infinity
  <2>1. CountSent(rs, n).nodes[n] = [rs.nodes[n] EXCEPT !.sentCount = @ + 1]
    BY <1>1, <1>3 DEF CountSent, RunStates
  <2> QED
    BY <1>1, <1>3, <2>1 DEF NodeStates
<1> QED
  BY <1>2, <1>3

LEMMA LimitIsReached ==
  ASSUME NEW r, NEW n, NEW rs PROVE AtLimit(r, n, rs) <=> Reached(r, n, rs.nodes[n])
  BY DEF AtLimit, Reached

\* What executeNode does, up to its first await, to the limits of the node it executes.
ExecuteOutcome(t, n, state, calls, mid, s) ==
  LET new == mid[t.run].nodes[n]
      old == state[t.run].nodes[n]
  IN /\ stack' = [stack EXCEPT ![t] = s] /\ Settled(mid)
     /\ \A q \in Runs \ {t.run} : mid[q] = state[q]
     /\ \A m \in Nodes \ {n} : mid[t.run].nodes[m] = state[t.run].nodes[m]
     /\ new.sentCount = old.sentCount
     /\ \/ /\ s = calls /\ new.status = "completed" /\ Reached(t.run, n, old)
           /\ new.completed /\ ~new.pulseTimer
        \/ s = calls /\ new.status = "error" /\ new.completed /\ ~new.pulseTimer
        \/ /\ new.status = "idle" /\ s = calls
           /\ new.completed = old.completed /\ new.pulseTimer = old.pulseTimer
           /\ new.pulseEnabled = old.pulseEnabled
        \/ /\ new.status = "executing" /\ s = Append(calls, Frame(n, "generating", 0))
           /\ ~Reached(t.run, n, old)
           /\ new.completed = old.completed /\ new.pulseTimer = old.pulseTimer
           /\ new.pulseEnabled = old.pulseEnabled

LEMMA ExecuteLimits ==
  ASSUME NEW t \in Tasks, t.run \in Runs, NEW n \in Nodes,
         NEW state \in [Runs -> RunStates], NEW calls \in Seq(Frames),
         ExecuteNode(t, n, state, calls)
  PROVE  \E mid \in [Runs -> RunStates], s \in Seq(Frames) :
           ExecuteOutcome(t, n, state, calls, mid, s)
<1> DEFINE r == t.run
<1>0. state[r] \in RunStates
  OBVIOUS
<1>1. ASSUME NEW st \in {"completed", "error", "idle"},
             st = "completed" => AtLimit(r, n, state[r]),
             stack' = [stack EXCEPT ![t] = calls],
             MaybeFinalize([state EXCEPT ![r] = SetStatus(@, n, st)])
      PROVE  \E mid \in [Runs -> RunStates], s \in Seq(Frames) :
               ExecuteOutcome(t, n, state, calls, mid, s)
  <2> DEFINE rs == SetStatus(state[r], n, st)
             mid == [state EXCEPT ![r] = rs]
  <2>1. /\ rs \in RunStates /\ \A m \in Nodes \ {n} : rs.nodes[m] = state[r].nodes[m]
        /\ rs.nodes[n].status = st /\ rs.nodes[n].sentCount = state[r].nodes[n].sentCount
        /\ st \in FinalStatuses => rs.nodes[n].completed /\ ~rs.nodes[n].pulseTimer
        /\ st \notin FinalStatuses => /\ rs.nodes[n].completed = state[r].nodes[n].completed
                                      /\ rs.nodes[n].pulseTimer = state[r].nodes[n].pulseTimer
                                      /\ rs.nodes[n].pulseEnabled = state[r].nodes[n].pulseEnabled
    <3>1. st \in Statuses
      BY DEF Statuses
    <3>2. rs \in RunStates /\ \A m \in Nodes \ {n} : rs.nodes[m] = state[r].nodes[m]
      BY <1>0, <3>1, SetStatusFacts
    <3> QED
      BY <1>0, <3>1, <3>2, StatusFacts
  <2>2. Settled(mid)
    BY <1>1, MaybeFinalizeSettles
  <2>3. st = "completed" => Reached(r, n, state[r].nodes[n])
    BY <1>1, LimitIsReached
  <2> HIDE DEF rs
  <2>4. mid \in [Runs -> RunStates] /\ mid[r] = rs /\ \A q \in Runs \ {r} : mid[q] = state[q]
    BY <2>1
  <2> HIDE DEF mid
  <2>5. ExecuteOutcome(t, n, state, calls, mid, calls)
    BY <1>1, <2>1, <2>2, <2>3, <2>4 DEF ExecuteOutcome, FinalStatuses
  <2> QED
    BY <2>4, <2>5
<1>2. ASSUME ~AtLimit(r, n, state[r]),
             stack' = [stack EXCEPT ![t] = Append(calls, Frame(n, "generating", 0))],
             run' = [state EXCEPT ![r] = EnterExecution(SetStatus(@, n, "executing"))],
             UNCHANGED <<activeRun, ending>>
      PROVE  \E mid \in [Runs -> RunStates], s \in Seq(Frames) :
               ExecuteOutcome(t, n, state, calls, mid, s)
  <2> DEFINE rs == SetStatus(state[r], n, "executing")
  <2>1. /\ rs \in RunStates /\ \A m \in Nodes \ {n} : rs.nodes[m] = state[r].nodes[m]
        /\ rs.nodes[n].status = "executing" /\ rs.nodes[n].sentCount = state[r].nodes[n].sentCount
        /\ rs.nodes[n].completed = state[r].nodes[n].completed
        /\ rs.nodes[n].pulseTimer = state[r].nodes[n].pulseTimer
        /\ rs.nodes[n].pulseEnabled = state[r].nodes[n].pulseEnabled
    <3>1. "executing" \in Statuses /\ "executing" \notin FinalStatuses
      BY DEF Statuses, FinalStatuses
    <3>2. rs \in RunStates /\ \A m \in Nodes \ {n} : rs.nodes[m] = state[r].nodes[m]
      BY <1>0, <3>1, SetStatusFacts
    <3> QED
      BY <1>0, <3>1, <3>2, StatusFacts
  <2>2. run' = [state EXCEPT ![r] = EnterExecution(rs)]
    BY <1>2
  <2> HIDE DEF rs
  <2>3. EnterExecution(rs) \in RunStates /\ EnterExecution(rs).nodes = rs.nodes
    BY <2>1, ExecutionCounter
  <2>4. /\ run' \in [Runs -> RunStates] /\ run'[r] = EnterExecution(rs)
        /\ \A q \in Runs \ {r} : run'[q] = state[q]
    BY <2>2, <2>3
  <2>5. Append(calls, Frame(n, "generating", 0)) \in Seq(Frames)
    BY AppendCall DEF Frame, Frames
  <2>6. Settled(run') /\ ~Reached(r, n, state[r].nodes[n])
    BY <1>2, LimitIsReached DEF Settled
  <2>7. ExecuteOutcome(t, n, state, calls, run', Append(calls, Frame(n, "generating", 0)))
    BY <1>2, <2>1, <2>3, <2>4, <2>6 DEF ExecuteOutcome
  <2> QED
    BY <2>4, <2>5, <2>7
<1> QED
  BY <1>1, <1>2 DEF ExecuteNode

-----------------------------------------------------------------------------
(* The steps of a call that is at an await.                                *)

\* Execution states after updates of the last call of task t that leave it no work.
Progress(t, state) ==
  /\ Updated(t, state)
  /\ \A n \in EntryNodes :
       t = Pulse(t.run, n) => NodeEffect(t.run, n, state[t.run].nodes[n], run[t.run].nodes[n], <<>>)
  /\ \A n \in Nodes : state[t.run].nodes[n].status = "executing" =>
       run[t.run].nodes[n].status = "executing" /\ ~AtTop(stack[t], n)

\* Nothing is updated: the call waits for others.
LEMMA NoProgress ==
  ASSUME IInv, LimitInv, NEW t \in Tasks, stack[t] # <<>>,
         Last(stack[t]).pc \notin {"generating", "publishing"}
  PROVE  Progress(t, run)
<1>1. Updated(t, run) /\ t.run \in Runs
  BY CallFacts DEF Updated, Touched
<1>2. \A n : ~AtTop(<<>>, n) /\ ~AtTop(stack[t], n)
  BY DEF AtTop
<1> QED
  BY <1>1, <1>2 DEF Progress, NodeEffect, LimitInv

\* The stack without its last call, and with that call at another await.
LEMMA FrontWaits ==
  ASSUME IInv, LimitInv, NEW t \in Tasks, stack[t] # <<>>
  PROVE  OnlyTopWorks(Front(stack[t])) /\ \A n : ~AtTop(Front(stack[t]), n)
<1> DEFINE s == Front(stack[t])
<1>1. /\ stack[t] \in Seq(Frames) /\ s \in Seq(Frames) /\ Len(stack[t]) \in Nat \ {0}
      /\ Len(s) = Len(stack[t]) - 1 /\ \A i \in 1 .. Len(stack[t]) - 1 : s[i] = stack[t][i]
  BY CallFacts, FrontOfCalls
<1>2. \A i \in 1 .. Len(stack[t]) - 1 : stack[t][i].pc = "downstream"
  BY DEF LimitInv, OnlyTopWorks
<1> HIDE DEF s
<1>3. \A i \in 1 .. Len(s) : s[i].pc = "downstream"
  BY <1>1, <1>2
<1>4. OnlyTopWorks(s)
  BY <1>1, <1>3 DEF OnlyTopWorks
<1>5. s # <<>> => Last(s).pc = "downstream"
  <2> HAVE s # <<>>
  <2>1. Len(s) \in Nat \ {0} /\ Last(s) = s[Len(s)]
    BY <1>1, FrontOfCalls
  <2> QED
    BY <1>3, <2>1
<1>6. \A n : ~AtTop(s, n)
  BY <1>5 DEF AtTop
<1> QED
  BY <1>4, <1>6 DEF s

LEMMA ReplacedWaits ==
  ASSUME IInv, LimitInv, NEW t \in Tasks, stack[t] # <<>>, NEW f \in Frames
  PROVE  LET s == Append(Front(stack[t]), f) IN
         s \in Seq(Frames) /\ OnlyTopWorks(s) /\ s # <<>> /\ Last(s) = f
<1> DEFINE s == Append(Front(stack[t]), f)
<1>1. /\ stack[t] \in Seq(Frames) /\ Len(stack[t]) \in Nat \ {0}
      /\ s \in Seq(Frames) /\ Len(s) = Len(stack[t]) /\ s[Len(stack[t])] = f
      /\ \A i \in 1 .. Len(stack[t]) - 1 : s[i] = stack[t][i]
  BY CallFacts, ReplaceCall
<1>2. \A i \in 1 .. Len(stack[t]) - 1 : stack[t][i].pc = "downstream"
  BY DEF LimitInv, OnlyTopWorks
<1> HIDE DEF s
<1>3. OnlyTopWorks(s)
  BY <1>1, <1>2 DEF OnlyTopWorks
<1>4. s # <<>>
  BY <1>1
<1>5. Last(s) = f
  BY <1>1 DEF Last
<1> QED
  BY <1>1, <1>3, <1>4, <1>5 DEF s

LEMMA PushedWaits ==
  ASSUME NEW calls \in Seq(Frames), \A i \in 1 .. Len(calls) : calls[i].pc = "downstream",
         NEW n \in Nodes
  PROVE  LET s == Append(calls, Frame(n, "generating", 0)) IN
         OnlyTopWorks(s) /\ s # <<>> /\ Last(s).node = n /\ Last(s).pc = "generating"
<1> DEFINE f == Frame(n, "generating", 0)
           s == Append(calls, f)
<1>1. f \in Frames /\ f.node = n /\ f.pc = "generating"
  BY DEF Frame, Frames
<1> HIDE DEF f
<1>2. /\ s \in Seq(Frames) /\ Len(s) = Len(calls) + 1 /\ s[Len(calls) + 1] = f
      /\ \A i \in 1 .. Len(calls) : s[i] = calls[i]
  BY <1>1, AppendCall
<1> HIDE DEF s
<1>3. Len(calls) \in Nat
  BY LenProperties
<1>4. OnlyTopWorks(s)
  BY <1>2, <1>3 DEF OnlyTopWorks
<1>5. s # <<>>
  BY <1>2, <1>3
<1>6. Last(s) = f
  BY <1>2, <1>3 DEF Last
<1> QED
  BY <1>1, <1>4, <1>5, <1>6 DEF s, f

\* A call returns.
LEMMA ReturnLimits ==
  ASSUME IInv, LimitInv, NEW t \in Tasks, stack[t] # <<>>, UNCHANGED elapsed,
         NEW state, Progress(t, state), ReturnFromExecution(t, state)
  PROVE  \E mid \in [Runs -> RunStates], s \in Seq(Frames) : LimitEffect(t, mid, s)
<1> DEFINE s == Front(stack[t])
           mid == [state EXCEPT ![t.run] = LeaveExecution(state[t.run])]
<1>1. t.run \in Runs /\ s \in Seq(Frames) /\ state \in [Runs -> RunStates]
  BY CallFacts, FrontOfCalls DEF Progress, Updated
<1>2. LeaveExecution(state[t.run]) \in RunStates /\ LeaveExecution(state[t.run]).nodes = state[t.run].nodes
  BY <1>1, ExecutionCounter
<1>3. /\ mid \in [Runs -> RunStates] /\ mid[t.run].nodes = state[t.run].nodes
      /\ \A q \in Runs \ {t.run} : mid[q] = run[q]
  BY <1>1, <1>2 DEF Progress, Updated
<1>4. Settled(mid) /\ stack' = [stack EXCEPT ![t] = s]
  BY MaybeFinalizeSettles DEF ReturnFromExecution
<1>5. OnlyTopWorks(s) /\ \A n : ~AtTop(s, n)
  BY FrontWaits
<1>6. \A n \in EntryNodes : t # Pulse(t.run, n) => state[t.run].nodes[n] = run[t.run].nodes[n]
  BY UpdatedNodes DEF Progress
<1> HIDE DEF s, mid
<1>7. LimitEffect(t, mid, s)
  BY <1>3, <1>4, <1>5, <1>6 DEF LimitEffect, Progress, NodeEffect
<1> QED
  BY <1>1, <1>3, <1>7

\* triggerDownstream: the call waits for the target, or is about to return.
LEMMA TriggerLimits ==
  ASSUME IInv, LimitInv, NEW t \in Tasks, stack[t] # <<>>, UNCHANGED elapsed,
         NEW state, Progress(t, state), NEW i, TriggerDownstream(t, state, i)
  PROVE  \E mid \in [Runs -> RunStates], s \in Seq(Frames) : LimitEffect(t, mid, s)
<1> DEFINE r == t.run
           n == Last(stack[t]).node
           Stacked(pc, e) == Append(Front(stack[t]), Frame(n, pc, e))
<1>1. r \in Runs /\ n \in Nodes /\ state \in [Runs -> RunStates]
  BY CallFacts DEF Progress, Updated
<1>2. PICK p \in Plans(n, i) :
        /\ \A e \in p.delay : FreeSlots(r, e) # {}
        /\ IF p.await = 0
           THEN /\ stack' = [stack EXCEPT ![t] = Stacked("returning", 0)]
                /\ run' = [state EXCEPT ![r] = Tracked(state[r], NewTimers(r, p.delay))]
                /\ UNCHANGED <<activeRun, ending>>
           ELSE ExecuteNode(t, Edges[p.await].target,
                            [state EXCEPT ![r] = Tracked(state[r], NewTimers(r, p.delay))],
                            Stacked("downstream", p.await))
  <2> HIDE DEF n
  <2> QED
    BY DEF TriggerDownstream, n
<1> DEFINE timers == NewTimers(r, p.delay)
           scheduled == [state EXCEPT ![r] = Tracked(state[r], timers)]
<1>3. p.delay \subseteq DOMAIN Edges /\ (p.await # 0 => p.await \in DOMAIN Edges)
  BY DEF Plans, EdgesFrom
<1>4. timers \in SUBSET Tasks
  <2>1. \A q \in timers : q \in DelayedTasks(r)
    BY <1>1, <1>2, <1>3, NewTimersFacts
  <2> QED
    BY <1>1, <2>1, TaskRuns
<1> HIDE DEF timers
<1>5. Tracked(state[r], timers) \in RunStates /\ Tracked(state[r], timers).nodes = state[r].nodes
  BY <1>1, <1>4, TrackedFacts
<1>6. /\ scheduled \in [Runs -> RunStates] /\ scheduled[r].nodes = state[r].nodes
      /\ \A q \in Runs \ {r} : scheduled[q] = run[q]
  BY <1>1, <1>5 DEF Progress, Updated
<1>7. \A pc \in {"downstream", "returning"}, e \in Nat :
        /\ Stacked(pc, e) \in Seq(Frames) /\ OnlyTopWorks(Stacked(pc, e))
        /\ Stacked(pc, e) # <<>> /\ Last(Stacked(pc, e)).pc = pc
  <2> SUFFICES ASSUME NEW pc \in {"downstream", "returning"}, NEW e \in Nat
               PROVE  /\ Stacked(pc, e) \in Seq(Frames) /\ OnlyTopWorks(Stacked(pc, e))
                      /\ Stacked(pc, e) # <<>> /\ Last(Stacked(pc, e)).pc = pc
    OBVIOUS
  <2>1. Frame(n, pc, e) \in Frames /\ Frame(n, pc, e).pc = pc
    BY <1>1 DEF Frame, Frames
  <2> QED
    BY <2>1, ReplacedWaits
<1>8. \A m \in EntryNodes : t # Pulse(r, m) => state[r].nodes[m] = run[r].nodes[m]
  BY UpdatedNodes DEF Progress
<1> HIDE DEF scheduled
<1>9. CASE p.await = 0
  <2> DEFINE s == Stacked("returning", 0)
  <2>1. run' = scheduled /\ stack' = [stack EXCEPT ![t] = s] /\ UNCHANGED <<activeRun, ending>>
    BY <1>2, <1>9 DEF scheduled, timers
  <2>2. Settled(scheduled)
    BY <2>1 DEF Settled
  <2>3. s \in Seq(Frames) /\ OnlyTopWorks(s) /\ Last(s).pc = "returning"
    BY <1>7
  <2> HIDE DEF s
  <2>4. \A m : ~AtTop(s, m)
    BY <2>3 DEF AtTop
  <2>5. LimitEffect(t, scheduled, s)
    BY <1>6, <1>8, <2>1, <2>2, <2>3, <2>4 DEF LimitEffect, Progress, NodeEffect
  <2> QED
    BY <1>6, <2>3, <2>5
<1>10. CASE p.await # 0
  <2> DEFINE k == Edges[p.await].target
             calls == Stacked("downstream", p.await)
  <2>1. k \in Nodes /\ k \notin EntryNodes
    BY <1>3, <1>10, TargetsNotEntry
  <2>2. p.await \in Nat
    <3>1. DOMAIN Edges = 1 .. Len(Edges) /\ Len(Edges) \in Nat
      BY FlowAssumption, LenProperties
    <3> QED
      BY <1>3, <1>10, <3>1
  <2>3. calls \in Seq(Frames) /\ OnlyTopWorks(calls) /\ calls # <<>> /\ Last(calls).pc = "downstream"
    BY <1>7, <2>2
  <2>4. ExecuteNode(t, k, scheduled, calls)
    BY <1>2, <1>10 DEF scheduled, timers
  <2> HIDE DEF k, calls
  <2>5. PICK mid \in [Runs -> RunStates], s \in Seq(Frames) :
          ExecuteOutcome(t, k, scheduled, calls, mid, s)
    BY <1>1, <1>6, <2>1, <2>3, <2>4, ExecuteLimits
  <2>6. \/ s = calls /\ mid[r].nodes[k].status # "executing"
        \/ s = Append(calls, Frame(k, "generating", 0))
    BY <2>5 DEF ExecuteOutcome
  <2>7. /\ OnlyTopWorks(s) /\ \A m \in EntryNodes : ~AtTop(s, m)
        /\ mid[r].nodes[k].status = "executing" => AtTop(s, k)
    <3>1. CASE s = calls /\ mid[r].nodes[k].status # "executing"
      BY <2>3, <3>1 DEF AtTop
    <3>2. CASE s = Append(calls, Frame(k, "generating", 0))
      <4>1. \A j \in 1 .. Len(calls) : calls[j].pc = "downstream"
        <5>1. Len(calls) \in Nat \ {0} /\ Last(calls) = calls[Len(calls)]
          BY <2>3, FrontOfCalls
        <5>2. \A j \in 1 .. Len(calls) - 1 : calls[j].pc = "downstream"
          BY <2>3 DEF OnlyTopWorks
        <5> QED
          BY <2>3, <5>1, <5>2
      <4>2. OnlyTopWorks(s) /\ s # <<>> /\ Last(s).node = k /\ Last(s).pc = "generating"
        BY <2>1, <2>3, <3>2, <4>1, PushedWaits
      <4> QED
        BY <2>1, <4>2 DEF AtTop
    <3> QED
      BY <2>6, <3>1, <3>2
  <2>8. \A m \in Nodes \ {k} : mid[r].nodes[m] = state[r].nodes[m]
    BY <1>6, <2>5 DEF ExecuteOutcome
  <2>9. /\ stack' = [stack EXCEPT ![t] = s] /\ Settled(mid)
        /\ \A q \in Runs \ {r} : mid[q] = run[q]
    BY <1>6, <2>5 DEF ExecuteOutcome
  <2>10. \A m \in EntryNodes : m \in Nodes \ {k}
    BY <2>1 DEF EntryNodes
  <2>11. \A m \in EntryNodes :
           IF t = Pulse(r, m) THEN NodeEffect(r, m, mid[r].nodes[m], run[r].nodes[m], s)
           ELSE mid[r].nodes[m] = run[r].nodes[m]
    BY <1>8, <2>7, <2>8, <2>10 DEF Progress, NodeEffect
  <2>12. ASSUME NEW m \in Nodes, mid[r].nodes[m].status = "executing"
         PROVE  AtTop(s, m) \/ (run[r].nodes[m].status = "executing" /\ ~AtTop(stack[t], m))
    BY <2>7, <2>8, <2>12 DEF Progress
  <2>13. LimitEffect(t, mid, s)
    BY <2>7, <2>9, <2>11, <2>12 DEF LimitEffect
  <2> QED
    BY <2>5, <2>13
<1> QED
  BY <1>9, <1>10
\* generateBatch returned: the node that worked goes on working.
LEMMA GeneratedLimits ==
  ASSUME IInv, LimitInv, NEW t \in Tasks, Generated(t)
  PROVE  \E mid \in [Runs -> RunStates], s \in Seq(Frames) : LimitEffect(t, mid, s)
<1> DEFINE n == Last(stack[t]).node
           s == Append(Front(stack[t]), Frame(n, "publishing", 0))
<1>1. stack[t] # <<>> /\ Last(stack[t]).pc = "generating" /\ UNCHANGED elapsed
  BY DEF Generated, AtAwait
<1>2. n \in Nodes /\ run \in [Runs -> RunStates] /\ t.run \in Runs
  BY <1>1, CallFacts
<1>3. /\ Frame(n, "publishing", 0) \in Frames /\ Frame(n, "publishing", 0).pc = "publishing"
      /\ Frame(n, "publishing", 0).node = n
  BY <1>2 DEF Frame, Frames
<1>4. s \in Seq(Frames) /\ OnlyTopWorks(s) /\ s # <<>> /\ Last(s) = Frame(n, "publishing", 0)
  BY <1>1, <1>3, ReplacedWaits
<1>5. stack' = [stack EXCEPT ![t] = s] /\ Settled(run)
  BY DEF Generated, IInv, TypeOK, Settled
<1> HIDE DEF s
<1>6. \A m : AtTop(s, m) <=> AtTop(stack[t], m)
  BY <1>1, <1>3, <1>4 DEF AtTop
<1>7. LimitEffect(t, run, s)
  BY <1>1, <1>2, <1>4, <1>5, <1>6 DEF LimitEffect, NodeEffect, LimitInv
<1> QED
  BY <1>2, <1>4, <1>7

\* The last call of task t stops working: rs is what it leaves of its run.
LEMMA WorkEnds ==
  ASSUME IInv, LimitInv, NEW t \in Tasks, stack[t] # <<>>, NEW rs \in RunStates,
         LET n == Last(stack[t]).node
             new == rs.nodes[n]
             old == run[t.run].nodes[n]
         IN /\ rs.activeTimers = run[t.run].activeTimers
            /\ rs.activeExecutions = run[t.run].activeExecutions
            /\ \A m \in Nodes \ {n} : rs.nodes[m] = run[t.run].nodes[m]
            /\ Touched(new, old)
            /\ new.status # "executing"
            /\ n \in EntryNodes => Sound(t.run, n, new) /\ ~old.completed
  PROVE  Progress(t, [run EXCEPT ![t.run] = rs])
<1> DEFINE n == Last(stack[t]).node
           state == [run EXCEPT ![t.run] = rs]
<1>1. n \in Nodes /\ run \in [Runs -> RunStates] /\ t.run \in Runs
  BY CallFacts
<1>2. state \in [Runs -> RunStates] /\ state[t.run] = rs /\ \A q \in Runs \ {t.run} : state[q] = run[q]
  BY <1>1
<1> HIDE DEF state
<1>3. Updated(t, state)
  BY <1>2 DEF Updated
<1>4. \A m : ~AtTop(<<>>, m) /\ (m # n => ~AtTop(stack[t], m))
  BY DEF AtTop
<1>5. ASSUME NEW m \in EntryNodes
      PROVE  NodeEffect(t.run, m, rs.nodes[m], run[t.run].nodes[m], <<>>)
  <2>1. CASE m = n
    BY <1>4, <1>5, <2>1 DEF NodeEffect, Touched
  <2>2. CASE m # n
    <3>1. rs.nodes[m] = run[t.run].nodes[m]
      BY <1>5, <2>2 DEF EntryNodes
    <3> QED
      BY <1>1, <1>4, <1>5, <3>1 DEF NodeEffect, LimitInv
  <2> QED
    BY <2>1, <2>2
<1>6. ASSUME NEW m \in Nodes, rs.nodes[m].status = "executing"
      PROVE  run[t.run].nodes[m].status = "executing" /\ ~AtTop(stack[t], m)
  BY <1>4, <1>6
<1> QED
  BY <1>2, <1>3, <1>5, <1>6 DEF Progress, state

\* The last call of a task that works may send one more message.
LEMMA WorkerIsFree ==
  ASSUME IInv, LimitInv, NEW t \in Tasks, stack[t] # <<>>,
         Last(stack[t]).pc \in {"generating", "publishing"}, Last(stack[t]).node \in EntryNodes
  PROVE  LET n == Last(stack[t]).node IN
         Sound(t.run, n, run[t.run].nodes[n]) /\ Free(n, run[t.run].nodes[n])
<1> DEFINE n == Last(stack[t]).node
<1>1. t.run \in Runs /\ t = Pulse(t.run, n)
  BY CallFacts
<1>2. AtTop(stack[t], n)
  BY DEF AtTop
<1>3. AtTop(stack[Pulse(t.run, n)], n)
  BY <1>1, <1>2, Zenon
<1> QED
  BY <1>1, <1>3 DEF LimitInv

LEMMA ExecutionFailsLimits ==
  ASSUME IInv, LimitInv, NEW t \in Tasks, ExecutionFails(t)
  PROVE  \E mid \in [Runs -> RunStates], s \in Seq(Frames) : LimitEffect(t, mid, s)
<1> DEFINE n == Last(stack[t]).node
           rs == SetStatus(run[t.run], n, "error")
           state == [run EXCEPT ![t.run] = rs]
<1>1. /\ stack[t] # <<>> /\ Last(stack[t]).pc \in {"generating", "publishing"}
      /\ UNCHANGED elapsed /\ ReturnFromExecution(t, state)
  BY DEF ExecutionFails, AtAwait
<1>2. t.run \in Runs /\ n \in Nodes /\ run[t.run] \in RunStates
  BY <1>1, CallFacts
<1>3. "error" \in Statuses /\ "error" \in FinalStatuses
  BY DEF Statuses, FinalStatuses
<1>4. /\ rs \in RunStates
      /\ rs.activeTimers = run[t.run].activeTimers
      /\ rs.activeExecutions = run[t.run].activeExecutions
      /\ \A m \in Nodes \ {n} : rs.nodes[m] = run[t.run].nodes[m]
      /\ Touched(rs.nodes[n], run[t.run].nodes[n])
  BY <1>2, <1>3, SetStatusFacts
<1>5. /\ rs.nodes[n].status = "error" /\ rs.nodes[n].sentCount = run[t.run].nodes[n].sentCount
      /\ rs.nodes[n].completed /\ ~rs.nodes[n].pulseTimer
  BY <1>2, <1>3, StatusFacts
<1> HIDE DEF rs
<1>6. n \in EntryNodes => Sound(t.run, n, rs.nodes[n]) /\ ~run[t.run].nodes[n].completed
  BY <1>1, <1>5, WorkerIsFree DEF Sound, Free
<1>7. Progress(t, state)
  BY <1>1, <1>4, <1>5, <1>6, WorkEnds
<1> HIDE DEF state
<1> QED
  BY <1>1, <1>7, ReturnLimits

LEMMA PublishedLimits ==
  ASSUME IInv, LimitInv, NEW t \in Tasks, Published(t)
  PROVE  \E mid \in [Runs -> RunStates], s \in Seq(Frames) : LimitEffect(t, mid, s)
<1> DEFINE n == Last(stack[t]).node
           sent == CountSent(run[t.run], n)
           st == IF AtLimit(t.run, n, sent) THEN "completed" ELSE "idle"
           rs == SetStatus(sent, n, st)
           state == [run EXCEPT ![t.run] = rs]
<1>1. /\ stack[t] # <<>> /\ Last(stack[t]).pc = "publishing"
      /\ UNCHANGED elapsed /\ TriggerDownstream(t, state, 1)
  BY DEF Published, AtAwait
<1>2. t.run \in Runs /\ n \in Nodes /\ run[t.run] \in RunStates
  BY <1>1, CallFacts
<1>3. /\ sent \in RunStates
      /\ sent.activeTimers = run[t.run].activeTimers
      /\ sent.activeExecutions = run[t.run].activeExecutions
      /\ \A m \in Nodes \ {n} : sent.nodes[m] = run[t.run].nodes[m]
      /\ sent.nodes[n].completed = run[t.run].nodes[n].completed
      /\ sent.nodes[n].pulseTimer = run[t.run].nodes[n].pulseTimer
      /\ sent.nodes[n].pulseEnabled = run[t.run].nodes[n].pulseEnabled
  BY <1>2, CountSentFacts
<1>4. sent.nodes[n].sentCount = IF Count[n] = Infinity THEN run[t.run].nodes[n].sentCount
                                ELSE run[t.run].nodes[n].sentCount + 1
  BY <1>2, CountFacts
<1>5. /\ st \in Statuses /\ st # "executing" /\ st # "error"
      /\ st \in FinalStatuses <=> Reached(t.run, n, sent.nodes[n])
  BY LimitIsReached DEF Statuses, FinalStatuses
<1> HIDE DEF sent, st
<1>6. /\ rs \in RunStates
      /\ rs.activeTimers = sent.activeTimers
      /\ rs.activeExecutions = sent.activeExecutions
      /\ \A m \in Nodes \ {n} : rs.nodes[m] = sent.nodes[m]
      /\ Touched(rs.nodes[n], sent.nodes[n])
  BY <1>2, <1>3, <1>5, SetStatusFacts
<1>7. /\ rs.nodes[n].status = st /\ rs.nodes[n].sentCount = sent.nodes[n].sentCount
      /\ st \in FinalStatuses => rs.nodes[n].completed /\ ~rs.nodes[n].pulseTimer
      /\ st \notin FinalStatuses => rs.nodes[n].completed = sent.nodes[n].completed
  BY <1>2, <1>3, <1>5, StatusFacts
<1> HIDE DEF rs
<1>8. Touched(rs.nodes[n], run[t.run].nodes[n])
  BY <1>3, <1>6 DEF Touched
<1>9. ASSUME n \in EntryNodes
      PROVE  Sound(t.run, n, rs.nodes[n]) /\ ~run[t.run].nodes[n].completed
  <2>1. Free(n, run[t.run].nodes[n])
    BY <1>1, <1>9, WorkerIsFree
  <2>2. Count[n] # Infinity => rs.nodes[n].sentCount <= Count[n]
    <3>1. Count[n] # Infinity => Count[n] \in Nat /\ run[t.run].nodes[n].sentCount \in Nat
      BY <1>2, FlowAssumption DEF RunStates, NodeStates
    <3> QED
      BY <1>4, <1>7, <2>1, <3>1 DEF Free
  <2>3. rs.nodes[n].completed => Reached(t.run, n, rs.nodes[n]) /\ ~rs.nodes[n].pulseTimer
    <3>1. Reached(t.run, n, rs.nodes[n]) <=> Reached(t.run, n, sent.nodes[n])
      BY <1>7 DEF Reached
    <3> QED
      BY <1>3, <1>5, <1>7, <2>1, <3>1 DEF Free
  <2> QED
    BY <2>1, <2>2, <2>3 DEF Sound, Free
<1>10. Progress(t, state)
  BY <1>1, <1>3, <1>5, <1>6, <1>7, <1>8, <1>9, WorkEnds
<1> HIDE DEF state
<1> QED
  BY <1>1, <1>10, TriggerLimits

\* The call of a target returned, or all edges are triggered.
LEMMA WaitingLimits ==
  ASSUME IInv, LimitInv, NEW t \in Tasks, DownstreamContinues(t) \/ ExecutionReturns(t)
  PROVE  \E mid \in [Runs -> RunStates], s \in Seq(Frames) : LimitEffect(t, mid, s)
<1>1. stack[t] # <<>> /\ UNCHANGED elapsed /\ Last(stack[t]).pc \in {"downstream", "returning"}
  BY DEF DownstreamContinues, ExecutionReturns, AtAwait
<1>2. Progress(t, run)
  BY <1>1, NoProgress
<1> QED
  BY <1>1, <1>2, TriggerLimits, ReturnLimits DEF DownstreamContinues, ExecutionReturns
-----------------------------------------------------------------------------
(* The steps of a timer callback outside executeNode.                      *)

\* The first call of a callback.
LEMMA FirstWorks ==
  ASSUME NEW n \in Nodes
  PROVE  LET s == Append(<<>>, Frame(n, "generating", 0)) IN
         OnlyTopWorks(s) /\ s # <<>> /\ Last(s).node = n /\ Last(s).pc = "generating"
<1> SUFFICES ASSUME NEW calls \in Seq(Frames), calls = <<>>
             PROVE  LET s == Append(calls, Frame(n, "generating", 0)) IN
                    OnlyTopWorks(s) /\ s # <<>> /\ Last(s).node = n /\ Last(s).pc = "generating"
  BY EmptySeq
<1>1. \A i \in 1 .. Len(calls) : calls[i].pc = "downstream"
  BY EmptySeq
<1> QED
  BY <1>1, PushedWaits

\* The callback executes node n: state is what it made of the execution states before.
LEMMA CallbackExecutes ==
  ASSUME IInv, LimitInv, NEW t \in Tasks, stack[t] = <<>>, UNCHANGED elapsed,
         NEW n \in Nodes, NEW state \in [Runs -> RunStates],
         \A q \in Runs \ {t.run} : state[q] = run[q],
         \A m \in Nodes \ {n} : state[t.run].nodes[m] = run[t.run].nodes[m],
         n \in EntryNodes =>
           /\ t = Pulse(t.run, n)
           /\ Sound(t.run, n, state[t.run].nodes[n])
           /\ state[t.run].nodes[n].pulseEnabled = run[t.run].nodes[n].pulseEnabled
           /\ ~state[t.run].nodes[n].completed /\ ~run[t.run].nodes[n].completed,
         n \notin EntryNodes => t \notin {Pulse(t.run, m) : m \in EntryNodes},
         ExecuteNode(t, n, state, <<>>)
  PROVE  \E mid \in [Runs -> RunStates], s \in Seq(Frames) : LimitEffect(t, mid, s)
<1> DEFINE r == t.run
<1>1. r \in Runs /\ <<>> \in Seq(Frames) /\ Len(<<>>) = 0
  BY CallbackFacts
<1>2. PICK mid \in [Runs -> RunStates], s \in Seq(Frames) :
        ExecuteOutcome(t, n, state, <<>>, mid, s)
  BY <1>1, ExecuteLimits
<1> DEFINE new == mid[r].nodes[n]
           old == state[r].nodes[n]
<1>3. /\ stack' = [stack EXCEPT ![t] = s] /\ Settled(mid) /\ new.sentCount = old.sentCount
      /\ \A q \in Runs \ {r} : mid[q] = run[q]
      /\ \A m \in Nodes \ {n} : mid[r].nodes[m] = run[r].nodes[m]
  BY <1>2 DEF ExecuteOutcome
<1>4. \/ s = <<>> /\ new.status = "completed" /\ Reached(r, n, old) /\ new.completed /\ ~new.pulseTimer
      \/ s = <<>> /\ new.status = "error" /\ new.completed /\ ~new.pulseTimer
      \/ /\ s = <<>> /\ new.status = "idle" /\ new.completed = old.completed
         /\ new.pulseTimer = old.pulseTimer /\ new.pulseEnabled = old.pulseEnabled
      \/ /\ s = Append(<<>>, Frame(n, "generating", 0)) /\ new.status = "executing"
         /\ ~Reached(r, n, old) /\ new.completed = old.completed
         /\ new.pulseTimer = old.pulseTimer /\ new.pulseEnabled = old.pulseEnabled
  BY <1>2 DEF ExecuteOutcome
<1>5. \/ s = <<>> /\ new.status # "executing"
      \/ s # <<>> /\ Last(s).node = n /\ Last(s).pc = "generating" /\ ~Reached(r, n, old)
  <2>1. /\ Append(<<>>, Frame(n, "generating", 0)) # <<>>
        /\ Last(Append(<<>>, Frame(n, "generating", 0))).node = n
        /\ Last(Append(<<>>, Frame(n, "generating", 0))).pc = "generating"
    BY FirstWorks
  <2> QED
    BY <1>4, <2>1
<1>6. OnlyTopWorks(s)
  <2>1. CASE s = <<>>
    BY <1>1, <2>1 DEF OnlyTopWorks
  <2>2. CASE s = Append(<<>>, Frame(n, "generating", 0))
    BY <2>2, FirstWorks
  <2> QED
    BY <1>4, <2>1, <2>2
<1>7. ASSUME n \in EntryNodes
      PROVE  NodeEffect(r, n, new, run[r].nodes[n], s)
  <2>1. Sound(r, n, new)
    <3>1. Reached(r, n, old) => Reached(r, n, new)
      BY <1>3 DEF Reached
    <3> QED
      BY <1>3, <1>4, <1>7, <3>1 DEF Sound
  <2>2. AtTop(s, n) => Free(n, new)
    <3>1. HAVE AtTop(s, n)
    <3>2. ~Reached(r, n, old) /\ ~new.completed
      BY <1>4, <1>5, <1>7, <3>1 DEF AtTop
    <3>3. Count[n] # Infinity => Count[n] \in Nat /\ old.sentCount \in Nat
      BY <1>1, FlowAssumption DEF RunStates, NodeStates
    <3>4. Count[n] # Infinity => new.sentCount < Count[n]
      BY <1>3, <3>2, <3>3 DEF Reached
    <3> QED
      BY <3>2, <3>4 DEF Free
  <2>3. run[r].nodes[n].pulseEnabled => new.completed \/ new.pulseEnabled
    BY <1>4, <1>7
  <2> QED
    BY <1>7, <2>1, <2>2, <2>3 DEF NodeEffect
<1>8. ASSUME NEW m \in EntryNodes
      PROVE  IF t = Pulse(r, m) THEN NodeEffect(r, m, mid[r].nodes[m], run[r].nodes[m], s)
             ELSE mid[r].nodes[m] = run[r].nodes[m]
  <2>1. CASE m = n
    BY <1>7, <1>8, <2>1
  <2>2. CASE m # n
    <3>1. mid[r].nodes[m] = run[r].nodes[m]
      BY <1>3, <1>8, <2>2 DEF EntryNodes
    <3>2. t # Pulse(r, m)
      <4>1. CASE n \in EntryNodes
        <5>1. t = Pulse(r, n)
          BY <4>1
        <5> QED
          BY <2>2, <5>1 DEF Pulse
      <4>2. CASE n \notin EntryNodes
        BY <1>8, <4>2
      <4> QED
        BY <4>1, <4>2
    <3> QED
      BY <3>1, <3>2
  <2> QED
    BY <2>1, <2>2
<1>9. ASSUME NEW m \in Nodes, mid[r].nodes[m].status = "executing"
      PROVE  AtTop(s, m) \/ (run[r].nodes[m].status = "executing" /\ ~AtTop(stack[t], m))
  <2>1. CASE m = n
    BY <1>5, <1>9, <2>1 DEF AtTop
  <2>2. CASE m # n
    BY <1>3, <1>9, <2>2 DEF AtTop
  <2> QED
    BY <2>1, <2>2
<1> HIDE DEF new, old
<1>10. LimitEffect(t, mid, s)
  BY <1>3, <1>6, <1>8, <1>9 DEF LimitEffect
<1> QED
  BY <1>2, <1>10

\* The callback does not execute a node: only node n, its own, changes.
LEMMA CallbackOnly ==
  ASSUME IInv, LimitInv, NEW t \in Tasks, stack[t] = <<>>, UNCHANGED <<elapsed, stack>>,
         NEW mid \in [Runs -> RunStates], Settled(mid),
         \A q \in Runs \ {t.run} : mid[q] = run[q],
         NEW n,
         \A m \in Nodes \ {n} : mid[t.run].nodes[m] = run[t.run].nodes[m],
         n \in Nodes =>
           /\ n \in EntryNodes => /\ t = Pulse(t.run, n)
                                  /\ NodeEffect(t.run, n, mid[t.run].nodes[n],
                                                run[t.run].nodes[n], <<>>)
           /\ mid[t.run].nodes[n].status = "executing" => run[t.run].nodes[n].status = "executing"
  PROVE  LimitEffect(t, mid, <<>>)
<1> DEFINE r == t.run
<1>1. r \in Runs /\ stack' = [stack EXCEPT ![t] = <<>>]
  BY CallbackFacts
<1>2. OnlyTopWorks(<<>>) /\ \A m : ~AtTop(<<>>, m) /\ ~AtTop(stack[t], m)
  BY DEF OnlyTopWorks, AtTop
<1>3. ASSUME NEW m \in EntryNodes
      PROVE  IF t = Pulse(r, m) THEN NodeEffect(r, m, mid[r].nodes[m], run[r].nodes[m], <<>>)
             ELSE mid[r].nodes[m] = run[r].nodes[m]
  <2>1. m \in Nodes
    BY <1>3 DEF EntryNodes
  <2>2. CASE m = n
    BY <1>3, <2>1, <2>2
  <2>3. CASE m # n
    <3>1. mid[r].nodes[m] = run[r].nodes[m]
      BY <2>1, <2>3
    <3> QED
      BY <1>1, <1>2, <1>3, <3>1 DEF NodeEffect, LimitInv
  <2> QED
    BY <2>2, <2>3
<1>4. ASSUME NEW m \in Nodes, mid[r].nodes[m].status = "executing"
      PROVE  AtTop(<<>>, m) \/ (run[r].nodes[m].status = "executing" /\ ~AtTop(stack[t], m))
  <2>1. run[r].nodes[m].status = "executing"
    BY <1>4
  <2> QED
    BY <1>2, <2>1
<1> QED
  BY <1>1, <1>2, <1>3, <1>4 DEF LimitEffect
\* Clearing the handle of a fired timer keeps counter and status.
LEMMA FiredKeeps ==
  ASSUME NEW r \in Runs, NEW n \in Nodes, run \in [Runs -> RunStates]
  PROVE  /\ Fired(r, n)[r].nodes[n].sentCount = run[r].nodes[n].sentCount
         /\ Fired(r, n)[r].nodes[n].status = run[r].nodes[n].status
<1>1. run[r] \in RunStates /\ run[r].nodes \in [Nodes -> NodeStates]
  BY DEF RunStates
<1>2. Fired(r, n)[r].nodes[n] = [run[r].nodes[n] EXCEPT !.pulseTimer = FALSE]
  BY <1>1 DEF Fired, RunStates
<1> QED
  BY <1>1, <1>2 DEF NodeStates

LEMMA PulseFiresLimits ==
  ASSUME IInv, LimitInv, EntryNodes # {}, NEW r \in Runs, NEW n \in Nodes, PulseFires(r, n)
  PROVE  \E mid \in [Runs -> RunStates], s \in Seq(Frames) : LimitEffect(Pulse(r, n), mid, s)
<1> DEFINE t == Pulse(r, n)
           state == Fired(r, n)
<1>1. /\ t \in Tasks /\ t.run = r /\ phase[t] = "armed" /\ UNCHANGED elapsed
  BY TaskRuns DEF PulseFires
<1>2. n \in EntryNodes
  BY <1>1 DEF IInv, OnlyEntryPulses
<1>3. stack[t] = <<>> /\ <<>> \in Seq(Frames) /\ run \in [Runs -> RunStates]
  BY <1>1, CallbackFacts
<1>4. /\ Sound(r, n, run[r].nodes[n]) /\ ~run[r].nodes[n].completed
  BY <1>1, <1>2 DEF IInv, EntryPulses, LimitInv, Sound
<1>5. /\ state \in [Runs -> RunStates]
      /\ \A q \in Runs \ {r} : state[q] = run[q]
      /\ \A m \in Nodes \ {n} : state[r].nodes[m] = run[r].nodes[m]
      /\ state[r].nodes[n].completed = run[r].nodes[n].completed
      /\ state[r].nodes[n].pulseEnabled = run[r].nodes[n].pulseEnabled
  BY <1>3, FiredFacts
<1>6. /\ state[r].nodes[n].sentCount = run[r].nodes[n].sentCount
      /\ state[r].nodes[n].status = run[r].nodes[n].status
  BY <1>3, FiredKeeps
<1>7. Sound(r, n, state[r].nodes[n]) /\ ~state[r].nodes[n].completed
  BY <1>4, <1>5, <1>6 DEF Sound
<1>8. CASE /\ AtLimit(r, n, run[r])
           /\ MaybeFinalize([state EXCEPT ![r] = SetStatus(@, n, "completed")])
           /\ UNCHANGED stack
  <2> DEFINE rs == SetStatus(state[r], n, "completed")
             mid == [state EXCEPT ![r] = rs]
  <2> HIDE DEF state
  <2>1. "completed" \in Statuses /\ "completed" \in FinalStatuses
    BY DEF Statuses, FinalStatuses
  <2>2. rs \in RunStates /\ \A m \in Nodes \ {n} : rs.nodes[m] = state[r].nodes[m]
    BY <1>5, <2>1, SetStatusFacts
  <2>3. /\ rs.nodes[n].status = "completed" /\ rs.nodes[n].sentCount = state[r].nodes[n].sentCount
        /\ rs.nodes[n].completed /\ ~rs.nodes[n].pulseTimer
    BY <1>5, <2>1, StatusFacts
  <2>4. Settled(mid)
    BY <1>8, MaybeFinalizeSettles
  <2> HIDE DEF rs
  <2>5. mid \in [Runs -> RunStates] /\ mid[r] = rs /\ \A q \in Runs \ {r} : mid[q] = run[q]
    BY <1>5, <2>2
  <2> HIDE DEF mid
  <2>6. Reached(r, n, rs.nodes[n])
    <3>1. Reached(r, n, run[r].nodes[n])
      BY <1>8, LimitIsReached
    <3> QED
      BY <1>6, <2>3, <3>1 DEF Reached
  <2>7. NodeEffect(r, n, rs.nodes[n], run[r].nodes[n], <<>>)
    BY <1>4, <1>6, <2>3, <2>6 DEF NodeEffect, Sound, AtTop
  <2>8. \A m \in Nodes \ {n} : mid[r].nodes[m] = run[r].nodes[m]
    BY <1>5, <2>2, <2>5
  <2>9. mid[r].nodes[n].status # "executing"
    BY <2>3, <2>5
  <2>10. LimitEffect(t, mid, <<>>)
    <3> HIDE DEF t
    <3> QED
      BY <1>1, <1>3, <1>8, <2>4, <2>5, <2>7, <2>8, <2>9, CallbackOnly DEF t
  <2> QED
    BY <1>3, <2>5, <2>10
<1>9. CASE ExecuteNode(t, n, state, <<>>)
  <2> HIDE DEF t, state
  <2> QED
    BY <1>1, <1>2, <1>3, <1>4, <1>5, <1>7, <1>9, CallbackExecutes DEF t
<1> QED
  BY <1>8, <1>9 DEF PulseFires

LEMMA PulseReturnsLimits ==
  ASSUME IInv, LimitInv, NEW r \in Runs, NEW n \in Nodes, PulseReturns(r, n)
  PROVE  \E mid \in [Runs -> RunStates], s \in Seq(Frames) : LimitEffect(Pulse(r, n), mid, s)
<1> DEFINE t == Pulse(r, n)
<1>1. /\ t \in Tasks /\ t.run = r /\ stack[t] = <<>> /\ UNCHANGED <<elapsed, stack>>
  BY TaskRuns DEF PulseReturns
<1>2. <<>> \in Seq(Frames) /\ run \in [Runs -> RunStates]
  BY <1>1, CallbackFacts
<1>3. n \in EntryNodes => Sound(r, n, run[r].nodes[n])
  BY DEF LimitInv
<1>4. CASE PulseEnds(r, n)
  <2>1. Settled(run)
    BY <1>4, MaybeFinalizeSettles DEF PulseReturns
  <2>2. n \in EntryNodes => NodeEffect(r, n, run[r].nodes[n], run[r].nodes[n], <<>>)
    BY <1>3 DEF NodeEffect, AtTop
  <2>3. LimitEffect(t, run, <<>>)
    <3> HIDE DEF t
    <3> QED
      BY <1>1, <1>2, <2>1, <2>2, CallbackOnly DEF t
  <2> QED
    BY <1>2, <2>3
<1>5. CASE ~PulseEnds(r, n)
  <2> DEFINE node == [run[r].nodes[n] EXCEPT !.pulseTimer = TRUE]
             rs == [run[r] EXCEPT !.nodes = [run[r].nodes EXCEPT ![n] = node]]
  <2>1. /\ run' = [run EXCEPT ![r].nodes[n].pulseTimer = TRUE]
        /\ UNCHANGED <<activeRun, ending>>
        /\ ~run[r].nodes[n].completed
    BY <1>5 DEF PulseReturns, PulseEnds
  <2>2. run[r] \in RunStates /\ run[r].nodes[n] \in NodeStates
    BY <1>2 DEF RunStates
  <2>3. /\ node \in NodeStates
        /\ node.completed = run[r].nodes[n].completed
        /\ node.pulseEnabled = run[r].nodes[n].pulseEnabled
        /\ node.status = run[r].nodes[n].status
        /\ node.sentCount = run[r].nodes[n].sentCount
    BY <2>2 DEF NodeStates
  <2>4. run' = [run EXCEPT ![r] = rs]
    BY <1>2, <2>1
  <2> HIDE DEF node
  <2>5. rs \in RunStates /\ rs.nodes[n] = node /\ \A m \in Nodes \ {n} : rs.nodes[m] = run[r].nodes[m]
    BY <2>2, <2>3 DEF RunStates
  <2> HIDE DEF rs
  <2>6. run' \in [Runs -> RunStates] /\ run'[r] = rs /\ \A q \in Runs \ {r} : run'[q] = run[q]
    BY <1>2, <2>4, <2>5
  <2>7. Settled(run')
    BY <2>1 DEF Settled
  <2>8. n \in EntryNodes => NodeEffect(r, n, node, run[r].nodes[n], <<>>)
    BY <1>3, <2>1, <2>3 DEF NodeEffect, AtTop, Sound, Reached
  <2>9. PICK mid \in [Runs -> RunStates] : mid = run'
    BY <2>6
  <2>10. /\ Settled(mid) /\ \A q \in Runs \ {r} : mid[q] = run[q]
         /\ \A m \in Nodes \ {n} : mid[r].nodes[m] = run[r].nodes[m]
         /\ mid[r].nodes[n] = node
    BY <2>5, <2>6, <2>7, <2>9
  <2>11. LimitEffect(t, mid, <<>>)
    <3> HIDE DEF t
    <3> QED
      BY <1>1, <2>3, <2>8, <2>10, CallbackOnly DEF t
  <2> QED
    BY <1>2, <2>11
<1> QED
  BY <1>4, <1>5

LEMMA DelayedLimits ==
  ASSUME IInv, LimitInv, NEW t \in Tasks, t.kind = "delayed", DelayedFires(t) \/ DelayedReturns(t)
  PROVE  \E mid \in [Runs -> RunStates], s \in Seq(Frames) : LimitEffect(t, mid, s)
<1> DEFINE r == t.run
<1>1. r \in Runs /\ t \in DelayedTasks(r) /\ \A n \in Nodes : t # Pulse(r, n)
  BY TaskRuns
<1>2. /\ stack[t] = <<>> /\ <<>> \in Seq(Frames) /\ run \in [Runs -> RunStates] /\ UNCHANGED elapsed
  BY CallbackFacts DEF DelayedFires, DelayedReturns
<1>3. CASE DelayedFires(t)
  <2>1. RootNode(t) \in Nodes /\ RootNode(t) \notin EntryNodes
    BY <1>1, DelayedRoot
  <2>2. t \notin {Pulse(r, m) : m \in EntryNodes}
    BY <1>1 DEF EntryNodes
  <2>3. t \notin {Pulse(t.run, m) : m \in EntryNodes}
    BY <2>2
  <2>4. ExecuteNode(t, RootNode(t), run, <<>>)
    BY <1>3 DEF DelayedFires
  <2> QED
    BY <1>2, <2>1, <2>3, <2>4, CallbackExecutes
<1>4. CASE DelayedReturns(t)
  <2> DEFINE rs == [run[r] EXCEPT !.activeTimers = @ \ {t}]
             mid == [run EXCEPT ![r] = rs]
  <2>1. rs \in RunStates /\ rs.nodes = run[r].nodes
    BY <1>1, <1>2 DEF RunStates
  <2>2. Settled(mid)
    BY <1>4, MaybeFinalizeSettles DEF DelayedReturns
  <2> HIDE DEF rs
  <2>3. mid \in [Runs -> RunStates] /\ mid[r] = rs /\ \A q \in Runs \ {r} : mid[q] = run[q]
    BY <1>1, <1>2, <2>1
  <2> HIDE DEF mid
  <2>4. RootNode(t) \notin EntryNodes
    BY <1>1, DelayedRoot
  <2>5. LimitEffect(t, mid, <<>>)
    BY <1>1, <1>2, <1>4, <2>1, <2>2, <2>3, <2>4, CallbackOnly DEF DelayedReturns
  <2> QED
    BY <1>2, <2>3, <2>5
<1> QED
  BY <1>3, <1>4

LEMMA TaskStepLimits ==
  ASSUME IInv, LimitInv, EntryNodes # {}, NEW t \in Tasks, TaskStep(t)
  PROVE  \E mid \in [Runs -> RunStates], s \in Seq(Frames) : LimitEffect(t, mid, s)
<1>1. CASE CallStep(t)
  BY <1>1, GeneratedLimits, ExecutionFailsLimits, PublishedLimits, WaitingLimits DEF CallStep
<1>2. ASSUME NEW n \in Nodes, t = Pulse(t.run, n), PulseFires(t.run, n) \/ PulseReturns(t.run, n)
      PROVE  \E mid \in [Runs -> RunStates], s \in Seq(Frames) : LimitEffect(t, mid, s)
  BY <1>2, TaskRuns, PulseFiresLimits, PulseReturnsLimits
<1>3. CASE t.kind = "delayed" /\ (DelayedFires(t) \/ DelayedReturns(t))
  BY <1>3, DelayedLimits
<1> QED
  BY <1>1, <1>2, <1>3 DEF TaskStep
-----------------------------------------------------------------------------
(* Every step keeps the limits.                                            *)

\* The step lets a completed entry node be.
EndOnce ==
  \A r \in Runs, n \in EntryNodes :
    ending[r] # "new" /\ run[r].nodes[n].completed =>
      run'[r].nodes[n].status = run[r].nodes[n].status

\* Ending a run leaves its entry nodes alone: each of them is completed.
LEMMA SettledLimits ==
  ASSUME IInv, NEW mid \in [Runs -> RunStates], Settled(mid),
         \A r \in Runs, n \in EntryNodes :
           ending[r] # "new" => mid[r].nodes[n].completed \/ mid[r].nodes[n].pulseEnabled
  PROVE  /\ \A r \in Runs, n \in EntryNodes : run'[r].nodes[n] = mid[r].nodes[n]
         /\ \A r \in Runs, n \in Nodes : run'[r].nodes[n].status = "executing" =>
              mid[r].nodes[n].status = "executing"
         /\ \A r \in Runs :
              /\ ending'[r] # "new" => ending[r] # "new"
              /\ ending'[r] = "finalised" =>
                   ending[r] = "finalised" \/ \A n \in EntryNodes : mid[r].nodes[n].completed
<1>1. CASE run' = mid /\ UNCHANGED <<activeRun, ending>>
  BY <1>1 DEF EntryNodes
<1>2. CASE /\ activeRun # 0
           /\ Quiet(mid[activeRun])
           /\ run' = [mid EXCEPT ![activeRun] = Completed(@)]
           /\ activeRun' = 0
           /\ ending' = [ending EXCEPT ![activeRun] = "finalised"]
  <2>1. PICK f \in Runs : f = activeRun
    BY <1>2 DEF IInv, TypeOK, Runs
  <2>2. ending[f] = "running" /\ ending \in [Runs -> {"new", "running", "finalised", "stopped", "replaced"}]
    BY <2>1 DEF IInv, ActiveRunning, TypeOK
  <2>3. /\ Quiet(mid[f]) /\ run' = [mid EXCEPT ![f] = Completed(mid[f])]
        /\ ending' = [ending EXCEPT ![f] = "finalised"]
    BY <1>2, <2>1
  <2>4. \A n \in Nodes : ~mid[f].nodes[n].pulseEnabled
    BY <2>3 DEF Quiet
  <2>5. \A n \in EntryNodes : n \in Nodes /\ mid[f].nodes[n].completed
    BY <2>2, <2>4 DEF EntryNodes
  <2>6. \A n \in Nodes : /\ mid[f].nodes[n].completed => Completed(mid[f]).nodes[n] = mid[f].nodes[n]
                         /\ Completed(mid[f]).nodes[n].status = "executing" =>
                              mid[f].nodes[n].status = "executing"
    <3>1. mid[f] \in RunStates /\ mid[f].nodes \in [Nodes -> NodeStates]
      BY DEF RunStates
    <3>2. \A n \in Nodes : WithStatus(mid[f].nodes[n], "completed").status = "completed"
      BY <3>1 DEF WithStatus, NodeStates, FinalStatuses
    <3>3. \A n \in Nodes : Completed(mid[f]).nodes[n] =
            IF mid[f].nodes[n].status = "error" \/ mid[f].nodes[n].completed
            THEN mid[f].nodes[n] ELSE WithStatus(mid[f].nodes[n], "completed")
      BY <3>1 DEF Completed, RunStates
    <3> QED
      BY <3>2, <3>3
  <2>7. run'[f] = Completed(mid[f]) /\ \A r \in Runs \ {f} : run'[r] = mid[r]
    BY <2>3
  <2>8. ending'[f] = "finalised" /\ \A r \in Runs \ {f} : ending'[r] = ending[r]
    BY <2>2, <2>3
  <2>9. ASSUME NEW r \in Runs, NEW n \in EntryNodes
        PROVE  run'[r].nodes[n] = mid[r].nodes[n]
    BY <2>5, <2>6, <2>7
  <2>10. ASSUME NEW r \in Runs, NEW n \in Nodes, run'[r].nodes[n].status = "executing"
         PROVE  mid[r].nodes[n].status = "executing"
    BY <2>6, <2>7, <2>10
  <2> QED
    BY <2>2, <2>5, <2>8, <2>9, <2>10
<1> QED
  BY <1>1, <1>2 DEF Settled

LEMMA TaskStepKeeps ==
  ASSUME IInv, LimitInv, EntryNodes # {}, NEW t \in Tasks, TaskStep(t)
  PROVE  LimitInv' /\ EndOnce
<1>1. PICK mid \in [Runs -> RunStates], s \in Seq(Frames) : LimitEffect(t, mid, s)
  BY TaskStepLimits
<1> DEFINE r0 == t.run
<1>2. /\ r0 \in Runs /\ t \in TasksOf(r0) /\ t \in DOMAIN stack
      /\ \A r \in Runs : \A q \in TasksOf(r) : q \in Tasks /\ q.run = r
      /\ \A r \in Runs, n \in Nodes : Pulse(r, n) \in Tasks /\ Pulse(r, n).run = r
  BY TaskRuns DEF IInv, TypeOK
<1>3. /\ UNCHANGED elapsed /\ Settled(mid) /\ \A q \in Runs \ {r0} : mid[q] = run[q]
      /\ stack'[t] = s /\ OnlyTopWorks(s) /\ \A q \in Tasks \ {t} : stack'[q] = stack[q]
  BY <1>1, <1>2 DEF LimitEffect, IInv, TypeOK
<1>4. \A n \in EntryNodes : n \in Nodes
  BY DEF EntryNodes
<1>5. ASSUME NEW r \in Runs, NEW n \in EntryNodes
      PROVE  /\ Sound(r, n, mid[r].nodes[n])
             /\ AtTop(stack'[Pulse(r, n)], n) => Free(n, mid[r].nodes[n])
             /\ ending[r] # "new" => mid[r].nodes[n].completed \/ mid[r].nodes[n].pulseEnabled
             /\ ending[r] = "finalised" => mid[r].nodes[n].completed
             /\ run[r].nodes[n].completed => mid[r].nodes[n].status = run[r].nodes[n].status
  <2>1. /\ Sound(r, n, run[r].nodes[n])
        /\ AtTop(stack[Pulse(r, n)], n) => Free(n, run[r].nodes[n])
        /\ ending[r] # "new" => run[r].nodes[n].completed \/ run[r].nodes[n].pulseEnabled
        /\ ending[r] = "finalised" => run[r].nodes[n].completed
    BY DEF LimitInv
  <2>2. CASE t = Pulse(r, n)
    <3>1. r = r0
      BY <1>2, <1>4, <2>2
    <3>2. NodeEffect(r, n, mid[r].nodes[n], run[r].nodes[n], s)
      BY <1>1, <2>2, <3>1 DEF LimitEffect
    <3>3. stack'[Pulse(r, n)] = s
      BY <1>3, <2>2
    <3> QED
      BY <2>1, <3>2, <3>3 DEF NodeEffect
  <2>3. CASE t # Pulse(r, n)
    <3>1. mid[r].nodes[n] = run[r].nodes[n]
      BY <1>1, <1>3, <2>3 DEF LimitEffect
    <3>2. stack'[Pulse(r, n)] = stack[Pulse(r, n)]
      BY <1>2, <1>3, <1>4, <2>3
    <3> QED
      BY <2>1, <3>1, <3>2
  <2> QED
    BY <2>2, <2>3
<1>6. /\ \A r \in Runs, n \in EntryNodes : run'[r].nodes[n] = mid[r].nodes[n]
      /\ \A r \in Runs, n \in Nodes : run'[r].nodes[n].status = "executing" =>
           mid[r].nodes[n].status = "executing"
      /\ \A r \in Runs :
           /\ ending'[r] # "new" => ending[r] # "new"
           /\ ending'[r] = "finalised" =>
                ending[r] = "finalised" \/ \A n \in EntryNodes : mid[r].nodes[n].completed
  BY <1>3, <1>5, SettledLimits
<1>7. ASSUME NEW r \in Runs, NEW n \in EntryNodes
      PROVE  /\ Sound(r, n, run[r].nodes[n])'
             /\ (AtTop(stack[Pulse(r, n)], n) => Free(n, run[r].nodes[n]))'
             /\ ending'[r] # "new" => run'[r].nodes[n].completed \/ run'[r].nodes[n].pulseEnabled
             /\ ending'[r] = "finalised" => run'[r].nodes[n].completed
  <2>1. Sound(r, n, run[r].nodes[n])'
    BY <1>3, <1>5, <1>6 DEF Sound, Reached
  <2>2. (AtTop(stack[Pulse(r, n)], n) => Free(n, run[r].nodes[n]))'
    BY <1>5, <1>6 DEF AtTop, Free
  <2> QED
    BY <1>5, <1>6, <2>1, <2>2
<1>8. ASSUME NEW q \in Tasks
      PROVE  OnlyTopWorks(stack[q])'
  <2>1. OnlyTopWorks(stack[q])
    BY DEF LimitInv
  <2> QED
    BY <1>3, <2>1 DEF OnlyTopWorks
<1>9. ASSUME NEW r \in Runs, NEW n \in Nodes, run'[r].nodes[n].status = "executing"
      PROVE  \E q \in TasksOf(r) : AtTop(stack'[q], n)
  <2>1. mid[r].nodes[n].status = "executing"
    BY <1>6, <1>9
  <2>2. CASE r = r0 /\ AtTop(s, n)
    BY <1>2, <1>3, <2>2
  <2>3. CASE ~(r = r0 /\ AtTop(s, n))
    <3>1. run[r].nodes[n].status = "executing" /\ (r = r0 => ~AtTop(stack[t], n))
      BY <1>1, <1>3, <2>1, <2>3 DEF LimitEffect
    <3>2. PICK q \in TasksOf(r) : AtTop(stack[q], n)
      BY <3>1 DEF LimitInv
    <3>3. q # t
      BY <1>2, <3>1, <3>2
    <3>4. stack'[q] = stack[q]
      BY <1>2, <1>3, <3>3
    <3> QED
      BY <3>2, <3>4
  <2> QED
    BY <2>2, <2>3
<1>10. LimitInv'
  <2>1. ASSUME NEW r \in Runs, NEW n \in Nodes, run'[r].nodes[n].status = "executing"
        PROVE  \E q \in TasksOf(r) : AtTop(stack[q], n)'
    BY <1>9, <2>1 DEF AtTop
  <2> QED
    BY <1>7, <1>8, <2>1 DEF LimitInv, EntryNodes
<1>11. EndOnce
  BY <1>5, <1>6 DEF EndOnce
<1> QED
  BY <1>10, <1>11
\* A run as createExecutionState makes it.
LEMMA CreatedKeeps ==
  ASSUME NEW pulsed, NEW n \in Nodes
  PROVE  LET new == CreatedRun(pulsed).nodes[n] IN
         new.sentCount = 0 /\ new.status = "idle" /\ new.completed = FALSE
<1> DEFINE node(m) == [sentCount |-> 0, pulseTimer |-> m \in pulsed,
                       pulseEnabled |-> m \in pulsed, status |-> "idle", completed |-> FALSE]
           nodes == [m \in Nodes |-> node(m)]
<1>1. CreatedRun(pulsed).nodes = nodes
  BY DEF CreatedRun
<1>2. node(n).sentCount = 0 /\ node(n).status = "idle" /\ node(n).completed = FALSE
  OBVIOUS
<1> HIDE DEF node
<1> QED
  BY <1>1, <1>2

LEMMA CreatedSound ==
  ASSUME NEW r, NEW pulsed, NEW n \in Nodes
  PROVE  Sound(r, n, CreatedRun(pulsed).nodes[n])
<1>1. /\ CreatedRun(pulsed).nodes[n].sentCount = 0
      /\ CreatedRun(pulsed).nodes[n].completed = FALSE
  BY CreatedKeeps
<1>2. Count[n] # Infinity => 0 <= Count[n]
  BY FlowAssumption
<1> QED
  BY <1>1, <1>2 DEF Sound

LEMMA InitLimits == Init => LimitInv
<1> SUFFICES ASSUME Init PROVE LimitInv
  OBVIOUS
<1>1. \A r \in Runs : run[r] = CreatedRun({}) /\ ending[r] = "new"
  BY DEF Init
<1>2. \A t \in Tasks : stack[t] = <<>> /\ Len(stack[t]) = 0
  BY EmptySeq DEF Init
<1>3. \A r \in Runs, n \in Nodes : Pulse(r, n) \in Tasks
  BY TaskRuns
<1>4. ASSUME NEW r \in Runs, NEW n \in EntryNodes
      PROVE  Sound(r, n, run[r].nodes[n]) /\ ~AtTop(stack[Pulse(r, n)], n)
  <2>1. n \in Nodes
    BY DEF EntryNodes
  <2> QED
    BY <1>1, <1>2, <1>3, <2>1, CreatedSound DEF AtTop
<1>5. \A t \in Tasks : OnlyTopWorks(stack[t])
  BY <1>2 DEF OnlyTopWorks
<1>6. \A r \in Runs, n \in Nodes : run[r].nodes[n].status # "executing"
  BY <1>1, CreatedKeeps
<1> QED
  BY <1>1, <1>4, <1>5, <1>6 DEF LimitInv

\* Actions that make no call and leave counters, statuses and ends alone.
LEMMA LimitsSame ==
  ASSUME IInv, LimitInv, UNCHANGED stack,
         elapsed' \in [Runs -> Nat], \A r \in Runs : elapsed'[r] >= elapsed[r],
         \A r \in Runs, n \in Nodes :
           /\ run'[r].nodes[n].sentCount = run[r].nodes[n].sentCount
           /\ run'[r].nodes[n].status = run[r].nodes[n].status
           /\ run'[r].nodes[n].completed = run[r].nodes[n].completed
           /\ run'[r].nodes[n].pulseEnabled = run[r].nodes[n].pulseEnabled
           /\ run'[r].nodes[n].pulseTimer => run[r].nodes[n].pulseTimer,
         \A r \in Runs : /\ ending'[r] # "new" => ending[r] # "new"
                         /\ ending'[r] = "finalised" => ending[r] = "finalised"
  PROVE  LimitInv' /\ EndOnce
<1>1. \A n \in EntryNodes : n \in Nodes
  BY DEF EntryNodes
<1>2. ASSUME NEW r \in Runs, NEW n \in EntryNodes
      PROVE  /\ Sound(r, n, run[r].nodes[n])'
             /\ (AtTop(stack[Pulse(r, n)], n) => Free(n, run[r].nodes[n]))'
             /\ ending'[r] # "new" => run'[r].nodes[n].completed \/ run'[r].nodes[n].pulseEnabled
             /\ ending'[r] = "finalised" => run'[r].nodes[n].completed
  <2>1. /\ Sound(r, n, run[r].nodes[n])
        /\ AtTop(stack[Pulse(r, n)], n) => Free(n, run[r].nodes[n])
        /\ ending[r] # "new" => run[r].nodes[n].completed \/ run[r].nodes[n].pulseEnabled
        /\ ending[r] = "finalised" => run[r].nodes[n].completed
    BY DEF LimitInv
  <2>2. Duration[n] # Infinity /\ elapsed[r] >= Duration[n] => elapsed'[r] >= Duration[n]
    <3>1. Duration[n] # Infinity => Duration[n] \in Nat
      BY <1>1, FlowAssumption
    <3>2. elapsed[r] \in Nat /\ elapsed'[r] \in Nat /\ elapsed'[r] >= elapsed[r]
      BY DEF IInv, TypeOK
    <3> QED
      BY <3>1, <3>2
  <2>3. /\ run'[r].nodes[n].sentCount = run[r].nodes[n].sentCount
        /\ run'[r].nodes[n].status = run[r].nodes[n].status
        /\ run'[r].nodes[n].completed = run[r].nodes[n].completed
        /\ run'[r].nodes[n].pulseEnabled = run[r].nodes[n].pulseEnabled
        /\ run'[r].nodes[n].pulseTimer => run[r].nodes[n].pulseTimer
    BY <1>1
  <2> DEFINE new == run'[r].nodes[n]
  <2>4. Sound(r, n, run[r].nodes[n])'
    BY <2>1, <2>2, <2>3 DEF Sound, Reached
  <2>5. (AtTop(stack[Pulse(r, n)], n) => Free(n, run[r].nodes[n]))'
    BY <2>1, <2>3 DEF AtTop, Free
  <2> QED
    BY <2>1, <2>3, <2>4, <2>5
<1>3. ASSUME NEW t \in Tasks
      PROVE  OnlyTopWorks(stack[t])'
  BY DEF LimitInv, OnlyTopWorks
<1>4. ASSUME NEW r \in Runs, NEW n \in Nodes, run'[r].nodes[n].status = "executing"
      PROVE  \E t \in TasksOf(r) : AtTop(stack[t], n)'
  BY <1>4 DEF LimitInv, AtTop
<1>5. LimitInv'
  BY <1>2, <1>3, <1>4 DEF LimitInv, EntryNodes
<1>6. EndOnce
  BY <1>1 DEF EndOnce
<1> QED
  BY <1>5, <1>6

LEMMA StopFlowLimits ==
  ASSUME IInv, LimitInv, StopFlow
  PROVE  LimitInv' /\ EndOnce
<1>1. PICK r \in Runs : r = activeRun
  BY DEF IInv, TypeOK, StopFlow, Runs
<1>2. run \in [Runs -> RunStates] /\ run[r].nodes \in [Nodes -> NodeStates] /\ ending[r] = "running"
      /\ ending \in [Runs -> {"new", "running", "finalised", "stopped", "replaced"}]
  BY <1>1 DEF IInv, TypeOK, ActiveRunning, RunStates
<1>3. ASSUME NEW q \in Runs, NEW n \in Nodes
      PROVE  /\ run'[q].nodes[n].sentCount = run[q].nodes[n].sentCount
             /\ run'[q].nodes[n].status = run[q].nodes[n].status
             /\ run'[q].nodes[n].completed = run[q].nodes[n].completed
             /\ run'[q].nodes[n].pulseEnabled = run[q].nodes[n].pulseEnabled
             /\ run'[q].nodes[n].pulseTimer => run[q].nodes[n].pulseTimer
  <2> DEFINE nodes == [m \in Nodes |-> [run[r].nodes[m] EXCEPT !.pulseTimer = FALSE]]
  <2>1. run' = [run EXCEPT ![r] = [run[r] EXCEPT !.nodes = nodes]]
    BY <1>1 DEF StopFlow
  <2>2. CASE q = r
    <3>1. run'[q].nodes[n] = [run[r].nodes[n] EXCEPT !.pulseTimer = FALSE]
      BY <1>2, <2>1, <2>2 DEF RunStates
    <3>2. run[r].nodes[n] \in NodeStates
      BY <1>2
    <3> QED
      BY <2>2, <3>1, <3>2 DEF NodeStates
  <2>3. CASE q # r
    <3>1. run'[q] = run[q]
      BY <1>2, <2>1, <2>3
    <3> QED
      BY <3>1
  <2> QED
    BY <2>2, <2>3
<1>4. \A q \in Runs : /\ ending'[q] # "new" => ending[q] # "new"
                      /\ ending'[q] = "finalised" => ending[q] = "finalised"
  BY <1>1, <1>2 DEF StopFlow
<1>5. UNCHANGED stack /\ elapsed' \in [Runs -> Nat] /\ \A q \in Runs : elapsed'[q] >= elapsed[q]
  BY DEF StopFlow, IInv, TypeOK
<1> QED
  BY <1>3, <1>4, <1>5, LimitsSame

LEMMA TickLimits ==
  ASSUME IInv, LimitInv, (\E r \in Runs : Tick(r)) \/ UNCHANGED vars
  PROVE  LimitInv' /\ EndOnce
<1>1. elapsed \in [Runs -> Nat]
  BY DEF IInv, TypeOK
<1>2. UNCHANGED <<run, ending, stack>>
  BY DEF Tick, vars
<1>3. elapsed' \in [Runs -> Nat] /\ \A q \in Runs : elapsed'[q] >= elapsed[q]
  <2>1. CASE UNCHANGED vars
    BY <1>1, <2>1 DEF vars
  <2>2. ASSUME NEW r \in Runs, Tick(r)
        PROVE  elapsed' \in [Runs -> Nat] /\ \A q \in Runs : elapsed'[q] >= elapsed[q]
    <3>1. elapsed' = [elapsed EXCEPT ![r] = @ + 1]
      BY <2>2 DEF Tick
    <3> QED
      BY <1>1, <3>1
  <2> QED
    BY <2>1, <2>2
<1> QED
  BY <1>2, <1>3, LimitsSame

LEMMA StartFlowLimits ==
  ASSUME IInv, LimitInv, EntryNodes # {}, NEW r \in Runs, StartFlow(r)
  PROVE  LimitInv' /\ EndOnce
<1>1. /\ ending[r] = "new" /\ run' = [run EXCEPT ![r] = CreatedRun(EntryNodes)]
      /\ ending' = [q \in Runs |-> IF q = r THEN "running"
                                   ELSE IF q = activeRun THEN "replaced" ELSE ending[q]]
      /\ UNCHANGED <<elapsed, stack>>
  BY DEF StartFlow, NodesToStart
<1>2. /\ run \in [Runs -> RunStates] /\ \A n \in EntryNodes : n \in Nodes
      /\ \A q \in Runs, n \in Nodes : Pulse(q, n) \in TasksOf(q) /\ Pulse(q, n) \in Tasks
      /\ \A q \in Runs : \A t \in TasksOf(q) : t \in Tasks
  BY TaskRuns DEF IInv, TypeOK, EntryNodes
<1>3. \A t \in TasksOf(r) : stack[t] = <<>>
  BY <1>1, <1>2 DEF IInv, NewIdle, CallsRunning
<1>4. run'[r] = CreatedRun(EntryNodes) /\ \A q \in Runs \ {r} : run'[q] = run[q]
  BY <1>1, <1>2
<1>5. /\ ending'[r] = "running"
      /\ \A q \in Runs \ {r} : /\ ending'[q] # "new" => ending[q] # "new"
                               /\ ending'[q] = "finalised" => ending[q] = "finalised"
  BY <1>1 DEF IInv, ActiveRunning
<1>6. ASSUME NEW q \in Runs, NEW n \in EntryNodes
      PROVE  /\ Sound(q, n, run[q].nodes[n])'
             /\ (AtTop(stack[Pulse(q, n)], n) => Free(n, run[q].nodes[n]))'
             /\ ending'[q] # "new" => run'[q].nodes[n].completed \/ run'[q].nodes[n].pulseEnabled
             /\ ending'[q] = "finalised" => run'[q].nodes[n].completed
  <2>1. CASE q = r
    <3>1. run'[q].nodes[n].pulseEnabled = (n \in EntryNodes)
      BY <1>2, <1>4, <2>1, CreatedFacts, Zenon
    <3>2. Sound(q, n, CreatedRun(EntryNodes).nodes[n])
      BY <1>2, CreatedSound
    <3>3. Sound(q, n, run[q].nodes[n])'
      BY <1>1, <1>4, <2>1, <3>2 DEF Sound, Reached
    <3>4. ~AtTop(stack[Pulse(q, n)], n)'
      BY <1>1, <1>2, <1>3, <2>1 DEF AtTop
    <3>5. run'[q].nodes[n].pulseEnabled
      BY <3>1
    <3> QED
      BY <1>5, <2>1, <3>3, <3>4, <3>5
  <2>2. CASE q # r
    <3>1. run'[q] = run[q]
      BY <1>4, <2>2
    <3>2. /\ Sound(q, n, run[q].nodes[n])
          /\ AtTop(stack[Pulse(q, n)], n) => Free(n, run[q].nodes[n])
          /\ ending[q] # "new" => run[q].nodes[n].completed \/ run[q].nodes[n].pulseEnabled
          /\ ending[q] = "finalised" => run[q].nodes[n].completed
      BY DEF LimitInv
    <3>3. Sound(q, n, run[q].nodes[n])'
      BY <1>1, <3>1, <3>2 DEF Sound, Reached
    <3>4. (AtTop(stack[Pulse(q, n)], n) => Free(n, run[q].nodes[n]))'
      BY <1>1, <3>1, <3>2 DEF AtTop, Free
    <3> QED
      BY <1>5, <2>2, <3>1, <3>2, <3>3, <3>4
  <2> QED
    BY <2>1, <2>2
<1>7. ASSUME NEW t \in Tasks
      PROVE  OnlyTopWorks(stack[t])'
  BY <1>1 DEF LimitInv, OnlyTopWorks
<1>8. ASSUME NEW q \in Runs, NEW n \in Nodes, run'[q].nodes[n].status = "executing"
      PROVE  \E t \in TasksOf(q) : AtTop(stack[t], n)'
  <2>1. q # r
    BY <1>4, <1>8, CreatedKeeps
  <2> QED
    BY <1>1, <1>4, <1>8, <2>1 DEF LimitInv, AtTop
<1>9. LimitInv'
  BY <1>6, <1>7, <1>8 DEF LimitInv, EntryNodes
<1>10. EndOnce
  BY <1>1, <1>4 DEF EndOnce
<1> QED
  BY <1>9, <1>10

LEMMA NextLimits ==
  ASSUME IInv, LimitInv, EntryNodes # {}, [Next]_vars
  PROVE  LimitInv' /\ EndOnce
<1>1. CASE \E r \in Runs : StartFlow(r)
  BY <1>1, StartFlowLimits
<1>2. CASE (\E r \in Runs : Tick(r)) \/ UNCHANGED vars
  BY <1>2, TickLimits
<1>3. CASE StopFlow
  BY <1>3, StopFlowLimits
<1>4. CASE \E t \in Tasks : TaskStep(t)
  BY <1>4, TaskStepKeeps
<1> QED
  BY <1>1, <1>2, <1>3, <1>4 DEF Next

-----------------------------------------------------------------------------
(* The theorems.                                                           *)

\* A run of a flow with an entry node keeps to its limits: no entry node sends more than
\* its count, the run ends by itself only when each of them reached its count or its time
\* or failed, and then no node is shown executing.
THEOREM LimitsAreKept ==
  ASSUME EntryNodes # {}
  PROVE  Spec => []LimitsKept
<1>1. IInv /\ LimitInv => LimitsKept
  <2> SUFFICES ASSUME IInv, LimitInv PROVE LimitsKept
    OBVIOUS
  <2>1. EntryCountRespected
    BY DEF LimitInv, Sound, EntryCountRespected
  <2>2. FinalisedIsDone
    <3> SUFFICES ASSUME NEW r \in Runs, NEW n \in EntryNodes, ending[r] = "finalised"
                 PROVE  run[r].nodes[n].status = "error" \/ AtLimit(r, n, run[r])
      BY DEF FinalisedIsDone
    <3>1. Sound(r, n, run[r].nodes[n]) /\ run[r].nodes[n].completed
      BY DEF LimitInv
    <3>2. AtLimit(r, n, run[r]) <=> Reached(r, n, run[r].nodes[n])
      BY DEF AtLimit, Reached
    <3> QED
      BY <3>1, <3>2 DEF Sound
  <2>3. NoneExecutingWhenFinalised
    <3> SUFFICES ASSUME NEW r \in Runs, NEW n \in Nodes, ending[r] = "finalised",
                        run[r].nodes[n].status = "executing"
                 PROVE  FALSE
      BY DEF NoneExecutingWhenFinalised
    <3>1. PICK t \in TasksOf(r) : stack[t] # <<>>
      BY DEF LimitInv, AtTop
    <3> QED
      BY <3>1 DEF IInv, FinalisedQuiet, Busy
  <2> QED
    BY <2>1, <2>2, <2>3 DEF LimitsKept
<1>2. Init => LimitInv
  BY InitLimits
<1>3. IInv /\ LimitInv /\ [Next]_vars => LimitInv'
  BY NextLimits
<1> QED
  BY <1>1, <1>2, <1>3, Invariance, PTL DEF Spec

\* An entry node that reached a limit or failed never executes again in its run, whatever
\* is published, fails or is started meanwhile.
THEOREM EntryNodesAreDone ==
  ASSUME EntryNodes # {}
  PROVE  Spec => EntryNodesEndOnce
<1>1. Init => LimitInv
  BY InitLimits
<1>2. IInv /\ LimitInv /\ [Next]_vars => LimitInv'
  BY NextLimits
<1>3. IInv /\ LimitInv /\ [Next]_vars => [EndOnce]_vars
  BY NextLimits
<1>4. Spec => [][EndOnce]_vars
  BY <1>1, <1>2, <1>3, Invariance, PTL DEF Spec
<1> QED
  BY <1>4 DEF EntryNodesEndOnce, EndOnce

-----------------------------------------------------------------------------
(* The engine implements FlowLifecycle: every step of FlowEngine is a step *)
(* of the abstract specification or leaves its variables alone.            *)

BusyRuns == {r \in Runs : Busy(r)}

-----------------------------------------------------------------------------
(* Which runs are busy after a step.                                       *)

\* A run whose calls and timers are at most those of before, with its completed nodes
\* still completed, is not busy unless it was.
LEMMA NoNewWork ==
  ASSUME NEW r \in Runs,
         \A q \in TasksOf(r) : stack[q] = <<>> => stack'[q] = <<>>,
         \A q \in TasksOf(r) : phase'[q] = phase[q] \/ phase'[q] = "off",
         \A n \in Nodes : run[r].nodes[n].completed => run'[r].nodes[n].completed,
         Busy(r)'
  PROVE  Busy(r)
<1>1. CASE \E q \in TasksOf(r) : stack'[q] # <<>>
  BY <1>1 DEF Busy
<1>2. CASE \E q \in DelayedTasks(r) : phase'[q] # "off"
  BY <1>2 DEF Busy, TasksOf
<1>3. CASE \E n \in Nodes : PulseLive(r, n)'
  <2>1. PICK n \in Nodes : PulseLive(r, n)'
    BY <1>3
  <2>2. phase'[Pulse(r, n)] = phase[Pulse(r, n)] \/ phase'[Pulse(r, n)] = "off"
    BY TaskRuns
  <2>3. PulseLive(r, n)
    BY <2>1, <2>2 DEF PulseLive
  <2> QED
    BY <2>3 DEF Busy
<1> QED
  BY <1>1, <1>2, <1>3 DEF Busy

\* A task ends work of its own run or goes on with it, and it may end the active run.
LEMMA TaskStepLifecycle ==
  ASSUME IInv, NEW t \in Tasks, TaskStep(t)
  PROVE  /\ t.run \in Runs
         /\ \A r \in Runs : Busy(r)' => Busy(r)
         /\ \/ ending' = ending /\ \A r \in Runs \ {t.run} : Busy(r)' <=> Busy(r)
            \/ /\ activeRun \in Runs /\ ending[activeRun] = "running"
               /\ ending' = [ending EXCEPT ![activeRun] = "finalised"]
<1>1. PICK mid \in [Runs -> RunStates], s \in Seq(Frames) : Effect(t, mid, s)
  BY TaskStepEffect
<1>2. /\ TypeOK /\ t.run \in Runs
      /\ \A r \in Runs : \A q \in TasksOf(r) : q \in Tasks /\ q.run = r
  BY TaskRuns DEF IInv
<1>3. /\ stack'[t] = s
      /\ \A q \in Tasks \ {t} : stack'[q] = stack[q]
      /\ \A q \in Tasks \ {t} : phase'[q] = phase[q] \/ Scheduled(t, q)
      /\ \A q \in Runs \ {t.run} : mid[q] = run[q]
  BY <1>1, <1>2 DEF Effect, EffectOnCalls, EffectOnTimers, TypeOK
<1>4. \A r \in Runs, n \in Nodes : run[r].nodes[n].completed => run'[r].nodes[n].completed
  <2>1. \A r \in Runs, n \in Nodes : mid[r].nodes[n].completed => run'[r].nodes[n].completed
    BY <1>1, <1>2, SettledFacts DEF Effect
  <2>2. \A n \in Nodes : run[t.run].nodes[n].completed => mid[t.run].nodes[n].completed
    BY <1>1 DEF Effect, EffectOnNodes
  <2> QED
    BY <1>3, <2>1, <2>2
<1>5. \A r \in Runs \ {t.run} : \A q \in TasksOf(r) : stack'[q] = stack[q] /\ phase'[q] = phase[q]
  BY <1>2, <1>3, TaskRuns DEF Scheduled
<1>6. ASSUME NEW r \in Runs, Busy(r)'
      PROVE  Busy(r)
  <2>1. CASE r # t.run
    BY <1>4, <1>5, <1>6, <2>1, NoNewWork
  <2>2. CASE r = t.run
    <3> SUFFICES ASSUME ~Busy(r)
                 PROVE  FALSE
      OBVIOUS
    <3>1. phase'[t] = "off" /\ s = <<>> /\ \A q \in Tasks \ {t} : phase'[q] = phase[q]
      BY <1>1, <2>2 DEF Effect
    <3>2. /\ \A q \in TasksOf(r) : stack[q] = <<>> => stack'[q] = <<>>
          /\ \A q \in TasksOf(r) : phase'[q] = phase[q] \/ phase'[q] = "off"
      BY <1>2, <1>3, <3>1
    <3> QED
      BY <1>4, <1>6, <3>2, NoNewWork
  <2> QED
    BY <2>1, <2>2
<1>7. CASE run' = mid /\ UNCHANGED <<activeRun, ending>>
  BY <1>2, <1>3, <1>5, <1>6, <1>7, BusySame
<1>8. CASE activeRun # 0 /\ ending' = [ending EXCEPT ![activeRun] = "finalised"]
  BY <1>2, <1>6, <1>8 DEF TypeOK, Runs, IInv, ActiveRunning
<1> QED
  BY <1>1, <1>2, <1>6, <1>7, <1>8 DEF Effect, Settled

-----------------------------------------------------------------------------
(* The steps of the abstract specification.                                *)

LEMMA StartIsStart ==
  ASSUME EntryNodes # {}, IInv, NEW r \in Runs, StartFlow(r)
  PROVE  Lifecycle!Start(r)
<1>1. /\ ending[r] = "new" /\ stack' = stack /\ TypeOK
      /\ ending' = [q \in Runs |-> IF q = r THEN "running"
                                   ELSE IF q = activeRun THEN "replaced" ELSE ending[q]]
      /\ \A q \in Runs \ {r} : run'[q] = run[q]
  BY DEF IInv, StartFlow, TypeOK
<1>2. ending' = [q \in Runs |-> IF q = r THEN "running"
                                ELSE IF ending[q] = "running" THEN "replaced" ELSE ending[q]]
  BY <1>1 DEF IInv, ActiveRunning
<1>3. \A q \in Runs \ {r} : \A t \in TasksOf(q) : phase'[t] = phase[t]
  BY TaskRuns DEF StartFlow, NodesToStart, EntryNodes
<1>4. \A q \in Runs \ {r} : Busy(q)' <=> Busy(q)
  BY <1>1, <1>3, BusySame
<1>5. Busy(r)'
  <2>1. PICK n \in EntryNodes : TRUE
    OBVIOUS
  <2>2. n \in NodesToStart /\ n \in Nodes /\ Pulse(r, n) \in Tasks
    BY <2>1, TaskRuns DEF NodesToStart, EntryNodes
  <2>3. phase'[Pulse(r, n)] = "armed"
    BY <2>2 DEF StartFlow
  <2> QED
    BY <2>2, <2>3 DEF Busy, PulseLive
<1>6. BusyRuns' = BusyRuns \cup {r}
  BY <1>4, <1>5 DEF BusyRuns
<1> QED
  BY <1>1, <1>2, <1>6 DEF Lifecycle!Start, Lifecycle!Runs, Runs, BusyRuns

LEMMA StopIsStop ==
  ASSUME IInv, StopFlow
  PROVE  \E r \in Runs : Lifecycle!Stop(r)
<1>0. PICK r \in Runs : r = activeRun
  BY DEF IInv, StopFlow, TypeOK, Runs
<1>1. /\ TypeOK /\ r \in Runs /\ ending[r] = "running"
      /\ ending' = [ending EXCEPT ![r] = "stopped"] /\ stack' = stack
      /\ \A t \in Tasks : phase'[t] = IF t \in Cleared(r) /\ phase[t] = "armed" THEN "off" ELSE phase[t]
  BY <1>0 DEF IInv, StopFlow, TypeOK, ActiveRunning, Runs
<1>2. \A t \in Cleared(r) : t \in TasksOf(r)
  BY <1>1, TaskRuns DEF IInv, TimersTracked, Cleared
<1>3. \A q \in Runs \ {r} : Busy(q)' <=> Busy(q)
  <2>1. \A q \in Runs \ {r} : run'[q] = run[q]
    BY <1>0, <1>1 DEF StopFlow, TypeOK
  <2>2. \A q \in Runs \ {r} : \A t \in TasksOf(q) : phase'[t] = phase[t]
    BY <1>1, <1>2, TaskRuns
  <2> QED
    BY <1>1, <2>1, <2>2, BusySame
<1>4. Busy(r)' => Busy(r)
  <2>1. \A n \in Nodes : run'[r].nodes[n].completed = run[r].nodes[n].completed
    <3> DEFINE nodes == [n \in Nodes |-> [run[r].nodes[n] EXCEPT !.pulseTimer = FALSE]]
    <3>1. run[r] \in RunStates
      BY <1>1 DEF TypeOK
    <3>2. \A n \in Nodes : nodes[n].completed = run[r].nodes[n].completed
      BY <3>1 DEF RunStates, NodeStates
    <3>3. run' = [run EXCEPT ![r] = [run[r] EXCEPT !.nodes = nodes]]
      BY <1>0 DEF StopFlow
    <3> HIDE DEF nodes
    <3>4. run'[r].nodes = nodes
      BY <1>1, <3>1, <3>3 DEF RunStates, TypeOK
    <3> QED
      BY <3>2, <3>4
  <2>2. \A q \in TasksOf(r) : phase'[q] = phase[q] \/ phase'[q] = "off"
    BY <1>1, TaskRuns
  <2> QED
    BY <1>1, <2>1, <2>2, NoNewWork
<1>5. BusyRuns' \in {BusyRuns, BusyRuns \ {r}}
  <2>1. CASE Busy(r) /\ ~Busy(r)'
    <3>1. BusyRuns' = BusyRuns \ {r}
      BY <1>1, <1>3, <2>1 DEF BusyRuns
    <3> QED
      BY <3>1
  <2>2. CASE Busy(r)' <=> Busy(r)
    <3>1. BusyRuns' = BusyRuns
      BY <1>1, <1>3, <2>2 DEF BusyRuns
    <3> QED
      BY <3>1
  <2> QED
    BY <1>4, <2>1, <2>2
<1> QED
  BY <1>1, <1>5 DEF Lifecycle!Stop, BusyRuns

LEMMA TaskStepDrainsOrFinalises ==
  ASSUME EntryNodes # {}, IInv, IInv', NEW t \in Tasks, TaskStep(t)
  PROVE  [Lifecycle!Next]_(Lifecycle!vars)
<1>1. t.run \in Runs /\ \A r \in Runs : Busy(r)' => Busy(r)
  BY TaskStepLifecycle
<1>2. CASE ending' = ending /\ \A r \in Runs \ {t.run} : Busy(r)' <=> Busy(r)
  <2>1. CASE Busy(t.run)' <=> Busy(t.run)
    <3>1. BusyRuns' = BusyRuns
      BY <1>1, <1>2, <2>1 DEF BusyRuns
    <3> QED
      BY <1>2, <3>1 DEF Lifecycle!vars, BusyRuns
  <2>2. CASE Busy(t.run) /\ ~Busy(t.run)'
    <3>1. BusyRuns' = BusyRuns \ {t.run} /\ t.run \in BusyRuns
      BY <1>1, <1>2, <2>2 DEF BusyRuns
    <3>2. Lifecycle!Drain(t.run)
      BY <1>2, <3>1 DEF Lifecycle!Drain, BusyRuns
    <3> QED
      BY <1>1, <3>2 DEF Lifecycle!Next, Lifecycle!Runs, Runs
  <2> QED
    BY <1>1, <2>1, <2>2
<1>3. ASSUME NEW q \in Runs, q = activeRun, ending[q] = "running",
             ending' = [ending EXCEPT ![q] = "finalised"]
      PROVE  [Lifecycle!Next]_(Lifecycle!vars)
  <2>1. ending'[q] = "finalised"
    BY <1>3 DEF IInv, TypeOK
  <2>2. EntryNodes' # {}
    BY DEF EntryNodes
  <2>3. ~Busy(q)'
    <3>1. FinalisedQuiet'
      BY <2>2 DEF IInv
    <3>2. \A r \in Runs : ending'[r] = "finalised" => ~Busy(r)'
      BY <3>1 DEF FinalisedQuiet
    <3> QED
      BY <1>3, <2>1, <3>2
  <2>4. BusyRuns' \in SUBSET (BusyRuns \ {q})
    BY <1>1, <2>3 DEF BusyRuns
  <2>5. Lifecycle!Finalise(q)
    BY <1>3, <2>4 DEF Lifecycle!Finalise, BusyRuns
  <2> QED
    BY <1>3, <2>5 DEF Lifecycle!Next, Lifecycle!Runs, Runs
<1> QED
  BY <1>2, <1>3, TaskStepLifecycle

-----------------------------------------------------------------------------
(* The theorem.                                                            *)

\* Whatever the flow, as long as it has an entry node: each start opens a run, the engine
\* ends a run at most once, a run it ended by itself has no work left, then or later, and
\* no step creates work but startFlow.
THEOREM ImplementsLifecycle ==
  ASSUME EntryNodes # {}
  PROVE  Spec => LifecycleSpec
<1>1. Init => Lifecycle!Init
  <2> SUFFICES ASSUME Init
               PROVE  Lifecycle!Init
    OBVIOUS
  <2>1. \A r \in Runs : ~Busy(r)
    <3> SUFFICES ASSUME NEW r \in Runs
                 PROVE  ~Busy(r)
      OBVIOUS
    <3>1. \A t \in TasksOf(r) : t \in Tasks /\ phase[t] = "off" /\ stack[t] = <<>>
      BY TaskRuns DEF Init
    <3> QED
      BY <3>1, TaskRuns DEF Busy, PulseLive
  <2>2. BusyRuns = {}
    BY <2>1 DEF BusyRuns
  <2> QED
    BY <2>2 DEF Init, Lifecycle!Init, Lifecycle!Runs, Runs, BusyRuns
<1>2. IInv /\ IInv' /\ [Next]_vars => [Lifecycle!Next]_(Lifecycle!vars)
  <2> SUFFICES ASSUME IInv, IInv', [Next]_vars
               PROVE  [Lifecycle!Next]_(Lifecycle!vars)
    OBVIOUS
  <2>1. ASSUME NEW r \in Runs, StartFlow(r)
        PROVE  [Lifecycle!Next]_(Lifecycle!vars)
    BY <2>1, StartIsStart DEF Lifecycle!Next, Lifecycle!Runs, Runs
  <2>2. CASE StopFlow
    BY <2>2, StopIsStop DEF Lifecycle!Next, Lifecycle!Runs, Runs
  <2>3. ASSUME NEW r \in Runs, Tick(r)
        PROVE  [Lifecycle!Next]_(Lifecycle!vars)
    <3>1. UNCHANGED <<activeRun, run, ending, phase, stack>>
      BY <2>3 DEF Tick
    <3>2. BusyRuns' = BusyRuns
      BY <3>1, BusySame DEF BusyRuns
    <3> QED
      BY <3>1, <3>2 DEF Lifecycle!vars, BusyRuns
  <2>4. ASSUME NEW t \in Tasks, TaskStep(t)
        PROVE  [Lifecycle!Next]_(Lifecycle!vars)
    BY <2>4, TaskStepDrainsOrFinalises
  <2>5. CASE UNCHANGED vars
    <3>1. UNCHANGED <<activeRun, run, ending, phase, stack>>
      BY <2>5 DEF vars
    <3>2. BusyRuns' = BusyRuns
      BY <3>1, BusySame DEF BusyRuns
    <3> QED
      BY <3>1, <3>2 DEF Lifecycle!vars, BusyRuns
  <2> QED
    BY <2>1, <2>2, <2>3, <2>4, <2>5 DEF Next
<1> QED
  BY <1>1, <1>2, Invariance, PTL DEF Spec, LifecycleSpec, Lifecycle!Spec
=============================================================================
