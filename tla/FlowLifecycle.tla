--------------------------- MODULE FlowLifecycle ---------------------------
(***************************************************************************)
(* What the flow engine promises about one flow: each start opens a run,   *)
(* a run ends at most once, and a run the engine ends by itself (the       *)
(* "Flow completed" path of maybeFinalizeFlow) has no work left, then or   *)
(* later.  Work is created by the start alone: the messages, timers and    *)
(* downstream calls of a run are parts of the work its start created.      *)
(***************************************************************************)
EXTENDS Naturals

CONSTANT MaxRuns  \* how often the flow is started

Runs == 1 .. MaxRuns

VARIABLES
  ending,    \* ending[r]: how run r ended, "new" or "running" before that
  busy       \* the runs with work outstanding

vars == <<ending, busy>>

Endings == {"new", "running", "finalised", "stopped", "replaced"}

TypeOK == /\ ending \in [Runs -> Endings]
          /\ busy \subseteq Runs

Init == /\ ending = [r \in Runs |-> "new"]
        /\ busy = {}

\* Starting the flow again while a run is active replaces that run.
Start(r) ==
  /\ ending[r] = "new"
  /\ ending' = [q \in Runs |-> IF q = r THEN "running"
                               ELSE IF ending[q] = "running" THEN "replaced"
                               ELSE ending[q]]
  /\ busy' = busy \cup {r}

\* A stop cancels what it can; work in flight may outlive it.
Stop(r) ==
  /\ ending[r] = "running"
  /\ ending' = [ending EXCEPT ![r] = "stopped"]
  /\ busy' \in {busy, busy \ {r}}

\* The last piece of work of a run is over.
Drain(r) ==
  /\ r \in busy
  /\ busy' = busy \ {r}
  /\ UNCHANGED ending

\* The engine ends a run with, or after, its last piece of work; it may notice that while
\* an older run's work ends.
Finalise(r) ==
  /\ ending[r] = "running"
  /\ ending' = [ending EXCEPT ![r] = "finalised"]
  /\ busy' \in SUBSET (busy \ {r})

Next == \E r \in Runs : Start(r) \/ Stop(r) \/ Drain(r) \/ Finalise(r)

Spec == Init /\ [][Next]_vars
=============================================================================
