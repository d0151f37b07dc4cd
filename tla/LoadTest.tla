------------------------------ MODULE LoadTest ------------------------------
(***************************************************************************)
(* Continuous load tests: start_test and stop_test of the gateway          *)
(* (apps/backend/src/gateway/status.gateway.ts) and the part of            *)
(* GeneratorService (apps/backend/src/core/generator.service.ts) they      *)
(* drive: the frequency budget, the tick loop and the batches it queues.   *)
(*                                                                         *)
(* A TEST is one ActiveLoadTestState; activeIntervals holds at most one    *)
(* for each schema, an old one lives on in its loop and its batches.  A    *)
(* batch is split into chunks that run on the worker pool at once.         *)
(*                                                                         *)
(* Abstractions: the payloads; the processor load and the back-pressure    *)
(* of the publisher, which throttle a tick or do not; the accumulator is   *)
(* counted exactly, in thousandths of a message.                           *)
(***************************************************************************)
EXTENDS Integers, FiniteSets, FiniteSetsExt

CONSTANTS
  Schemas,
  Frequencies,   \* the frequencies clients ask for; the schema card sends digits, 0 included
  GlobalLimit,   \* GLOBAL_LIMIT, messages per second of all tests
  MaxInFlight,   \* MAX_IN_FLIGHT_BATCHES
  BacklogMs,     \* MAX_BACKLOG_MS
  ChunkSize,     \* BATCH_SIZE
  None,          \* no test, no request
  Deltas,        \* the milliseconds that can pass between two ticks of a test
  MaxTests,      \* bound: how many tests are started
  MaxRequests,   \* bound: start_test handlers at an await at once
  MaxBatches,    \* bound: batches one test queues
  MaxTime        \* bound: milliseconds one test runs

ASSUME LoadAssumption ==
  /\ IsFiniteSet(Schemas) /\ None \notin Nat
  /\ Frequencies \subseteq Nat
  /\ GlobalLimit \in Nat \ {0} /\ MaxInFlight \in Nat \ {0} /\ ChunkSize \in Nat \ {0}
  /\ BacklogMs \in Nat /\ Deltas \subseteq Nat

ASSUME LoadBounds == MaxTests \in Nat /\ MaxRequests \in Nat /\ MaxBatches \in Nat /\ MaxTime \in Nat

Tests == 1 .. MaxTests
Requests == 1 .. MaxRequests

VARIABLES
  request,     \* request[q]: the start_test handler q at its await, or None
  active,      \* activeIntervals: the test of each schema, or None
  frequency,   \* activeFrequencies, 0 when absent
  test,        \* test[i]: the state of test i, with the variables of its loop
  batch,       \* batch[i][k]: the k-th batch test i queued
  announced    \* the last of test_started and test_stopped clients got of a schema

vars == <<request, active, frequency, test, batch, announced>>

\* armed: the timer of the loop.  credit: the accumulator.  time, sent: how long the
\* loop ran, and what it queued, until its last tick.
TestStates == [schema : Schemas, rate : Nat, running : BOOLEAN, armed : BOOLEAN,
               inFlight : Nat, credit : Nat, time : Nat, sent : Nat, queued : Nat]

ASSUME NoneIsNoTest == None \notin TestStates

\* left: chunks not over yet.  settled: generateBatch returned.
BatchStates == [left : Nat, settled : BOOLEAN]

TypeOK ==
  /\ request \in [Requests -> [schema : Schemas, frequency : Frequencies] \cup {None}]
  /\ active \in [Schemas -> Tests \cup {None}]
  /\ frequency \in [Schemas -> Nat]
  /\ test \in [Tests -> TestStates \cup {None}]
  /\ batch \in [Tests -> [1 .. MaxBatches -> BatchStates]]
  /\ announced \in [Schemas -> {"started", "stopped"}]

Init ==
  /\ request = [q \in Requests |-> None]
  /\ active = [s \in Schemas |-> None]
  /\ frequency = [s \in Schemas |-> 0]
  /\ test = [i \in Tests |-> None]
  /\ batch = [i \in Tests |-> [k \in 1 .. MaxBatches |-> [left |-> 0, settled |-> TRUE]]]
  /\ announced = [s \in Schemas |-> "stopped"]

-----------------------------------------------------------------------------
(* The functions of the generator.                                         *)

Total(f) == MapThenSumSet(LAMBDA s : f[s], Schemas)

\* calculateRemainingBudget.
RemainingBudget(f) ==
  IF Total(f) < GlobalLimit THEN GlobalLimit - Total(f) ELSE 0

Smaller(m, n) == IF m < n THEN m ELSE n

\* resolveMaxBacklogMessages.
Backlog(rate) == LET n == (rate * BacklogMs) \div 1000 IN IF n > 1 THEN n ELSE 1

\* capLoadTestBacklog, of what the accumulator earns in "delta" milliseconds.
Credited(t, delta) == Smaller(t.credit + delta * t.rate, 1000 * Backlog(t.rate))

\* The whole messages of the accumulator, for one tick.
Due(t, credit) == Smaller(credit \div 1000, Backlog(t.rate))

\* The chunks generateBatch splits "count" messages into.
Chunks(count) == (count + ChunkSize - 1) \div ChunkSize

\* isLoadTestSaturated.
Saturated(t) == t.inFlight >= MaxInFlight

Spent_Mutant(credit, count) == credit   \* the accumulator keeps what was queued

\* accumulator -= count.
Spent(credit, count) == credit - 1000 * count

Stopped_Mutant(s) == test   \* startLoadTest does not stop the test that is active

\* stopLoadTest on the tests, and on activeFrequencies.
Stopped(s) ==
  IF active[s] = None THEN test
  ELSE [test EXCEPT ![active[s]].running = FALSE, ![active[s]].armed = FALSE]

Released_Mutant(s) == frequency   \* the frequency is not given back

Released(s) == [frequency EXCEPT ![s] = 0]

-----------------------------------------------------------------------------
(* The gateway's handlers.                                                 *)

\* handleStartTest up to the await of prepareDestination.
RequestStart(q) ==
  /\ request[q] = None
  /\ \E s \in Schemas, f \in Frequencies :
       request' = [request EXCEPT ![q] = [schema |-> s, frequency |-> f]]
  /\ UNCHANGED <<active, frequency, test, batch, announced>>

\* prepareDestination threw.
PrepareFails(q) ==
  /\ request[q] # None
  /\ request' = [request EXCEPT ![q] = None]
  /\ UNCHANGED <<active, frequency, test, batch, announced>>

NewTest(s, rate) ==
  [schema |-> s, rate |-> rate, running |-> TRUE, armed |-> TRUE,
   inFlight |-> 0, credit |-> 0, time |-> 0, sent |-> 0, queued |-> 0]

Announce_Mutant(s, requested, actual) ==   \* a clamped start is not reported
  IF actual < requested THEN announced ELSE [announced EXCEPT ![s] = "started"]

\* test_started, for a start that got a frequency.
Announce(s, requested, actual) == [announced EXCEPT ![s] = "started"]

\* handleStartTest after the await: startLoadTest, with the first tick of the loop,
\* and the events.  A request for frequency 0 registers a test that never queues a
\* message, and the handler returns before test_started.
StartTest(q) ==
  /\ request[q] # None
  /\ request' = [request EXCEPT ![q] = None]
  /\ LET s == request[q].schema
         budget == RemainingBudget(Released(s))
         actual == Smaller(request[q].frequency, budget)
     IN IF budget = 0
        THEN /\ test' = Stopped(s)
             /\ frequency' = Released(s)
             /\ active' = [active EXCEPT ![s] = None]
             /\ UNCHANGED announced
        ELSE \E i \in Tests :
               /\ test[i] = None
               /\ \A j \in Tests : j < i => test[j] # None
               /\ test' = [Stopped(s) EXCEPT ![i] = NewTest(s, actual)]
               /\ frequency' = [Released(s) EXCEPT ![s] = actual]
               /\ active' = [active EXCEPT ![s] = i]
               /\ announced' = IF actual = 0 THEN announced
                               ELSE Announce(s, request[q].frequency, actual)
  /\ UNCHANGED batch

\* handleStopTest.
StopTest(s) ==
  /\ test' = Stopped(s)
  /\ frequency' = Released(s)
  /\ active' = [active EXCEPT ![s] = None]
  /\ announced' = [announced EXCEPT ![s] = "stopped"]
  /\ UNCHANGED <<request, batch>>

-----------------------------------------------------------------------------
(* The loop of a test and its batches.                                     *)

\* tick, "delta" milliseconds after the last one.  Its catch block is left out: no
\* call of the tick throws.
Tick(i, delta) ==
  /\ test[i] # None
  /\ test[i].armed /\ test[i].running
  /\ test[i].time + delta <= MaxTime
  /\ LET t == test[i]
         credit == Credited(t, delta)
         count == Due(t, credit)
     IN \/ \* saturated, too much load, or the publisher is back-pressured
           /\ test' = [test EXCEPT ![i].credit = credit, ![i].time = @ + delta]
           /\ UNCHANGED batch
        \/ /\ ~Saturated(t)
           /\ credit >= 1000
           /\ t.queued < MaxBatches
           /\ test' = [test EXCEPT ![i].credit = Spent(credit, count), ![i].time = @ + delta,
                                   ![i].sent = @ + count, ![i].queued = @ + 1,
                                   ![i].inFlight = @ + 1]
           /\ batch' = [batch EXCEPT ![i][t.queued + 1] =
                          [left |-> Chunks(count), settled |-> FALSE]]
  /\ UNCHANGED <<request, active, frequency, announced>>

Settled_Mutant(i, k) == test   \* no finally block
Settled_MutantTwice(i, k) ==   \* every chunk counts
  [test EXCEPT ![i].inFlight = IF @ > 0 THEN @ - 1 ELSE 0]

\* generateBatch of batch k returns: the finally block of runBackgroundGeneration.
Settled(i, k) ==
  IF batch[i][k].settled THEN test
  ELSE [test EXCEPT ![i].inFlight = IF @ > 0 THEN @ - 1 ELSE 0]

\* A worker delivered a chunk and its publication is over; failures to publish are
\* caught.  Promise.all resolves with the last chunk.
ChunkPublished(i, k) ==
  /\ batch[i][k].left > 0
  /\ IF batch[i][k].left = 1
     THEN /\ test' = Settled(i, k)
          /\ batch' = [batch EXCEPT ![i][k] = [left |-> 0, settled |-> TRUE]]
     ELSE /\ batch' = [batch EXCEPT ![i][k].left = @ - 1]
          /\ UNCHANGED test
  /\ UNCHANGED <<request, active, frequency, announced>>

\* A worker failed: Promise.all rejects at once, the other chunks go on.
ChunkFails(i, k) ==
  /\ batch[i][k].left > 0
  /\ test' = Settled(i, k)
  /\ batch' = [batch EXCEPT ![i][k] = [left |-> @.left - 1, settled |-> TRUE]]
  /\ UNCHANGED <<request, active, frequency, announced>>

ChunkEnds(i, k) == ChunkPublished(i, k) \/ ChunkFails(i, k)

Next ==
  \/ \E q \in Requests : RequestStart(q) \/ PrepareFails(q) \/ StartTest(q)
  \/ \E s \in Schemas : StopTest(s)
  \/ \E i \in Tests, delta \in Deltas : Tick(i, delta)
  \/ \E i \in Tests, k \in 1 .. MaxBatches : ChunkEnds(i, k)

Spec == Init /\ [][Next]_vars

\* Workers and brokers answer; clients need not ask for anything.
Fairness == \A i \in Tests, k \in 1 .. MaxBatches : WF_vars(ChunkEnds(i, k))
FairSpec == Spec /\ Fairness

-----------------------------------------------------------------------------
(* Properties.                                                             *)

Unsettled(i) == {k \in 1 .. MaxBatches : ~batch[i][k].settled}
Outstanding(i) == {k \in 1 .. MaxBatches : batch[i][k].left > 0}

\* The active tests together never promise more than the global limit, whatever is
\* restarted, stopped or clamped in between; and the budget in use is what they run at:
\* nothing stays reserved for a test that is over, none runs unreserved.
BudgetKept ==
  /\ Total(frequency) <= GlobalLimit
  /\ \A s \in Schemas : frequency[s] = IF active[s] = None THEN 0 ELSE test[active[s]].rate

\* A loop runs exactly while activeIntervals holds its test: no second loop of a
\* schema runs on unreachable for stop_test.
OneRunning ==
  \A i \in Tests : test[i] # None =>
    /\ test[i].running <=> active[test[i].schema] = i
    /\ test[i].armed => test[i].running

\* No test ever queues more messages than its frequency allows for the time it ran,
\* throttled ticks and late timers included.
RateRespected ==
  \A i \in Tests : test[i] # None => 1000 * test[i].sent <= test[i].rate * test[i].time

\* A test waits for its batches once MAX_IN_FLIGHT_BATCHES of them did not return, and
\* inFlightBatches is their number: Math.max(0, ...) hides no batch counted twice.
InFlightBounded ==
  \A i \in Tests :
    /\ test[i] # None => test[i].inFlight = Cardinality(Unsettled(i))
    /\ Cardinality(Unsettled(i)) <= MaxInFlight

\* The last test registered for schema s was one of frequency 0.
LastAtZero(s) ==
  \E i \in Tests :
    /\ test[i] # None /\ test[i].schema = s /\ test[i].rate = 0
    /\ \A j \in Tests : j > i /\ test[j] # None => test[j].schema # s

\* What clients were told last of a schema is what the generator does with it, over
\* stops, restarts, clamped and refused starts that overlap: a test that sends messages
\* was announced and not taken back, and one that is announced is active still.  A
\* request for frequency 0 is the exception: its test is announced to nobody, and when
\* another test takes the budget it gave back, a refused restart leaves its schema
\* announced.
AnnouncedIsActive ==
  \A s \in Schemas :
    /\ active[s] # None /\ test[active[s]].rate > 0 => announced[s] = "started"
    /\ announced[s] = "started" => active[s] # None \/ LastAtZero(s)

\* A saturated test gets going again: its batches return, failures included.
SaturationEnds ==
  \A i \in Tests : (test[i] # None /\ Saturated(test[i])) ~>
                   (test[i] # None /\ ~Saturated(test[i]))

\* The same without the exception: a browser's list of active tests is the generator's.
AnnouncedExactly == \A s \in Schemas : announced[s] = "started" <=> active[s] # None

\* "should not queue more load batches while the previous batch is still in flight"
\* (generator.service.spec.ts:93).
OneBatchPerTest == \A i \in Tests : Cardinality(Outstanding(i)) <= MaxInFlight
=============================================================================
