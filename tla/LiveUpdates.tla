----------------------------- MODULE LiveUpdates -----------------------------
(***************************************************************************)
(* The counts and samples of published batches on their way to a browser:  *)
(* handlePublishedBatch and emitThrottledUpdate of StatusGateway           *)
(* (apps/backend/src/gateway/status.gateway.ts), recordPublished and       *)
(* getTelemetry of GeneratorService                                        *)
(* (apps/backend/src/core/generator.service.ts), and the handler of        *)
(* messages_batch_sent in a browser that stays connected                   *)
(* (apps/frontend/src/app/services/socket.service.ts).                     *)
(*                                                                         *)
(* Time passes in ticks; the throttle timer fires at any moment after it   *)
(* was set.  A sample is the number of the batch it shows.                 *)
(***************************************************************************)
EXTENDS Naturals, Sequences, FiniteSetsExt

CONSTANTS
  Sources,      \* schemas whose messages are published
  BatchSizes,   \* sizes of the published batches
  Suppress,     \* SAMPLE_SUPPRESS_THRESHOLD, as messages in a window
  Bucket,       \* BUCKET_SIZE_MS in ticks
  Window,       \* TELEMETRY_WINDOW in ticks
  HistorySize,  \* entries of liveHistory
  MaxTime,      \* bound: ticks
  MaxBatches,   \* bound: batches
  MaxResets     \* bound: clicks on "Reset Statistics"

ASSUME LiveUpdatesAssumption ==
  /\ BatchSizes \subseteq Nat /\ Suppress \in Nat
  /\ Bucket \in Nat \ {0} /\ Window \in Nat \ {0} /\ HistorySize \in Nat \ {0}
  /\ MaxTime \in Nat /\ MaxBatches \in Nat /\ MaxResets \in Nat

VARIABLES
  now,
  buckets,     \* GeneratorService.buckets
  throttled,   \* throttledUpdates
  updates,     \* messages_batch_sent events on their way, in order
  stats,       \* schemaStats of the browser
  history,     \* liveHistory of the browser, newest first
  published,   \* published[s]: what was reported of schema s since its statistics were last reset
  log,         \* the batches that were published, with their time
  resets

liveVars == <<now, buckets, throttled, updates, stats, history, published, log, resets>>

Counts == [sent : Nat, received : Nat]
NoCounts == [sent |-> 0, received |-> 0]
Add(a, b) == [sent |-> a.sent + b.sent, received |-> a.received + b.received]

LiveInit ==
  /\ now = Window  \* so that no cutoff is negative
  /\ buckets = <<>> /\ updates = <<>> /\ history = <<>> /\ log = <<>>
  /\ throttled = [s \in Sources |-> [counts |-> NoCounts, sample |-> 0, captured |-> FALSE, timer |-> FALSE]]
  /\ stats = [s \in Sources |-> NoCounts] /\ published = [s \in Sources |-> NoCounts]
  /\ resets = 0

-----------------------------------------------------------------------------
(* Telemetry. *)

\* f[1] + ... + f[n].
SumTo(f, n) ==
  LET sum[k \in 0 .. n] == IF k = 0 THEN 0 ELSE sum[k - 1] + f[k]
  IN  sum[n]

CountFrom(entries, time) ==
  SumTo([i \in DOMAIN entries |-> IF entries[i].time >= time THEN entries[i].count ELSE 0], Len(entries))

\* getTelemetry: the buckets of the window.
InWindow == CountFrom(buckets, now - Window)

Recorded_Mutant(count) ==
  LET time == (now \div Bucket) * Bucket
      last == Len(buckets)
  IN  IF last > 0 THEN [buckets EXCEPT ![last].count = @ + count]
      ELSE Append(buckets, [time |-> time, count |-> count])

\* The buckets that are too old are shifted off the front.
Shifted(entries, cutoff) ==
  LET recent == {i \in DOMAIN entries : entries[i].time >= cutoff}
  IN  SubSeq(entries, Min(recent \cup {Len(entries) + 1}), Len(entries))

\* recordPublished: the newest bucket or a new one, and the old ones are dropped.
Recorded(count) ==
  LET time == (now \div Bucket) * Bucket
      last == Len(buckets)
      added == IF last > 0 /\ buckets[last].time = time THEN [buckets EXCEPT ![last].count = @ + count]
               ELSE Append(buckets, [time |-> time, count |-> count])
  IN  Shifted(added, now - Window)

-----------------------------------------------------------------------------
(* The gateway. *)

\* shouldCaptureSamples: not while an update is due, and not at a high throughput.
ShouldCapture(s) == ~throttled[s].timer /\ InWindow < Suppress

Throttled_Mutant(s, counts, sample) ==
  LET t == throttled[s]
  IN  [counts |-> counts, sample |-> IF sample = 0 THEN t.sample ELSE sample,
       captured |-> t.captured \/ sample # 0, timer |-> TRUE]

\* emitThrottledUpdate: the counts of the window add up; a sample stays until the next one.
Throttled(s, counts, sample) ==
  LET t == throttled[s]
  IN  [counts |-> Add(t.counts, counts), sample |-> IF sample = 0 THEN t.sample ELSE sample,
       captured |-> t.captured \/ sample # 0, timer |-> TRUE]

\* handlePublishedBatch after publishBatch (a load test or a burst), and the subscription to
\* activity$ (one message of a flow, which is always its own sample).
Reported(s, sent, received, sample) ==
  LET counts == [sent |-> sent, received |-> received]
  IN  /\ throttled' = [throttled EXCEPT ![s] = Throttled(s, counts, sample)]
      /\ buckets' = Recorded(sent)
      /\ published' = [published EXCEPT ![s] = Add(@, counts)]
      /\ log' = Append(log, [time |-> now, count |-> sent])
      /\ UNCHANGED <<now, updates, stats, history, resets>>

Batch == Len(log) + 1

BatchPublished(s, sent, received) ==
  /\ Batch <= MaxBatches
  /\ Reported(s, sent, received, IF ShouldCapture(s) /\ sent > 0 THEN Batch ELSE 0)

FlowMessage(s, received) ==
  /\ Batch <= MaxBatches
  /\ Reported(s, 1, received, Batch)

\* The timer of emitThrottledUpdate, UPDATE_DELAY after the first report of the window.
UpdateFires(s) ==
  LET t == throttled[s]
  IN  /\ t.timer
      /\ updates' = Append(updates, [schema |-> s, counts |-> t.counts, sample |-> t.sample, captured |-> t.captured])
      /\ throttled' = [throttled EXCEPT ![s] = [t EXCEPT !.counts = NoCounts, !.captured = FALSE, !.timer = FALSE]]
      /\ UNCHANGED <<now, buckets, stats, history, published, log, resets>>

-----------------------------------------------------------------------------
(* The browser. *)

\* messages_batch_sent: the counts add up, the samples go in front of the history.
UpdateArrives ==
  LET u == Head(updates)
  IN  /\ updates # <<>> /\ updates' = Tail(updates)
      /\ stats' = [stats EXCEPT ![u.schema] = Add(@, u.counts)]
      /\ history' = IF u.sample = 0 THEN history
                    ELSE LET longer == <<u.sample>> \o history
                         IN  SubSeq(longer, 1, IF Len(longer) < HistorySize THEN Len(longer) ELSE HistorySize)
      /\ UNCHANGED <<now, buckets, throttled, published, log, resets>>

\* resetSchemaStats: what is still on its way counts from zero.
ResetStats(s) ==
  /\ resets < MaxResets /\ resets' = resets + 1
  /\ stats' = [stats EXCEPT ![s] = NoCounts]
  /\ published' = [published EXCEPT ![s] = [sent |-> @.sent - stats[s].sent, received |-> @.received - stats[s].received]]
  /\ UNCHANGED <<now, buckets, throttled, updates, history, log>>

\* clearHistory of the live hub.
ClearHistory ==
  /\ history # <<>> /\ history' = <<>>
  /\ UNCHANGED <<now, buckets, throttled, updates, stats, published, log, resets>>

Tick ==
  /\ now < Window + MaxTime /\ now' = now + 1
  /\ UNCHANGED <<buckets, throttled, updates, stats, history, published, log, resets>>

LiveNext ==
  \/ \E s \in Sources, sent \in BatchSizes : \E received \in {0, sent} : BatchPublished(s, sent, received)
  \/ \E s \in Sources, received \in {0, 1} : FlowMessage(s, received)
  \/ \E s \in Sources : UpdateFires(s) \/ ResetStats(s)
  \/ UpdateArrives \/ ClearHistory \/ Tick

LiveSpec == LiveInit /\ [][LiveNext]_liveVars

-----------------------------------------------------------------------------
LiveTypeOK ==
  /\ now \in Nat /\ resets \in 0 .. MaxResets
  /\ stats \in [Sources -> Counts] /\ published \in [Sources -> Counts]
  /\ Len(log) <= MaxBatches /\ Len(history) <= HistorySize

\* Count k of schema s in the events on their way.
OnTheWay(s, k) == SumTo([i \in DOMAIN updates |-> IF updates[i].schema = s THEN updates[i].counts[k] ELSE 0],
                        Len(updates))

\* Nothing a browser is told of a schema is counted twice or left out: what its card shows,
\* what is on its way and what waits for the throttle timer are together what was published
\* (since the statistics were reset), and while something waits the timer is set
\* (emitThrottledUpdate, schemaStats).
CountsAddUp ==
  \A s \in Sources :
    /\ \A k \in {"sent", "received"} :
         published[s][k] = stats[s][k] + throttled[s].counts[k] + OnTheWay(s, k)
    /\ throttled[s].counts # NoCounts => throttled[s].timer

\* The throughput counts every message of the last window but for less than one bucket, and
\* none that is older (recordPublished, getTelemetry).
ThroughputWithinWindow ==
  /\ CountFrom(log, now - Window + Bucket - 1) <= InWindow
  /\ InWindow <= CountFrom(log, now - Window)

\* "Suppress sample capture above this throughput (msg/s) to reduce WebSocket overhead"
\* (status.gateway.ts:462): an update in whose window nothing was captured carries no sample.
SuppressedNotSent ==
  \A i \in DOMAIN updates : updates[i].sample # 0 => updates[i].captured
=============================================================================
