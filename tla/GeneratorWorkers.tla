--------------------------- MODULE GeneratorWorkers ---------------------------
(***************************************************************************)
(* The worker threads that generate records (core/worker/                  *)
(* generator.worker.ts) and generateBatch of GeneratorService, which       *)
(* splits a batch into chunks and gives each the custom modules as they    *)
(* are.  A thread keeps the modules it was ever given in its own faker.    *)
(*                                                                         *)
(* Abstraction: a record is the set of module versions its fields used,    *)
(* <<module, version>>; other generated values are left out.  A module is  *)
(* known by its id.                                                        *)
(***************************************************************************)
EXTENDS CustomData, Sequences, FiniteSets

CONSTANTS
  Threads,
  Batches,        \* calls of generateBatch
  RecordFields,   \* the fields of the schemas
  FieldLists,     \* those fields, and the fields of their objects and arrays
  Depth,          \* Depth[fields]: how deep they are nested
  Counts,         \* numbers of records asked for
  BatchSize       \* BATCH_SIZE

\* A schema is a finite tree of fields.
ASSUME WorkersAssumption ==
  /\ Counts \subseteq Nat /\ BatchSize \in Nat \ {0}
  /\ RecordFields \subseteq FieldLists /\ Depth \in [FieldLists -> Nat]
  /\ \A fields \in FieldLists : \A k \in DOMAIN fields :
       /\ fields[k].type \in {"module", "template"} => fields[k].module \in ItemIds
       /\ fields[k].type \in {"object", "array"} =>
            fields[k].fields \in FieldLists /\ Depth[fields[k].fields] < Depth[fields]

VARIABLES
  known,     \* known[t]: faker.custom of thread t
  queue,     \* tasks that wait for a thread
  running,   \* running[t]: the task of thread t, if any
  batch      \* batch[b]: the call

workerVars == <<known, queue, running, batch>>

NoFields == <<>>
Unasked == [pc |-> "idle", fields |-> NoFields, count |-> 0, modules |-> NoItems, left |-> 0, got |-> 0, used |-> {}]

WorkerInit ==
  /\ known = [t \in Threads |-> NoItems]
  /\ queue = <<>>
  /\ running = [t \in Threads |-> {}]
  /\ batch = [b \in Batches |-> Unasked]

-----------------------------------------------------------------------------
(* What a thread generates: the outcomes there may be, each with the       *)
(* modules used.                                                           *)

Outcome(ok, used) == [ok |-> ok, used |-> used]
Plain == {Outcome(TRUE, {})}
Throws == {Outcome(FALSE, {})}

Or(value, default) == IF value = NoItem THEN default ELSE value

\* generateIntValue and generateFloatValue: faker refuses a minimum above the maximum, the
\* default one too.
NumberOutcomes(field) == IF Or(field.min, 0) > Or(field.max, 1000) THEN Throws ELSE Plain

\* resolveFakerValue answers a word for what it does not find; fake, which a template goes
\* to, throws.
ModuleOutcomes(field, custom) ==
  IF custom[field.module] # NoItem THEN {Outcome(TRUE, {<<field.module, custom[field.module]>>})}
  ELSE IF field.type = "template" THEN Throws ELSE Plain

\* resolveArrayItemCount, with its defaults and lower bounds.
ArrayCounts(field) ==
  CASE field.mode = "random" -> 0 .. Or(field.max, 10)
    [] field.mode = "range" ->
         LET min == IF Or(field.min, 1) < 1 THEN 1 ELSE Or(field.min, 1)
             max == Or(field.max, IF min < 3 THEN 3 ELSE min)
         IN min .. (IF max < min THEN min ELSE max)
    [] field.mode = "fixed" -> {Or(field.max, 3)}

\* A record fails with any of its fields.
Together(outcomes) ==
  {Outcome(\A k \in DOMAIN outcomes : chosen[k].ok, UNION {chosen[k].used : k \in DOMAIN outcomes}) :
     chosen \in {c \in [DOMAIN outcomes -> UNION {outcomes[k] : k \in DOMAIN outcomes}] :
                  \A k \in DOMAIN outcomes : c[k] \in outcomes[k]}}

\* generateFieldValue; nested[fields] are the outcomes of a record of an object or an array.
FieldOutcomes(field, custom, nested) ==
  CASE field.type = "number" -> NumberOutcomes(field)
    [] field.type \in {"module", "template"} -> ModuleOutcomes(field, custom)
    [] field.type = "object" -> nested[field.fields]
    [] field.type = "array" -> (IF 0 \in ArrayCounts(field) THEN Plain ELSE {})
                                 \cup (IF ArrayCounts(field) # {0} THEN nested[field.fields] ELSE {})
    [] OTHER -> Plain

\* generateRecord, of all fields there are.
RecordOutcomes(custom) ==
  LET outcomes[fields \in FieldLists] ==
        Together([k \in DOMAIN fields |-> FieldOutcomes(fields[k], custom, outcomes)])
  IN  outcomes

Registered_Mutant(custom, modules) ==   \* a module that is known is not registered again
  [m \in ItemIds |-> IF custom[m] = NoItem THEN modules[m] ELSE custom[m]]

\* registerCustomModules adds and replaces, and never removes.
Registered(custom, modules) == [m \in ItemIds |-> IF modules[m] # NoItem THEN modules[m] ELSE custom[m]]

-----------------------------------------------------------------------------
(* The batch and its chunks.                                               *)

ChunkCount(count) == (count + BatchSize - 1) \div BatchSize
ChunkSizes(count) ==
  [k \in 1 .. ChunkCount(count) |-> IF k * BatchSize <= count THEN BatchSize ELSE count % BatchSize]

\* generateBatch up to Promise.all: every chunk is given to the pool at once.  A batch of no
\* records has no chunk to wait for.
GenerateBatch(b) ==
  /\ batch[b].pc = "idle"
  /\ \E fields \in RecordFields, count \in Counts :
       /\ batch' = [batch EXCEPT ![b] =
                     [pc |-> IF count = 0 THEN "resolved" ELSE "running", fields |-> fields, count |-> count,
                      modules |-> merged["modules"], left |-> ChunkCount(count), got |-> 0, used |-> {}]]
       /\ queue' = queue \o [n \in 1 .. ChunkCount(count) |->
                               [batch |-> b, chunk |-> n, size |-> ChunkSizes(count)[n]]]
  /\ UNCHANGED <<known, running>>

TaskStarts(t) ==
  /\ running[t] = {} /\ queue # <<>>
  /\ running' = [running EXCEPT ![t] = {Head(queue)}]
  /\ queue' = Tail(queue)
  /\ UNCHANGED <<known, batch>>

\* A chunk ends.  The first that throws ends the batch with no record; what the others
\* generate is still handed to the callback.
Ended(call, size, outcome) ==
  IF ~outcome.ok
  THEN [call EXCEPT !.left = @ - 1, !.pc = "failed"]
  ELSE [call EXCEPT !.left = @ - 1, !.got = @ + size, !.used = @ \cup outcome.used,
                    !.pc = IF call.left = 1 /\ @ = "running" THEN "resolved" ELSE @]

TaskEnds(t) ==
  /\ \E task \in running[t] :
       LET custom == Registered(known[t], batch[task.batch].modules) IN
       /\ known' = [known EXCEPT ![t] = custom]
       /\ \E outcome \in RecordOutcomes(custom)[batch[task.batch].fields] :
            batch' = [batch EXCEPT ![task.batch] = Ended(@, task.size, outcome)]
  /\ running' = [running EXCEPT ![t] = {}]
  /\ UNCHANGED queue

\* Piscina ends a thread that is idle and starts a new one when it needs it.
ThreadReplaced(t) ==
  /\ running[t] = {} /\ known[t] # NoItems
  /\ known' = [known EXCEPT ![t] = NoItems]
  /\ UNCHANGED <<queue, running, batch>>

WorkerNext ==
  \/ \E b \in Batches : GenerateBatch(b)
  \/ \E t \in Threads : TaskStarts(t) \/ TaskEnds(t) \/ ThreadReplaced(t)

\* The workers, while the custom data is saved.
WorkersSpec ==
  /\ CustomInit /\ WorkerInit
  /\ [][\/ WorkerNext /\ UNCHANGED customVars
        \/ CustomNext /\ UNCHANGED workerVars]_<<customVars, workerVars>>

-----------------------------------------------------------------------------
(* Properties.                                                             *)

\* A batch never uses an older or newer version of a module that existed when the batch
\* was asked for, whatever its threads were given before and saves have done since; and a
\* batch that resolves has exactly the records that were asked for.
BatchAsAsked ==
  \A b \in Batches :
    /\ \A use \in batch[b].used : batch[b].modules[use[1]] \in {use[2], NoItem}
    /\ batch[b].pc = "resolved" => batch[b].got = batch[b].count /\ batch[b].left = 0
=============================================================================
