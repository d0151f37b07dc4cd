----------------------------- MODULE SchemaStore -----------------------------
(***************************************************************************)
(* The schemas and flows of the backend: the files                         *)
(* SchemaPersistenceService keeps (apps/backend/src/core/                  *)
(* persistence.service.ts), what SchemaDiscoveryService loaded of them     *)
(* (discovery.service.ts), the gateway handlers that change and reload     *)
(* them and what the clients were sent (gateway/status.gateway.ts).        *)
(*                                                                         *)
(* Handlers overlap at every await of a file operation, a file operation   *)
(* may fail, writeFile truncates before it writes, and the process may     *)
(* crash at any point and start again.                                     *)
(*                                                                         *)
(* Abstractions: a document is a version; what validateSchema refuses is   *)
(* the version Invalid.                                                    *)
(***************************************************************************)
EXTENDS Naturals

CONSTANTS
  Handlers,   \* socket events being handled
  Ids,
  BuiltIn,    \* BuiltIn[d]: the ids of STATIC_SCHEMAS and STATIC_FLOWS
  Versions,   \* documents a client can send
  Invalid,    \* a schema validateSchema refuses
  Stock,      \* the document the code has for a built-in id
  Absent,     \* no document
  Torn,       \* a file cut short, or whose JSON is not valid
  MaxOps,     \* bound: events handled
  MaxFaults   \* bound: failing file operations and crashes

Dirs == {"schemas", "flows"}
Boot == "boot"   \* onModuleInit
Actors == Handlers \cup {Boot}

ASSUME StoreAssumption ==
  /\ Ids # {} /\ Versions # {}
  /\ BuiltIn \in [Dirs -> SUBSET Ids]
  /\ Invalid \notin Versions /\ Stock \notin Versions
  /\ {Absent, Torn} \cap (Versions \cup {Invalid, Stock}) = {} /\ Absent # Torn
  /\ Boot \notin Handlers /\ MaxOps \in Nat /\ MaxFaults \in Nat

VARIABLES
  disk,     \* disk[d][i]: the file of document i in directory d
  loaded,   \* loadedSchemas and loadedFlows
  client,   \* the last schemas_loaded and flows_loaded the clients got
  op,       \* op[h]: the event handler h is at
  unread,   \* unread[d]: what the refresh behind loaded[d] could not read (the model's)
  settled,  \* the kind of the last event, if it was handled alone and reloaded everything
  ops, faults

vars == <<disk, loaded, client, op, unread, settled, ops, faults>>

Documents == Versions \cup {Stock, Absent}
Kinds == {"create", "update", "delete", "refresh", "boot"}

\* "saving": before writeFile opened the file.  "tearing": it truncated it.
Pcs == {"idle", "unlinking", "saving", "tearing", "listing", "reading"}

TypeOK ==
  /\ disk \in [Dirs -> [Ids -> Versions \cup {Absent, Torn}]]
  /\ loaded \in [Dirs -> [Ids -> Documents]] /\ client \in [Dirs -> [Ids -> Documents]]
  /\ op \in [Actors -> [pc : Pcs, kind : Kinds, dir : Dirs, from : Ids, to : Ids,
                        value : Versions \cup {Absent}, reading : Dirs, todo : SUBSET Ids,
                        seen : [Ids -> Versions \cup {Absent}], missed : SUBSET Ids,
                        mixed : BOOLEAN, alone : BOOLEAN]]
  /\ unread \in [Dirs -> SUBSET Ids]
  /\ settled \in Dirs \cup {"boot", "none"}
  /\ ops \in 0 .. MaxOps /\ faults \in 0 .. MaxFaults

Nothing == [i \in Ids |-> Absent]

Idle == [pc |-> "idle", kind |-> "boot", dir |-> "schemas", from |-> CHOOSE i \in Ids : TRUE,
         to |-> CHOOSE i \in Ids : TRUE, value |-> Absent, reading |-> "schemas", todo |-> {},
         seen |-> Nothing, missed |-> {}, mixed |-> FALSE, alone |-> TRUE]

Booting == [h \in Actors |-> IF h = Boot THEN [Idle EXCEPT !.pc = "listing"] ELSE Idle]

Init ==
  /\ disk \in [Dirs -> [Ids -> {Absent, CHOOSE v \in Versions : TRUE}]]
  /\ loaded = [d \in Dirs |-> Nothing] /\ client = [d \in Dirs |-> Nothing]
  /\ op = Booting /\ unread = [d \in Dirs |-> {}]
  /\ settled = "none" /\ ops = 0 /\ faults = 0

Busy(h) == op[h].pc # "idle"

Merge_Mutant(d, found) == found   \* built-in documents are left out

\* loadSchemas and loadFlows: a document with the id of a built-in one overrides it.
Merge(d, found) ==
  [i \in Ids |-> IF found[i] # Absent THEN found[i] ELSE IF i \in BuiltIn[d] THEN Stock ELSE Absent]

\* What a read of the whole directory finds: torn files are skipped, and so are those
\* that cannot be read.
Readable(d) == [i \in Ids |-> IF disk[d][i] = Torn THEN Absent ELSE disk[d][i]]
Found(d, missed) == [i \in Ids |-> IF i \in missed THEN Absent ELSE Readable(d)[i]]

Fault == faults < MaxFaults /\ faults' = faults + 1

-----------------------------------------------------------------------------
(* An event arrives.                                                       *)

\* deleteSchema and deleteFlow up to unlink: there may be nothing to delete.
AfterExistsSync(r, next) == [r EXCEPT !.pc = IF disk[r.dir][r.from] = Absent THEN next ELSE "unlinking"]

Renames(r) == r.from # r.to

\* The first step of each handler.  A refused schema changes and announces nothing.
Begun(r) ==
  IF r.kind = "refresh" THEN [r EXCEPT !.pc = "listing"]
  ELSE IF r.kind = "delete" THEN AfterExistsSync(r, "listing")
  ELSE IF r.kind = "update" /\ Renames(r) THEN AfterExistsSync(r, "saving")
  ELSE [r EXCEPT !.pc = "saving"]

Refused(r) ==
  /\ r.dir = "schemas" /\ r.kind \in {"create", "update"}
  /\ r.value = Invalid \/ (r.kind = "create" /\ r.to \in BuiltIn["schemas"])

\* Whoever is at work meanwhile no longer works alone.
Joined(h, r) ==
  [g \in Actors |-> IF g = h THEN [r EXCEPT !.alone = \A a \in Actors : ~Busy(a)]
                    ELSE IF Busy(g) THEN [op[g] EXCEPT !.alone = FALSE] ELSE op[g]]

Event(h) ==
  /\ ~Busy(h) /\ ~Busy(Boot)
  /\ ops < MaxOps /\ ops' = ops + 1
  /\ \E k \in Kinds \ {"boot"}, d \in Dirs, i, j \in Ids, v \in Versions \cup {Invalid, Absent} :
       LET r == [Idle EXCEPT !.kind = k, !.dir = d, !.from = i, !.to = j, !.value = v] IN
       /\ k # "update" => i = j
       /\ d = "flows" => k \in {"create", "delete"}
       /\ k \in {"delete", "refresh"} <=> v = Absent
       /\ d = "flows" => v # Invalid
       /\ IF Refused(r) THEN UNCHANGED <<op, settled>>
          ELSE op' = Joined(h, Begun(r)) /\ settled' = "none"
  /\ UNCHANGED <<disk, loaded, client, unread, faults>>

-----------------------------------------------------------------------------
(* File operations.                                                        *)

Goes(h, pc) == op' = [op EXCEPT ![h].pc = pc]

AfterUnlink(h) == IF op[h].kind = "delete" THEN "listing" ELSE "saving"

Unlinked(h) ==
  /\ op[h].pc = "unlinking"
  /\ disk' = [disk EXCEPT ![op[h].dir][op[h].from] = Absent]
  /\ Goes(h, AfterUnlink(h))
  /\ UNCHANGED <<loaded, client, unread, settled, ops, faults>>

\* The error is logged, and the handler goes on as if the file were gone.
UnlinkFails(h) ==
  /\ op[h].pc = "unlinking" /\ Fault
  /\ Goes(h, AfterUnlink(h))
  /\ UNCHANGED <<disk, loaded, client, unread, settled, ops>>

Truncated(h) ==
  /\ op[h].pc = "saving"
  /\ disk' = [disk EXCEPT ![op[h].dir][op[h].to] = Torn]
  /\ Goes(h, "tearing")
  /\ UNCHANGED <<loaded, client, unread, settled, ops, faults>>

SameFile(g, h) == op[g].dir = op[h].dir /\ op[g].to = op[h].to

\* Two handlers that have the same file open at once may leave neither document whole.
Written(h) ==
  /\ op[h].pc = "tearing"
  /\ \E content \in {op[h].value} \cup (IF op[h].mixed THEN {Torn} ELSE {}) :
       disk' = [disk EXCEPT ![op[h].dir][op[h].to] = content]
  /\ op' = [g \in Actors |-> IF g = h THEN [op[h] EXCEPT !.pc = "listing", !.mixed = FALSE]
                             ELSE IF op[g].pc = "tearing" /\ SameFile(g, h)
                             THEN [op[g] EXCEPT !.mixed = TRUE] ELSE op[g]]
  /\ UNCHANGED <<loaded, client, unread, settled, ops, faults>>

\* saveSchema throws, and the handler ends there; saveFlow logs the error and goes on.
SaveFails(h) ==
  /\ op[h].pc \in {"saving", "tearing"} /\ Fault
  /\ op' = [op EXCEPT ![h] = IF op[h].dir = "schemas" THEN Idle ELSE [op[h] EXCEPT !.pc = "listing"]]
  /\ UNCHANGED <<disk, loaded, client, unread, settled, ops>>

-----------------------------------------------------------------------------
(* refresh: one directory after the other, one file after the other.       *)

Listed(h) ==
  /\ op[h].pc = "listing"
  /\ op' = [op EXCEPT ![h].pc = "reading", ![h].seen = Nothing, ![h].missed = {},
                      ![h].todo = {i \in Ids : disk[op[h].reading][i] # Absent}]
  /\ UNCHANGED <<disk, loaded, client, unread, settled, ops, faults>>

\* listSchemas and listFlows answer [] when the directory cannot be read, and the refresh
\* goes on.
ListFails(h) ==
  /\ op[h].pc = "listing" /\ Fault
  /\ op' = [op EXCEPT ![h].pc = "reading", ![h].seen = Nothing, ![h].missed = Ids, ![h].todo = {}]
  /\ UNCHANGED <<disk, loaded, client, unread, settled, ops>>

\* readJsonCollection reads a file, or skips one that is gone or torn.
FileRead(h) ==
  /\ op[h].pc = "reading"
  /\ \E i \in op[h].todo :
       op' = [op EXCEPT ![h].todo = @ \ {i}, ![h].seen[i] = Readable(op[h].reading)[i]]
  /\ UNCHANGED <<disk, loaded, client, unread, settled, ops, faults>>

\* An error of one file is logged, and the rest of the directory is read without it.
FileReadFails(h) ==
  /\ op[h].pc = "reading" /\ Fault
  /\ \E i \in op[h].todo :
       op' = [op EXCEPT ![h].todo = @ \ {i}, ![h].missed = @ \cup {i}]
  /\ UNCHANGED <<disk, loaded, client, unread, settled, ops>>

SchemasLoaded(h) ==
  /\ op[h].pc = "reading" /\ op[h].todo = {} /\ op[h].reading = "schemas"
  /\ loaded' = [loaded EXCEPT !["schemas"] = Merge("schemas", op[h].seen)]
  /\ unread' = [unread EXCEPT !["schemas"] = op[h].missed]
  /\ op' = [op EXCEPT ![h].pc = "listing", ![h].reading = "flows"]
  /\ UNCHANGED <<disk, client, settled, ops, faults>>

Announced_Mutant(h) == {}   \* the handler does not emit

\* What the handler emits at its end; clients that connect after a start are sent both.
Announced(h) == IF h = Boot THEN Dirs ELSE {op[h].dir}

\* loadedFlows is set, refresh returns and the handler announces what is loaded.
HandlerEnds(h) ==
  /\ op[h].pc = "reading" /\ op[h].todo = {} /\ op[h].reading = "flows"
  /\ loaded' = [loaded EXCEPT !["flows"] = Merge("flows", op[h].seen)]
  /\ unread' = [unread EXCEPT !["flows"] = op[h].missed]
  /\ client' = [d \in Dirs |-> IF d \in Announced(h) THEN loaded'[d] ELSE client[d]]
  /\ settled' = IF ~op[h].alone THEN "none" ELSE IF h = Boot THEN "boot" ELSE op[h].dir
  /\ op' = [op EXCEPT ![h] = Idle]
  /\ UNCHANGED <<disk, ops, faults>>

\* The process ends and starts again; clients reconnect once it has started.
Crash ==
  /\ Fault
  /\ loaded' = [d \in Dirs |-> Nothing] /\ client' = [d \in Dirs |-> Nothing]
  /\ op' = Booting /\ unread' = [d \in Dirs |-> {}] /\ settled' = "none"
  /\ UNCHANGED <<disk, ops>>

Next ==
  \/ \E h \in Handlers : Event(h)
  \/ \E h \in Actors :
       \/ Unlinked(h) \/ UnlinkFails(h) \/ Truncated(h) \/ Written(h) \/ SaveFails(h)
       \/ Listed(h) \/ ListFails(h) \/ FileRead(h) \/ FileReadFails(h) \/ SchemasLoaded(h) \/ HandlerEnds(h)
  \/ Crash

Spec == Init /\ [][Next]_vars

-----------------------------------------------------------------------------
(* Properties.                                                             *)

\* After an event that no other overlapped, whatever failed or crashed before it, the
\* backend serves what the files hold and the clients have been told.  Of what failed
\* during it one thing shows: a file, or a directory, that its own refresh could not read
\* is served as if it were not there (refresh, readJsonCollection, listSchemas, listFlows).
SettledIsFresh ==
  settled # "none" =>
    /\ \A d \in Dirs : loaded[d] = Merge(d, Found(d, unread[d]))
    /\ \A d \in Dirs : settled \in {d, "boot"} => client[d] = loaded[d]

\* An event that succeeds, handled alone, leaves nothing out of what the files hold.  Not
\* so: readJsonCollection skips a file it cannot read, and the event reports success.
SettledIsComplete ==
  settled # "none" => \A d \in Dirs : loaded[d] = Merge(d, Readable(d))

\* Once the backend started, no built-in document is ever missing, not while files are
\* unreadable, deleted or read by overlapping refreshes.
BuiltInsServed ==
  ~Busy(Boot) => \A d \in Dirs : \A i \in BuiltIn[d] : loaded[d][i] # Absent
=============================================================================
