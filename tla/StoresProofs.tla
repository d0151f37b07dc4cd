---------------------------- MODULE StoresProofs ----------------------------
(***************************************************************************)
(* Proofs about the two stores of the backend and the workers that use the *)
(* custom modules, for every set of handlers, documents, items, threads    *)
(* and batches, every schema, and any number of events, failures and       *)
(* crashes.                                                                *)
(***************************************************************************)
EXTENDS SchemaStore, GeneratorWorkers, FiniteSetTheorems, SequenceTheorems,
        WellFoundedInduction, TLAPS

-----------------------------------------------------------------------------
(* Schemas and flows: what an actor is at.                                 *)

OpRecords == [pc : Pcs, kind : Kinds, dir : Dirs, from : Ids, to : Ids,
              value : Versions \cup {Absent}, reading : Dirs, todo : SUBSET Ids,
              seen : [Ids -> Versions \cup {Absent}], missed : SUBSET Ids,
              mixed : BOOLEAN, alone : BOOLEAN]

\* The start of the process reads, and does nothing else.
BootReads == op[Boot].pc \in {"idle", "listing", "reading"}

\* The flows are read after the schemas, and the schemas after the file was written.
SchemasFirst == \A h \in Actors : op[h].reading = "flows" => op[h].pc \in {"listing", "reading"}

\* Whoever works alone is the only one at work, and nobody is once something is settled.
WorksAlone == \A h \in Actors : Busy(h) /\ op[h].alone => \A g \in Actors : Busy(g) => g = h
SettledIdle == settled # "none" => \A h \in Actors : ~Busy(h)

\* Alone, an actor has read what the files hold, but for those it has not come to or could
\* not read, and loaded the schemas of it before the flows.
HasRead(r) ==
  /\ r.todo \cap r.missed = {}
  /\ \A i \in Ids : r.seen[i] = IF i \in r.todo \cup r.missed THEN Absent ELSE Readable(r.reading)[i]
ReadsFiles == \A h \in Actors : op[h].alone /\ op[h].pc = "reading" => HasRead(op[h])
SchemasFresh == \A h \in Actors : op[h].alone /\ op[h].reading = "flows" =>
  loaded["schemas"] = Merge("schemas", Found("schemas", unread["schemas"]))

\* The built-in documents of a directory are among what is loaded.
Served(d) == \A i \in BuiltIn[d] : loaded[d][i] # Absent
BootServes == /\ ~Busy(Boot) => \A d \in Dirs : Served(d)
              /\ op[Boot].reading = "flows" => Served("schemas")

StoreInv == /\ TypeOK /\ BootReads /\ SchemasFirst /\ WorksAlone /\ SettledIdle
            /\ ReadsFiles /\ SchemasFresh /\ BootServes /\ SettledIsFresh

LEMMA SomeId == (CHOOSE i \in Ids : TRUE) \in Ids /\ (CHOOSE v \in Versions : TRUE) \in Versions
BY StoreAssumption

LEMMA NothingType == Nothing \in [Ids -> Versions \cup {Absent}] /\ \A i \in Ids : Nothing[i] = Absent
BY DEF Nothing

LEMMA IdleType ==
  /\ Idle \in OpRecords
  /\ Idle.pc = "idle" /\ Idle.reading = "schemas" /\ Idle.dir = "schemas" /\ Idle.mixed = FALSE
BY SomeId, NothingType DEF Idle, OpRecords, Pcs, Kinds, Dirs

LEMMA TypeOfOp == TypeOK => op \in [Actors -> OpRecords]
BY DEF TypeOK, OpRecords

\* Changing a field keeps the type of an actor's record, and the other fields.
LEMMA WithPc ==
  ASSUME NEW r \in OpRecords, NEW p \in Pcs
  PROVE  /\ [r EXCEPT !.pc = p] \in OpRecords
         /\ [r EXCEPT !.pc = p].pc = p
         /\ [r EXCEPT !.pc = p].reading = r.reading
         /\ [r EXCEPT !.pc = p].alone = r.alone
BY DEF OpRecords

\* The documents of a merge, and of what a read may find.
LEMMA MergeType ==
  ASSUME NEW d \in Dirs, NEW found \in [Ids -> Versions \cup {Absent}]
  PROVE  /\ Merge(d, found) \in [Ids -> Documents]
         /\ \A i \in BuiltIn[d] : Merge(d, found)[i] # Absent
BY StoreAssumption DEF Merge, Documents

LEMMA ReadableType ==
  ASSUME TypeOK, NEW d \in Dirs
  PROVE  Readable(d) \in [Ids -> Versions \cup {Absent}]
BY StoreAssumption DEF TypeOK, Readable

-----------------------------------------------------------------------------
(* A step of an actor that is at work: only what it does itself matters.   *)

LEMMA BusyMove ==
  ASSUME StoreInv, NEW h \in Actors, Busy(h), Busy(h)', settled' = settled,
         op' \in [Actors -> OpRecords],
         op'[h].alone => op[h].alone,
         \A g \in Actors \ {h} :
           /\ op'[g].pc = op[g].pc /\ op'[g].reading = op[g].reading
           /\ op'[g].alone => op[g].alone
  PROVE  /\ settled = "none" /\ WorksAlone' /\ SettledIdle' /\ SettledIsFresh'
         /\ \A g \in Actors \ {h} : op'[g].alone => op'[g].pc = "idle"
<1>1. settled = "none"
  BY DEF StoreInv, SettledIdle
<1>2. \A g \in Actors \ {h} : Busy(g) => ~op[g].alone
  BY DEF StoreInv, WorksAlone
<1>3. \A g \in Actors \ {h} : Busy(g)' = Busy(g)
  BY DEF Busy
<1>4. WorksAlone'
  BY <1>2, <1>3 DEF StoreInv, WorksAlone
<1>5. SettledIdle' /\ SettledIsFresh'
  BY <1>1 DEF SettledIdle, SettledIsFresh
<1> QED  BY <1>1, <1>2, <1>3, <1>4, <1>5 DEF Busy

\* When it does not read, and loads nothing, what it finds later is still to be seen.
LEMMA WritingMove ==
  ASSUME StoreInv, NEW h \in Actors, op[h].pc \in {"unlinking", "saving", "tearing"},
         op' \in [Actors -> OpRecords], op'[h].pc \in Pcs \ {"idle", "reading"},
         op'[h].alone => op[h].alone, op'[h].reading = op[h].reading,
         \A g \in Actors \ {h} :
           /\ op'[g].pc = op[g].pc /\ op'[g].reading = op[g].reading
           /\ op'[g].alone => op[g].alone,
         disk' \in [Dirs -> [Ids -> Versions \cup {Absent, Torn}]],
         ops' \in 0 .. MaxOps, faults' \in 0 .. MaxFaults,
         UNCHANGED <<loaded, client, unread, settled>>
  PROVE  StoreInv'
<1>1. Busy(h) /\ Busy(h)' /\ h # Boot /\ op[h].reading = "schemas"
  BY TypeOfOp DEF StoreInv, Busy, BootReads, SchemasFirst, OpRecords, Dirs
<1>2. /\ WorksAlone' /\ SettledIdle' /\ SettledIsFresh'
      /\ \A g \in Actors \ {h} : op'[g].alone => op'[g].pc = "idle"
  BY <1>1, BusyMove
<1>3. TypeOK'
  BY DEF StoreInv, TypeOK, OpRecords
<1>4. Boot \in Actors /\ op'[Boot].pc = op[Boot].pc /\ op'[Boot].reading = op[Boot].reading
  BY <1>1 DEF Actors
<1>5. BootReads'
  BY <1>4 DEF StoreInv, BootReads
<1>6. SchemasFirst'
  BY <1>1 DEF StoreInv, SchemasFirst
<1>7. ReadsFiles' /\ SchemasFresh'
  BY <1>1, <1>2, <1>6 DEF ReadsFiles, SchemasFresh, SchemasFirst
<1>8. BootServes'
  BY <1>4 DEF StoreInv, BootServes, Served, Busy
<1> QED  BY <1>2, <1>3, <1>5, <1>6, <1>7, <1>8 DEF StoreInv

-----------------------------------------------------------------------------
(* File operations.                                                        *)

LEMMA GoesTo ==
  ASSUME TypeOK, NEW h \in Actors, NEW p \in Pcs, Goes(h, p)
  PROVE  /\ op' \in [Actors -> OpRecords]
         /\ op'[h].pc = p /\ op'[h].reading = op[h].reading /\ op'[h].alone = op[h].alone
         /\ \A g \in Actors \ {h} : op'[g] = op[g]
<1>1. op \in [Actors -> OpRecords]
  BY TypeOfOp
<1>2. op' = [op EXCEPT ![h] = [op[h] EXCEPT !.pc = p]]
  BY <1>1 DEF Goes
<1>3. op[h] \in OpRecords
  BY <1>1
<1> DEFINE r == [op[h] EXCEPT !.pc = p]
<1>4. r \in OpRecords /\ r.pc = p /\ r.reading = op[h].reading /\ r.alone = op[h].alone
  BY <1>3, WithPc
<1>5. op' = [op EXCEPT ![h] = r]
  BY <1>2
<1> HIDE DEF r
<1> QED  BY <1>1, <1>4, <1>5

LEMMA FaultCounts ==
  ASSUME TypeOK, Fault
  PROVE  faults' \in 0 .. MaxFaults
<1>1. faults \in 0 .. MaxFaults /\ faults < MaxFaults /\ faults' = faults + 1
  BY DEF TypeOK, Fault
<1> QED  BY <1>1, StoreAssumption

LEMMA UnlinkKeeps ==
  ASSUME StoreInv, NEW h \in Actors, Unlinked(h) \/ UnlinkFails(h)
  PROVE  StoreInv'
<1>1. TypeOK
  BY DEF StoreInv
<1>2. AfterUnlink(h) \in Pcs \ {"idle", "reading"}
  BY DEF AfterUnlink, Pcs
<1>3. op[h].pc = "unlinking" /\ Goes(h, AfterUnlink(h)) /\ UNCHANGED <<loaded, client, unread, settled, ops>>
  BY DEF Unlinked, UnlinkFails
<1>4. disk' \in [Dirs -> [Ids -> Versions \cup {Absent, Torn}]]
  <2>1. CASE Unlinked(h)
    BY <1>1, <2>1 DEF Unlinked, TypeOK
  <2>2. CASE UnlinkFails(h)
    BY <1>1, <2>2 DEF UnlinkFails, TypeOK
  <2> QED  BY <2>1, <2>2
<1>5. faults' \in 0 .. MaxFaults
  BY <1>1, FaultCounts DEF Unlinked, UnlinkFails, TypeOK
<1>6. ops' \in 0 .. MaxOps
  BY <1>1, <1>3 DEF TypeOK
<1>7. /\ op' \in [Actors -> OpRecords]
      /\ op'[h].pc = AfterUnlink(h) /\ op'[h].reading = op[h].reading /\ op'[h].alone = op[h].alone
      /\ \A g \in Actors \ {h} : op'[g] = op[g]
  BY <1>1, <1>2, <1>3, GoesTo
<1> QED  BY <1>2, <1>3, <1>4, <1>5, <1>6, <1>7, WritingMove

LEMMA TruncateKeeps ==
  ASSUME StoreInv, NEW h \in Actors, Truncated(h)
  PROVE  StoreInv'
<1>1. TypeOK
  BY DEF StoreInv
<1>2. "tearing" \in Pcs \ {"idle", "reading"}
  BY DEF Pcs
<1>3. /\ op[h].pc = "saving" /\ Goes(h, "tearing")
      /\ UNCHANGED <<loaded, client, unread, settled, ops, faults>>
  BY DEF Truncated
<1>4. disk' \in [Dirs -> [Ids -> Versions \cup {Absent, Torn}]]
  BY <1>1 DEF Truncated, TypeOK
<1>6. ops' \in 0 .. MaxOps /\ faults' \in 0 .. MaxFaults
  BY <1>1, <1>3 DEF TypeOK
<1>7. /\ op' \in [Actors -> OpRecords]
      /\ op'[h].pc = "tearing" /\ op'[h].reading = op[h].reading /\ op'[h].alone = op[h].alone
      /\ \A g \in Actors \ {h} : op'[g] = op[g]
  BY <1>1, <1>2, <1>3, GoesTo
<1> QED  BY <1>2, <1>3, <1>4, <1>6, <1>7, WritingMove

LEMMA WrittenKeeps ==
  ASSUME StoreInv, NEW h \in Actors, Written(h)
  PROVE  StoreInv'
<1>1. TypeOK /\ op \in [Actors -> OpRecords]
  BY TypeOfOp DEF StoreInv
<1>2. /\ op[h].pc = "tearing" /\ UNCHANGED <<loaded, client, unread, settled, ops, faults>>
      /\ op' = [g \in Actors |-> IF g = h THEN [op[h] EXCEPT !.pc = "listing", !.mixed = FALSE]
                                 ELSE IF op[g].pc = "tearing" /\ SameFile(g, h)
                                 THEN [op[g] EXCEPT !.mixed = TRUE] ELSE op[g]]
  BY DEF Written
<1>3. disk' \in [Dirs -> [Ids -> Versions \cup {Absent, Torn}]]
  <2>1. PICK content \in {op[h].value} \cup (IF op[h].mixed THEN {Torn} ELSE {}) :
          disk' = [disk EXCEPT ![op[h].dir][op[h].to] = content]
    BY DEF Written
  <2>2. content \in Versions \cup {Absent, Torn}
    BY <1>1, <2>1 DEF OpRecords
  <2> QED  BY <1>1, <2>1, <2>2 DEF TypeOK
<1>4. ASSUME NEW r \in OpRecords
      PROVE  /\ [r EXCEPT !.mixed = TRUE] \in OpRecords
             /\ [r EXCEPT !.mixed = TRUE].pc = r.pc
             /\ [r EXCEPT !.mixed = TRUE].reading = r.reading
             /\ [r EXCEPT !.mixed = TRUE].alone = r.alone
  BY DEF OpRecords
<1>5. ASSUME NEW r \in OpRecords
      PROVE  /\ [r EXCEPT !.pc = "listing", !.mixed = FALSE] \in OpRecords
             /\ [r EXCEPT !.pc = "listing", !.mixed = FALSE].pc = "listing"
             /\ [r EXCEPT !.pc = "listing", !.mixed = FALSE].reading = r.reading
             /\ [r EXCEPT !.pc = "listing", !.mixed = FALSE].alone = r.alone
  BY DEF OpRecords, Pcs
<1>6. \A g \in Actors : op[g] \in OpRecords
  BY <1>1
<1>7. op' \in [Actors -> OpRecords]
  BY <1>2, <1>4, <1>5, <1>6
<1>8. op'[h].pc = "listing" /\ op'[h].reading = op[h].reading /\ op'[h].alone = op[h].alone
  BY <1>2, <1>5, <1>6
<1>9. \A g \in Actors \ {h} : /\ op'[g].pc = op[g].pc /\ op'[g].reading = op[g].reading
                              /\ op'[g].alone = op[g].alone
  BY <1>2, <1>4, <1>6
<1>10. ops' \in 0 .. MaxOps /\ faults' \in 0 .. MaxFaults
  BY <1>1, <1>2 DEF TypeOK
<1>11. "listing" \in Pcs \ {"idle", "reading"}
  BY DEF Pcs
<1> QED  BY <1>2, <1>3, <1>7, <1>8, <1>9, <1>10, <1>11, WritingMove

\* An actor that ends without having loaded anything leaves the others as they were.
LEMMA EndKeeps ==
  ASSUME StoreInv, NEW h \in Actors, h # Boot, Busy(h), op' = [op EXCEPT ![h] = Idle],
         faults' \in 0 .. MaxFaults, UNCHANGED <<disk, loaded, client, unread, settled, ops>>
  PROVE  StoreInv'
<1>1. TypeOK /\ op \in [Actors -> OpRecords] /\ Boot \in Actors
  BY TypeOfOp DEF StoreInv, Actors
<1>2. /\ op' \in [Actors -> OpRecords] /\ op'[h].pc = "idle" /\ op'[h].reading = "schemas"
      /\ \A g \in Actors \ {h} : op'[g] = op[g]
  BY <1>1, IdleType
<1>3. TypeOK'
  BY <1>1, <1>2 DEF TypeOK, OpRecords
<1>4. BootReads' /\ BootServes'
  BY <1>1, <1>2 DEF StoreInv, BootReads, BootServes, Busy, Served
<1>5. SchemasFirst' /\ WorksAlone' /\ SettledIdle'
  BY <1>2 DEF StoreInv, SchemasFirst, WorksAlone, SettledIdle, Busy
<1>6. ReadsFiles' /\ SchemasFresh'
  BY <1>2 DEF StoreInv, ReadsFiles, HasRead, SchemasFresh, Found, Readable
<1>7. SettledIsFresh'
  BY DEF StoreInv, SettledIsFresh, Found, Readable
<1> QED  BY <1>3, <1>4, <1>5, <1>6, <1>7 DEF StoreInv

LEMMA SaveFailureKeeps ==
  ASSUME StoreInv, NEW h \in Actors, SaveFails(h)
  PROVE  StoreInv'
<1>1. TypeOK /\ op \in [Actors -> OpRecords]
  BY TypeOfOp DEF StoreInv
<1>2. /\ op[h].pc \in {"saving", "tearing"} /\ UNCHANGED <<disk, loaded, client, unread, settled, ops>>
      /\ op' = [op EXCEPT ![h] = IF op[h].dir = "schemas" THEN Idle ELSE [op[h] EXCEPT !.pc = "listing"]]
  BY DEF SaveFails
<1>3. Busy(h) /\ h # Boot
  BY <1>2 DEF StoreInv, BootReads, Busy
<1>4. faults' \in 0 .. MaxFaults
  BY <1>1, FaultCounts DEF SaveFails
<1>5. CASE op[h].dir = "schemas"
  <2>1. op' = [op EXCEPT ![h] = Idle]
    BY <1>2, <1>5
  <2> QED  BY <1>2, <1>3, <1>4, <2>1, EndKeeps
<1>6. CASE op[h].dir # "schemas"
  <2>1. "listing" \in Pcs
    BY DEF Pcs
  <2>2. Goes(h, "listing")
    BY <1>1, <1>2, <1>6 DEF Goes
  <2>3. /\ op' \in [Actors -> OpRecords]
        /\ op'[h].pc = "listing" /\ op'[h].reading = op[h].reading /\ op'[h].alone = op[h].alone
        /\ \A g \in Actors \ {h} : op'[g] = op[g]
    BY <1>1, <2>1, <2>2, GoesTo
  <2>4. ops' \in 0 .. MaxOps /\ disk' \in [Dirs -> [Ids -> Versions \cup {Absent, Torn}]]
    BY <1>1, <1>2 DEF TypeOK
  <2> QED  BY <1>2, <1>4, <2>1, <2>3, <2>4, WritingMove
<1> QED  BY <1>5, <1>6

-----------------------------------------------------------------------------
(* The reading of the two directories.                                     *)

\* What has been read stays so while the files do.
LEMMA HasReadStill ==
  ASSUME UNCHANGED disk, NEW g \in Actors
  PROVE  HasRead(op[g])' <=> HasRead(op'[g])
BY DEF HasRead, Readable

\* A reader that reads what the files hold, of the same directory as before, keeps the
\* invariant.
LEMMA ReadingMove ==
  ASSUME StoreInv, NEW h \in Actors, op[h].pc \in {"listing", "reading"},
         NEW r \in OpRecords, op' = [op EXCEPT ![h] = r],
         r.pc = "reading", r.reading = op[h].reading,
         r.alone => op[h].alone,
         r.alone => HasRead(r),
         faults' \in 0 .. MaxFaults, UNCHANGED <<disk, loaded, client, unread, settled, ops>>
  PROVE  StoreInv'
<1>1. TypeOK /\ op \in [Actors -> OpRecords] /\ Boot \in Actors
  BY TypeOfOp DEF StoreInv, Actors
<1>2. op' \in [Actors -> OpRecords] /\ op'[h] = r /\ \A g \in Actors \ {h} : op'[g] = op[g]
  BY <1>1
<1>3. Busy(h) /\ Busy(h)'
  BY <1>2 DEF Busy
<1>4. /\ WorksAlone' /\ SettledIdle' /\ SettledIsFresh'
      /\ \A g \in Actors \ {h} : op'[g].alone => op'[g].pc = "idle"
  BY <1>2, <1>3, BusyMove
<1>5. TypeOK'
  BY <1>1, <1>2 DEF TypeOK, OpRecords
<1>6. BootReads' /\ SchemasFirst'
  BY <1>1, <1>2 DEF StoreInv, BootReads, SchemasFirst
<1>7. \A d, s : Found(d, s)' = Found(d, s)
  BY DEF Found, Readable
<1>8. ReadsFiles'
  <2> SUFFICES ASSUME NEW g \in Actors, op'[g].alone, op'[g].pc = "reading"
               PROVE  HasRead(op'[g])
    BY HasReadStill DEF ReadsFiles
  <2>1. g = h
    BY <1>4
  <2> QED  BY <1>2, <2>1
<1>9. SchemasFresh'
  BY <1>2, <1>7 DEF StoreInv, SchemasFresh
<1>10. BootServes'
  BY <1>1, <1>2, <1>3 DEF StoreInv, BootServes, Busy, Served
<1> QED  BY <1>4, <1>5, <1>6, <1>8, <1>9, <1>10 DEF StoreInv

LEMMA ListedKeeps ==
  ASSUME StoreInv, NEW h \in Actors, Listed(h)
  PROVE  StoreInv'
<1> DEFINE files == {i \in Ids : disk[op[h].reading][i] # Absent}
           r == [op[h] EXCEPT !.pc = "reading", !.seen = Nothing, !.missed = {}, !.todo = files]
<1>1. TypeOK /\ op \in [Actors -> OpRecords] /\ op[h] \in OpRecords /\ op[h].reading \in Dirs
  BY TypeOfOp DEF StoreInv, OpRecords
<1>2. op[h].pc = "listing" /\ UNCHANGED <<disk, loaded, client, unread, settled, ops, faults>>
  BY DEF Listed
<1>3. op' = [op EXCEPT ![h] = r]
  BY <1>1 DEF Listed
<1>4. /\ r \in OpRecords /\ r.pc = "reading" /\ r.reading = op[h].reading /\ r.alone = op[h].alone
      /\ r.seen = Nothing /\ r.todo = files /\ r.missed = {}
  BY <1>1, NothingType DEF OpRecords, Pcs
<1>5. HasRead(r)
  BY <1>4, NothingType, StoreAssumption DEF HasRead, Readable
<1>6. faults' \in 0 .. MaxFaults
  BY <1>1, <1>2 DEF TypeOK
<1> HIDE DEF r, files
<1> QED  BY <1>2, <1>3, <1>4, <1>5, <1>6, ReadingMove

LEMMA ListFailureKeeps ==
  ASSUME StoreInv, NEW h \in Actors, ListFails(h)
  PROVE  StoreInv'
<1> DEFINE r == [op[h] EXCEPT !.pc = "reading", !.seen = Nothing, !.missed = Ids, !.todo = {}]
<1>1. TypeOK /\ op \in [Actors -> OpRecords] /\ op[h] \in OpRecords
  BY TypeOfOp DEF StoreInv
<1>2. op[h].pc = "listing" /\ UNCHANGED <<disk, loaded, client, unread, settled, ops>>
  BY DEF ListFails
<1>3. op' = [op EXCEPT ![h] = r]
  BY <1>1 DEF ListFails
<1>4. /\ r \in OpRecords /\ r.pc = "reading" /\ r.reading = op[h].reading /\ r.alone = op[h].alone
      /\ r.seen = Nothing /\ r.todo = {} /\ r.missed = Ids
  BY <1>1, NothingType DEF OpRecords, Pcs
<1>5. HasRead(r)
  BY <1>4, NothingType DEF HasRead
<1>6. faults' \in 0 .. MaxFaults
  BY <1>1, FaultCounts DEF ListFails
<1> HIDE DEF r
<1> QED  BY <1>2, <1>3, <1>4, <1>5, <1>6, ReadingMove

LEMMA FileReadKeeps ==
  ASSUME StoreInv, NEW h \in Actors, FileRead(h)
  PROVE  StoreInv'
<1>1. TypeOK /\ op \in [Actors -> OpRecords] /\ op[h] \in OpRecords /\ op[h].reading \in Dirs
  BY TypeOfOp DEF StoreInv, OpRecords
<1>2. op[h].pc = "reading" /\ UNCHANGED <<disk, loaded, client, unread, settled, ops, faults>>
  BY DEF FileRead
<1>3. PICK i \in op[h].todo :
        op' = [op EXCEPT ![h].todo = @ \ {i}, ![h].seen[i] = Readable(op[h].reading)[i]]
  BY DEF FileRead
<1>4. i \in Ids /\ Readable(op[h].reading)[i] \in Versions \cup {Absent}
  BY <1>1, ReadableType DEF OpRecords
<1> DEFINE v == Readable(op[h].reading)[i]
           r == [op[h] EXCEPT !.todo = op[h].todo \ {i}, !.seen = [op[h].seen EXCEPT ![i] = v]]
<1>5. op' = [op EXCEPT ![h] = r]
  BY <1>1, <1>3
<1>6. /\ r \in OpRecords /\ r.pc = "reading" /\ r.reading = op[h].reading /\ r.alone = op[h].alone
      /\ r.seen = [op[h].seen EXCEPT ![i] = v] /\ r.todo = op[h].todo \ {i}
      /\ r.missed = op[h].missed
  BY <1>1, <1>2, <1>4 DEF OpRecords
<1> HIDE DEF r
<1>7. ASSUME r.alone PROVE HasRead(r)
  <2>1. op[h].seen \in [Ids -> Versions \cup {Absent}]
    BY <1>1 DEF OpRecords
  <2>2. HasRead(op[h])
    BY <1>2, <1>6, <1>7 DEF StoreInv, ReadsFiles
  <2>3. i \notin r.todo \cup r.missed /\ r.seen[i] = Readable(r.reading)[i]
    BY <1>4, <1>6, <2>1, <2>2 DEF HasRead
  <2>4. \A j \in Ids : j # i => /\ r.seen[j] = op[h].seen[j]
                                /\ j \in r.todo \cup r.missed <=> j \in op[h].todo \cup op[h].missed
    BY <1>6, <2>1
  <2> QED  BY <1>6, <2>2, <2>3, <2>4 DEF HasRead
<1>8. faults' \in 0 .. MaxFaults
  BY <1>1, <1>2 DEF TypeOK
<1> QED  BY <1>2, <1>5, <1>6, <1>7, <1>8, ReadingMove

LEMMA FileReadFailureKeeps ==
  ASSUME StoreInv, NEW h \in Actors, FileReadFails(h)
  PROVE  StoreInv'
<1>1. TypeOK /\ op \in [Actors -> OpRecords] /\ op[h] \in OpRecords
  BY TypeOfOp DEF StoreInv
<1>2. op[h].pc = "reading" /\ UNCHANGED <<disk, loaded, client, unread, settled, ops>>
  BY DEF FileReadFails
<1>3. PICK i \in op[h].todo :
        op' = [op EXCEPT ![h].todo = @ \ {i}, ![h].missed = @ \cup {i}]
  BY DEF FileReadFails
<1> DEFINE r == [op[h] EXCEPT !.todo = op[h].todo \ {i}, !.missed = op[h].missed \cup {i}]
<1>4. op' = [op EXCEPT ![h] = r]
  BY <1>1, <1>3
<1>5. /\ r \in OpRecords /\ r.pc = "reading" /\ r.reading = op[h].reading /\ r.alone = op[h].alone
      /\ r.seen = op[h].seen /\ r.todo = op[h].todo \ {i} /\ r.missed = op[h].missed \cup {i}
  BY <1>1, <1>2, <1>3 DEF OpRecords
<1> HIDE DEF r
<1>6. r.todo \cup r.missed = op[h].todo \cup op[h].missed
  BY <1>3, <1>5
<1>7. ASSUME r.alone PROVE HasRead(r)
  <2>1. HasRead(op[h])
    BY <1>2, <1>5, <1>7 DEF StoreInv, ReadsFiles
  <2> QED  BY <1>5, <1>6, <2>1 DEF HasRead
<1>8. faults' \in 0 .. MaxFaults
  BY <1>1, FaultCounts DEF FileReadFails
<1> QED  BY <1>2, <1>4, <1>5, <1>7, <1>8, ReadingMove

\* What was read alone is what the files hold, but for those that could not be read.
LEMMA SeenIsFound ==
  ASSUME StoreInv, NEW h \in Actors, op[h].pc = "reading", op[h].todo = {}, op[h].alone
  PROVE  Merge(op[h].reading, op[h].seen) = Merge(op[h].reading, Found(op[h].reading, op[h].missed))
<1>1. HasRead(op[h])
  BY DEF StoreInv, ReadsFiles
<1>2. \A i \in Ids : op[h].seen[i] = Found(op[h].reading, op[h].missed)[i]
  BY <1>1 DEF HasRead, Found
<1> QED  BY <1>2 DEF Merge

LEMMA SchemasLoadedKeeps ==
  ASSUME StoreInv, NEW h \in Actors, SchemasLoaded(h)
  PROVE  StoreInv'
<1> DEFINE r == [op[h] EXCEPT !.pc = "listing", !.reading = "flows"]
           m == Merge("schemas", op[h].seen)
<1>1. TypeOK /\ op \in [Actors -> OpRecords] /\ op[h] \in OpRecords /\ Boot \in Actors
  BY TypeOfOp DEF StoreInv, Actors
<1>2. /\ op[h].pc = "reading" /\ op[h].todo = {} /\ op[h].reading = "schemas"
      /\ loaded' = [loaded EXCEPT !["schemas"] = m]
      /\ unread' = [unread EXCEPT !["schemas"] = op[h].missed]
      /\ UNCHANGED <<disk, client, settled, ops, faults>>
  BY DEF SchemasLoaded
<1>3. op' = [op EXCEPT ![h] = r]
  BY <1>1 DEF SchemasLoaded
<1>4. r \in OpRecords /\ r.pc = "listing" /\ r.reading = "flows" /\ r.alone = op[h].alone
  BY <1>1 DEF OpRecords, Pcs, Dirs
<1> HIDE DEF r
<1>5. op' \in [Actors -> OpRecords] /\ op'[h] = r /\ \A g \in Actors \ {h} : op'[g] = op[g]
  BY <1>1, <1>3, <1>4
<1>6. Busy(h) /\ Busy(h)'
  BY <1>2, <1>4, <1>5 DEF Busy
<1>7. /\ WorksAlone' /\ SettledIdle' /\ SettledIsFresh'
      /\ \A g \in Actors \ {h} : op'[g].alone => op'[g].pc = "idle"
  BY <1>2, <1>4, <1>5, <1>6, BusyMove
<1>8. op[h].seen \in [Ids -> Versions \cup {Absent}] /\ "schemas" \in Dirs
  BY <1>1 DEF OpRecords, Dirs
<1>9. m \in [Ids -> Documents] /\ \A i \in BuiltIn["schemas"] : m[i] # Absent
  BY <1>8, MergeType
<1>a. op[h].alone => m = Merge("schemas", Found("schemas", op[h].missed))
  BY <1>2, SeenIsFound
<1> HIDE DEF m
<1>10. /\ loaded' \in [Dirs -> [Ids -> Documents]] /\ loaded'["schemas"] = m
       /\ loaded'["flows"] = loaded["flows"]
  BY <1>1, <1>2, <1>8, <1>9 DEF TypeOK, Dirs
<1>b. unread' \in [Dirs -> SUBSET Ids] /\ unread'["schemas"] = op[h].missed
  BY <1>1, <1>2, <1>8 DEF TypeOK, OpRecords
<1>11. TypeOK'
  BY <1>1, <1>2, <1>5, <1>10, <1>b DEF TypeOK, OpRecords
<1>12. BootReads' /\ SchemasFirst'
  BY <1>1, <1>4, <1>5 DEF StoreInv, BootReads, SchemasFirst
<1>13. \A d , s : Found(d, s)' = Found(d, s)
  BY <1>2 DEF Found, Readable
<1>14. ReadsFiles'
  BY <1>4, <1>5, <1>7 DEF ReadsFiles
<1>15. SchemasFresh'
  <2> SUFFICES ASSUME NEW g \in Actors, op'[g].alone, op'[g].reading = "flows"
               PROVE  loaded'["schemas"] = Merge("schemas", Found("schemas", unread'["schemas"]))
    BY <1>13 DEF SchemasFresh, Merge
  <2>1. g = h
    BY <1>7, <1>12 DEF SchemasFirst
  <2> QED  BY <1>4, <1>5, <1>10, <1>a, <1>b, <2>1
<1>16. BootServes'
  <2>1. Served("schemas")'
    BY <1>9, <1>10 DEF Served
  <2>2. Busy(Boot)' <=> Busy(Boot)
    BY <1>1, <1>5, <1>6 DEF Busy
  <2>3. ~Busy(Boot) => Served("flows")'
    BY <1>10 DEF StoreInv, BootServes, Served, Dirs
  <2> QED  BY <2>1, <2>2, <2>3 DEF BootServes, Dirs
<1> QED  BY <1>7, <1>11, <1>12, <1>14, <1>15, <1>16 DEF StoreInv

LEMMA HandlerEndKeeps ==
  ASSUME StoreInv, NEW h \in Actors, HandlerEnds(h)
  PROVE  StoreInv'
<1> DEFINE m == Merge("flows", op[h].seen)
<1>1. TypeOK /\ op \in [Actors -> OpRecords] /\ op[h] \in OpRecords /\ Boot \in Actors
  BY TypeOfOp DEF StoreInv, Actors
<1>2. /\ op[h].pc = "reading" /\ op[h].todo = {} /\ op[h].reading = "flows"
      /\ loaded' = [loaded EXCEPT !["flows"] = m]
      /\ unread' = [unread EXCEPT !["flows"] = op[h].missed]
      /\ client' = [d \in Dirs |-> IF d \in Announced(h) THEN loaded'[d] ELSE client[d]]
      /\ settled' = IF ~op[h].alone THEN "none" ELSE IF h = Boot THEN "boot" ELSE op[h].dir
      /\ op' = [op EXCEPT ![h] = Idle]
      /\ UNCHANGED <<disk, ops, faults>>
  BY DEF HandlerEnds
<1>3. /\ op' \in [Actors -> OpRecords] /\ op'[h].pc = "idle" /\ op'[h].reading = "schemas"
      /\ \A g \in Actors \ {h} : op'[g] = op[g]
  BY <1>1, <1>2, IdleType
<1>4. op[h].seen \in [Ids -> Versions \cup {Absent}] /\ "flows" \in Dirs /\ op[h].dir \in Dirs
  BY <1>1 DEF OpRecords, Dirs
<1>5. m \in [Ids -> Documents] /\ \A i \in BuiltIn["flows"] : m[i] # Absent
  BY <1>4, MergeType
<1>6. op[h].alone => m = Merge("flows", Found("flows", op[h].missed))
  BY <1>2, SeenIsFound
<1> HIDE DEF m
<1>7. /\ loaded' \in [Dirs -> [Ids -> Documents]] /\ loaded'["flows"] = m
      /\ loaded'["schemas"] = loaded["schemas"]
  BY <1>1, <1>2, <1>4, <1>5 DEF TypeOK, Dirs
<1>a. /\ unread' \in [Dirs -> SUBSET Ids] /\ unread'["flows"] = op[h].missed
      /\ unread'["schemas"] = unread["schemas"]
  BY <1>1, <1>2, <1>4 DEF TypeOK, OpRecords, Dirs
<1>8. TypeOK'
  <2>1. client' \in [Dirs -> [Ids -> Documents]]
    BY <1>1, <1>2, <1>7 DEF TypeOK
  <2>2. settled' \in Dirs \cup {"boot", "none"}
    BY <1>2, <1>4
  <2> QED  BY <1>1, <1>2, <1>3, <1>7, <1>a, <2>1, <2>2 DEF TypeOK, OpRecords
<1>9. BootReads' /\ SchemasFirst'
  BY <1>1, <1>3 DEF StoreInv, BootReads, SchemasFirst
<1>10. WorksAlone'
  BY <1>3 DEF StoreInv, WorksAlone, Busy
<1>11. SettledIdle'
  BY <1>2, <1>3 DEF StoreInv, WorksAlone, SettledIdle, Busy
<1>12. \A d , s : Found(d, s)' = Found(d, s)
  BY <1>2 DEF Found, Readable
<1>13. ReadsFiles'
  <2> SUFFICES ASSUME NEW g \in Actors, op'[g].alone, op'[g].pc = "reading"
               PROVE  HasRead(op'[g])
    BY <1>2, HasReadStill DEF ReadsFiles
  <2>1. op'[g] = op[g]
    BY <1>3
  <2> QED  BY <2>1 DEF StoreInv, ReadsFiles
<1>14. SchemasFresh'
  <2> SUFFICES ASSUME NEW g \in Actors, op'[g].alone, op'[g].reading = "flows"
               PROVE  loaded'["schemas"] = Merge("schemas", Found("schemas", unread'["schemas"]))
    BY <1>12 DEF SchemasFresh, Merge
  <2>1. op'[g] = op[g]
    BY <1>3
  <2> QED  BY <1>7, <1>a, <2>1 DEF StoreInv, SchemasFresh
<1>15. BootServes'
  <2>1. Served("flows")'
    BY <1>5, <1>7 DEF Served
  <2>2. ~Busy(Boot)' => Served("schemas")
    <3>1. CASE h = Boot
      BY <1>2, <3>1 DEF StoreInv, BootServes
    <3>2. CASE h # Boot
      BY <1>1, <1>3, <3>2 DEF StoreInv, BootServes, Busy, Dirs
    <3> QED  BY <3>1, <3>2
  <2>3. Served("schemas")' = Served("schemas")
    BY <1>7 DEF Served
  <2>4. op'[Boot].reading = "flows" => Served("schemas")
    BY <1>1, <1>3 DEF StoreInv, BootServes
  <2> QED  BY <2>1, <2>2, <2>3, <2>4 DEF BootServes, Dirs
<1>16. SettledIsFresh'
  <2> SUFFICES ASSUME settled' # "none"
               PROVE  /\ \A d \in Dirs : loaded'[d] = Merge(d, Found(d, unread'[d]))
                      /\ \A d \in Dirs : settled' \in {d, "boot"} => client'[d] = loaded'[d]
    BY <1>12 DEF SettledIsFresh, Merge
  <2>1. op[h].alone /\ settled' = IF h = Boot THEN "boot" ELSE op[h].dir
    BY <1>2
  <2>2. loaded["schemas"] = Merge("schemas", Found("schemas", unread["schemas"]))
    BY <1>2, <2>1 DEF StoreInv, SchemasFresh
  <2>3. \A d \in Dirs : settled' \in {d, "boot"} => d \in Announced(h)
    BY <1>4, <2>1 DEF Announced, Dirs
  <2> QED  BY <1>2, <1>6, <1>7, <1>a, <2>1, <2>2, <2>3 DEF Dirs
<1> QED  BY <1>8, <1>9, <1>10, <1>11, <1>13, <1>14, <1>15, <1>16 DEF StoreInv

-----------------------------------------------------------------------------
(* Events, the start and a crash.                                          *)

\* The first step of a handler that has something to do is not yet a read.
LEMMA BegunType ==
  ASSUME NEW r \in OpRecords, r.pc = "idle", r.reading = "schemas"
  PROVE  /\ Begun(r) \in OpRecords
         /\ Begun(r).pc \in Pcs \ {"idle", "reading"} /\ Begun(r).reading = "schemas"
<1>1. \A p \in Pcs \ {"idle", "reading"} :
        /\ [r EXCEPT !.pc = p] \in OpRecords
        /\ [r EXCEPT !.pc = p].pc = p /\ [r EXCEPT !.pc = p].reading = "schemas"
  BY WithPc
<1>2. {"listing", "unlinking", "saving"} \subseteq Pcs \ {"idle", "reading"}
  BY DEF Pcs
<1>3. \E p \in {"listing", "unlinking", "saving"} : Begun(r) = [r EXCEPT !.pc = p]
  BY DEF Begun, AfterExistsSync
<1> QED  BY <1>1, <1>2, <1>3

LEMMA EventKeeps ==
  ASSUME StoreInv, NEW h \in Handlers, Event(h)
  PROVE  StoreInv'
<1>1. TypeOK /\ op \in [Actors -> OpRecords] /\ h \in Actors /\ Boot \in Actors /\ h # Boot
  BY TypeOfOp, StoreAssumption DEF StoreInv, Actors
<1>2. /\ ~Busy(h) /\ ~Busy(Boot) /\ ops < MaxOps /\ ops' = ops + 1
      /\ UNCHANGED <<disk, loaded, client, unread, faults>>
  BY DEF Event
<1>3. PICK k \in Kinds \ {"boot"}, d \in Dirs, i, j \in Ids, v \in Versions \cup {Invalid, Absent} :
        LET r == [Idle EXCEPT !.kind = k, !.dir = d, !.from = i, !.to = j, !.value = v] IN
        /\ k # "update" => i = j
        /\ d = "flows" => k \in {"create", "delete"}
        /\ k \in {"delete", "refresh"} <=> v = Absent
        /\ d = "flows" => v # Invalid
        /\ IF Refused(r) THEN UNCHANGED <<op, settled>>
           ELSE op' = Joined(h, Begun(r)) /\ settled' = "none"
  BY DEF Event
<1> DEFINE r == [Idle EXCEPT !.kind = k, !.dir = d, !.from = i, !.to = j, !.value = v]
<1>4. ops' \in 0 .. MaxOps
  BY <1>1, <1>2, StoreAssumption DEF TypeOK
<1>6. CASE Refused(r)
  <2>1. UNCHANGED <<op, settled>>
    BY <1>3, <1>6
  <2>2. TypeOK'
    BY <1>1, <1>2, <1>4, <2>1 DEF TypeOK
  <2>3. BootReads' /\ SchemasFirst' /\ WorksAlone' /\ SettledIdle' /\ BootServes'
    BY <1>2, <2>1 DEF StoreInv, BootReads, SchemasFirst, WorksAlone, SettledIdle, BootServes, Busy,
                      Served
  <2>4. ReadsFiles' /\ SchemasFresh' /\ SettledIsFresh'
    BY <1>2, <2>1 DEF StoreInv, ReadsFiles, HasRead, SchemasFresh, SettledIsFresh, Merge, Found,
                      Readable
  <2> QED  BY <2>2, <2>3, <2>4 DEF StoreInv
<1>7. CASE ~Refused(r)
  <2>1. op' = Joined(h, Begun(r)) /\ settled' = "none"
    BY <1>3, <1>7
  <2>2. v \in Versions \cup {Absent}
    <3>1. r.dir = d /\ r.kind = k /\ r.value = v
      BY IdleType DEF OpRecords
    <3>2. v = Invalid => k \in {"create", "update"} /\ d = "schemas"
      BY <1>3, StoreAssumption DEF Kinds, Dirs
    <3> QED  BY <1>7, <3>1, <3>2 DEF Refused
  <2>3. r \in OpRecords /\ r.pc = "idle" /\ r.reading = "schemas"
    BY <2>2, IdleType DEF OpRecords
  <2> DEFINE b == Begun(r)
  <2>4. b \in OpRecords /\ b.pc \in Pcs \ {"idle", "reading"} /\ b.reading = "schemas"
    BY <2>3, BegunType
  <2> HIDE DEF r, b
  <2>5. op' = [g \in Actors |-> IF g = h THEN [b EXCEPT !.alone = \A a \in Actors : ~Busy(a)]
                                ELSE IF Busy(g) THEN [op[g] EXCEPT !.alone = FALSE] ELSE op[g]]
    BY <2>1 DEF Joined, b
  <2>6. ASSUME NEW t \in OpRecords, NEW a \in BOOLEAN
        PROVE  /\ [t EXCEPT !.alone = a] \in OpRecords
               /\ [t EXCEPT !.alone = a].pc = t.pc
               /\ [t EXCEPT !.alone = a].reading = t.reading
               /\ [t EXCEPT !.alone = a].todo = t.todo
               /\ [t EXCEPT !.alone = a].seen = t.seen
               /\ [t EXCEPT !.alone = a].alone = a
    BY DEF OpRecords
  <2> DEFINE nobody == \A a \in Actors : ~Busy(a)
  <2>7. nobody \in BOOLEAN
    OBVIOUS
  <2>8. op' \in [Actors -> OpRecords]
    BY <1>1, <2>4, <2>5, <2>6, <2>7
  <2>9. op'[h].pc = b.pc /\ op'[h].reading = "schemas" /\ op'[h].alone = nobody
    BY <1>1, <2>4, <2>5, <2>6, <2>7
  <2> HIDE DEF nobody
  <2>10. \A g \in Actors \ {h} :
           /\ op'[g].pc = op[g].pc /\ op'[g].reading = op[g].reading
           /\ op'[g].alone => ~Busy(g)
           /\ ~Busy(g) => op'[g] = op[g]
    BY <1>1, <2>5, <2>6
  <2>11. TypeOK'
    BY <1>1, <1>2, <1>4, <2>1, <2>8 DEF TypeOK, OpRecords
  <2>12. BootReads' /\ SchemasFirst' /\ SettledIdle'
    BY <1>1, <2>1, <2>9, <2>10 DEF StoreInv, BootReads, SchemasFirst, SettledIdle
  <2>13. WorksAlone'
    BY <2>9, <2>10 DEF WorksAlone, Busy, nobody
  <2>14. ReadsFiles'
    BY <2>4, <2>9, <2>10 DEF ReadsFiles, Busy
  <2>15. SchemasFresh'
    BY <2>9, <2>10, <2>12 DEF SchemasFresh, SchemasFirst, Busy, StoreInv
  <2>16. BootServes'
    BY <1>1, <1>2, <2>10 DEF StoreInv, BootServes, Busy, Served
  <2>17. SettledIsFresh'
    BY <2>1 DEF SettledIsFresh
  <2> QED  BY <2>11, <2>12, <2>13, <2>14, <2>15, <2>16, <2>17 DEF StoreInv
<1> QED  BY <1>6, <1>7

\* The process starts, with nothing loaded.
Started ==
  /\ disk \in [Dirs -> [Ids -> Versions \cup {Absent, Torn}]]
  /\ loaded = [d \in Dirs |-> Nothing] /\ client = [d \in Dirs |-> Nothing]
  /\ op = Booting /\ unread = [d \in Dirs |-> {}] /\ settled = "none"
  /\ ops \in 0 .. MaxOps /\ faults \in 0 .. MaxFaults

LEMMA Starts == Started => StoreInv
<1> SUFFICES ASSUME Started PROVE StoreInv
  OBVIOUS
<1> USE DEF Started
<1>1. Boot \in Actors
  BY DEF Actors
<1>2. Idle \in OpRecords /\ Idle.pc = "idle" /\ Idle.reading = "schemas"
  BY IdleType
<1> DEFINE r == [Idle EXCEPT !.pc = "listing"]
<1>3. r \in OpRecords /\ r.pc = "listing" /\ r.reading = "schemas"
  BY <1>2, WithPc DEF Pcs
<1> HIDE DEF r
<1>4. op = [h \in Actors |-> IF h = Boot THEN r ELSE Idle]
  BY DEF Booting, r
<1>5. op \in [Actors -> OpRecords]
  BY <1>2, <1>3, <1>4
<1>6. /\ op[Boot].pc = "listing" /\ op[Boot].reading = "schemas"
      /\ \A h \in Actors \ {Boot} : op[h].pc = "idle" /\ op[h].reading = "schemas"
  BY <1>1, <1>2, <1>3, <1>4
<1>7. [d \in Dirs |-> Nothing] \in [Dirs -> [Ids -> Documents]]
  BY NothingType DEF Documents
<1>8. TypeOK
  BY <1>5, <1>7 DEF TypeOK, OpRecords
<1>9. BootReads /\ SchemasFirst /\ WorksAlone /\ SettledIdle /\ ReadsFiles /\ SchemasFresh
  BY <1>6 DEF BootReads, SchemasFirst, WorksAlone, SettledIdle, ReadsFiles, SchemasFresh, Busy
<1>10. BootServes /\ SettledIsFresh
  BY <1>6 DEF BootServes, SettledIsFresh, Busy
<1> QED  BY <1>8, <1>9, <1>10 DEF StoreInv

LEMMA StoreStarts == Init => StoreInv
<1> SUFFICES ASSUME Init PROVE StoreInv
  OBVIOUS
<1>1. disk \in [Dirs -> [Ids -> Versions \cup {Absent, Torn}]]
  BY SomeId DEF Init
<1> QED  BY <1>1, StoreAssumption, Starts DEF Init, Started

LEMMA CrashKeeps ==
  ASSUME StoreInv, Crash
  PROVE  StoreInv'
<1>1. TypeOK
  BY DEF StoreInv
<1>2. /\ loaded' = [d \in Dirs |-> Nothing] /\ client' = [d \in Dirs |-> Nothing]
      /\ op' = Booting /\ unread' = [d \in Dirs |-> {}] /\ settled' = "none"
      /\ UNCHANGED <<disk, ops>>
  BY DEF Crash
<1>3. faults' \in 0 .. MaxFaults
  BY <1>1, FaultCounts DEF Crash
<1>4. /\ disk' \in [Dirs -> [Ids -> Versions \cup {Absent, Torn}]] /\ ops' \in 0 .. MaxOps
  BY <1>1, <1>2 DEF TypeOK
<1>5. Started'
  BY <1>2, <1>3, <1>4 DEF Started, Booting, Nothing, Idle
<1> QED  BY <1>5, Starts, PTL

LEMMA StoreStepKeeps == StoreInv /\ [Next]_vars => StoreInv'
<1> SUFFICES ASSUME StoreInv, [Next]_vars PROVE StoreInv'
  OBVIOUS
<1>1. CASE UNCHANGED vars
  BY <1>1 DEF vars, StoreInv, TypeOK, BootReads, SchemasFirst, WorksAlone, SettledIdle, ReadsFiles,
              HasRead, SchemasFresh, BootServes, SettledIsFresh, Busy, Served, Found, Readable
<1> QED
  BY <1>1, EventKeeps, UnlinkKeeps, TruncateKeeps, WrittenKeeps, SaveFailureKeeps, ListedKeeps,
     ListFailureKeeps, FileReadKeeps, FileReadFailureKeeps, SchemasLoadedKeeps, HandlerEndKeeps,
     CrashKeeps DEF Next

LEMMA StoreAlways == Spec => []StoreInv
BY StoreStarts, StoreStepKeeps, PTL DEF Spec

\* After an event that no other overlapped, the backend serves what the files hold, but for
\* the files its own refresh could not read, and the clients know it (refresh of
\* SchemaDiscoveryService and the handlers of the gateway), whatever was torn, failed or
\* crashed before, and whatever else failed during it.
THEOREM SettledStoreIsFresh == Spec => [](TypeOK /\ SettledIsFresh)
<1>1. StoreInv => TypeOK /\ SettledIsFresh
  BY DEF StoreInv
<1> QED  BY <1>1, StoreAlways, PTL

\* Once the backend started, the built-in schemas and flows are always among what it serves,
\* while refreshes overlap, files are torn or deleted and directories cannot be read
\* (loadSchemas, loadFlows).
THEOREM BuiltInsAlwaysServed == Spec => []BuiltInsServed
<1>1. StoreInv => BuiltInsServed
  BY DEF StoreInv, BootServes, Served, BuiltInsServed
<1> QED  BY <1>1, StoreAlways, PTL

-----------------------------------------------------------------------------
(* Custom templates and modules.                                           *)

\* A saver that is alone with its file has no other beside it, and none ended while it wrote.
AloneWithFile ==
  \A h \in Savers : Saving(h) /\ saver[h].alone =>
    /\ ~saver[h].mixed
    /\ \A g \in Savers : OnSameFile(g, h) => g = h

\* Nobody saves a kind that is in step.
InStepIdle == \A g \in Savers : Saving(g) => saver[g].kind \notin inStep

CustomInv == CustomTypeOK /\ shown = merged /\ AloneWithFile /\ InStepIdle /\ InStepAgrees

LEMMA OverriddenType ==
  ASSUME NEW items \in Items
  PROVE  Overridden(items) \in Items
BY DEF Overridden, Items

LEMMA RestingType ==
  Resting \in [pc : {"idle", "saving", "tearing"}, kind : FileKinds, next : Items,
               mixed : BOOLEAN, alone : BOOLEAN]
BY DEF Resting, Items, NoItems, FileKinds

LEMMA CustomStarts == CustomInit => CustomInv
<1> SUFFICES ASSUME CustomInit PROVE CustomInv
  OBVIOUS
<1>1. NoItems \in Items
  BY DEF NoItems, Items
<1>2. Overridden(NoItems) \in Items
  BY <1>1, OverriddenType
<1>3. \A h \in Savers : saver[h] = Resting /\ ~Saving(h)
  BY DEF CustomInit, Resting, Saving
<1>4. CustomTypeOK
  BY <1>1, <1>2, <1>3, RestingType, CustomAssumption DEF CustomInit, CustomTypeOK
<1>5. AloneWithFile /\ InStepIdle
  BY <1>3 DEF AloneWithFile, InStepIdle
<1>6. shown = merged /\ InStepAgrees
  BY DEF CustomInit, InStepAgrees
<1> QED  BY <1>4, <1>5, <1>6 DEF CustomInv

LEMMA SaveItemKeeps ==
  ASSUME CustomInv, NEW h \in Savers, SaveItem(h)
  PROVE  CustomInv'
<1> USE DEF CustomInv
<1>1. PICK k \in FileKinds, i \in ItemIds, v \in ItemVersions \cup {NoItem} :
        /\ saver' = [g \in Savers |->
             IF g = h THEN [Resting EXCEPT !.pc = "saving", !.kind = k,
                              !.alone = {b \in Savers : Saving(b) /\ saver[b].kind = k} = {},
                              !.next = WithItem(dynamic[k], i, v)]
             ELSE IF g \in {b \in Savers : Saving(b) /\ saver[b].kind = k}
                  THEN [saver[g] EXCEPT !.alone = FALSE] ELSE saver[g]]
        /\ inStep' = inStep \ {k}
  BY DEF SaveItem
<1>2. /\ ~Saving(h) /\ UNCHANGED <<file, dynamic, merged, shown, saveFaults>>
      /\ saves < MaxSaves /\ saves' = saves + 1
  BY DEF SaveItem
<1>0. inStep' = inStep \ {k}
  BY <1>1
<1>3. /\ saver'[h].pc = "saving" /\ saver'[h].kind = k /\ ~saver'[h].mixed
      /\ saver'[h].alone <=> \A b \in Savers : ~(Saving(b) /\ saver[b].kind = k)
  BY <1>1 DEF Resting
<1>4. \A g \in Savers \ {h} :
        /\ saver'[g].pc = saver[g].pc /\ saver'[g].kind = saver[g].kind
        /\ saver'[g].mixed = saver[g].mixed
        /\ saver'[g].alone => saver[g].alone /\ ~(Saving(g) /\ saver[g].kind = k)
  BY <1>1 DEF CustomTypeOK
<1>5. WithItem(dynamic[k], i, v) \in Items
  BY DEF WithItem, CustomTypeOK, Items
<1>6. CustomTypeOK'
  <2>1. saver' \in [Savers -> [pc : {"idle", "saving", "tearing"}, kind : FileKinds, next : Items,
                               mixed : BOOLEAN, alone : BOOLEAN]]
    <3> DEFINE States == [pc : {"idle", "saving", "tearing"}, kind : FileKinds, next : Items,
                         mixed : BOOLEAN, alone : BOOLEAN]
    <3>1. [Resting EXCEPT !.pc = "saving", !.kind = k,
             !.alone = {b \in Savers : Saving(b) /\ saver[b].kind = k} = {},
             !.next = WithItem(dynamic[k], i, v)] \in States
      BY <1>5 DEF Resting
    <3>2. \A g \in Savers : saver[g] \in States /\ [saver[g] EXCEPT !.alone = FALSE] \in States
      BY DEF CustomTypeOK
    <3> HIDE DEF States
    <3>3. saver' \in [Savers -> States]
      BY <1>1, <3>1, <3>2
    <3> QED  BY <3>3 DEF States
  <2>2. saves' \in 0 .. MaxSaves
    <3>1. saves \in 0 .. MaxSaves
      BY DEF CustomTypeOK
    <3> QED  BY <1>2, <3>1, CustomAssumption
  <2> QED  BY <1>0, <1>2, <2>1, <2>2 DEF CustomTypeOK
<1>7. AloneWithFile'
  BY <1>2, <1>3, <1>4 DEF AloneWithFile, Saving, OnSameFile
<1>8. InStepIdle'
  BY <1>0, <1>3, <1>4 DEF InStepIdle, Saving
<1>9. InStepAgrees'
  BY <1>0, <1>2 DEF InStepAgrees
<1> QED  BY <1>2, <1>6, <1>7, <1>8, <1>9

LEMMA TruncationKeeps ==
  ASSUME CustomInv, NEW h \in Savers, FileTruncated(h)
  PROVE  CustomInv'
<1> USE DEF CustomInv
<1>1. Saving(h) /\ saver[h].kind \notin inStep
  BY DEF FileTruncated, Saving, InStepIdle
<1>2. \A g \in Savers : Saving(g)' = Saving(g) /\ saver'[g].kind = saver[g].kind
                        /\ saver'[g].alone = saver[g].alone /\ saver'[g].mixed = saver[g].mixed
  BY DEF FileTruncated, Saving, CustomTypeOK
<1>3. CustomTypeOK'
  BY DEF FileTruncated, CustomTypeOK
<1>4. AloneWithFile' /\ InStepIdle'
  BY <1>2 DEF AloneWithFile, OnSameFile, InStepIdle, FileTruncated
<1>5. InStepAgrees' /\ (shown = merged)'
  BY <1>1 DEF InStepAgrees, FileTruncated, CustomTypeOK
<1> QED  BY <1>3, <1>4, <1>5

LEMMA WriteKeeps ==
  ASSUME CustomInv, NEW h \in Savers, FileWritten(h)
  PROVE  CustomInv'
<1> USE DEF CustomInv
<1> DEFINE k == saver[h].kind
           n == saver[h].next
<1>1. Saving(h) /\ k \in FileKinds /\ n \in Items /\ k \notin inStep
  BY DEF FileWritten, Saving, CustomTypeOK, InStepIdle
<1>2. PICK content \in {n} \cup (IF saver[h].mixed THEN {Broken} ELSE {}) :
        file' = [file EXCEPT ![k] = content]
  BY DEF FileWritten
<1>3. /\ dynamic' = [dynamic EXCEPT ![k] = n]
      /\ merged' = [merged EXCEPT ![k] = Overridden(n)] /\ shown' = merged'
      /\ UNCHANGED <<saves, saveFaults>>
  BY <1>1 DEF FileWritten, Kept, CustomTypeOK
<1>4. inStep' = IF saver[h].alone THEN inStep \cup {k} ELSE inStep
  BY DEF FileWritten
<1>5. saver' = [g \in Savers |-> IF g = h THEN Resting
                                 ELSE IF saver[g].pc = "tearing" /\ OnSameFile(g, h)
                                 THEN [saver[g] EXCEPT !.mixed = TRUE] ELSE saver[g]]
  BY DEF FileWritten
<1>6. /\ ~Saving(h)'
      /\ \A g \in Savers \ {h} :
           /\ Saving(g)' = Saving(g) /\ saver'[g].kind = saver[g].kind
           /\ saver'[g].alone = saver[g].alone
           /\ saver'[g].mixed => saver[g].mixed \/ OnSameFile(g, h)
  BY <1>5 DEF Saving, Resting, CustomTypeOK
<1>7. CustomTypeOK'
  <2>1. saver' \in [Savers -> [pc : {"idle", "saving", "tearing"}, kind : FileKinds, next : Items,
                               mixed : BOOLEAN, alone : BOOLEAN]]
    BY <1>5, RestingType DEF CustomTypeOK
  <2>2. file' \in [FileKinds -> Items \cup {Broken}]
    BY <1>1, <1>2 DEF CustomTypeOK
  <2>3. inStep' \subseteq FileKinds
    BY <1>1, <1>4 DEF CustomTypeOK
  <2> QED  BY <1>1, <1>3, <2>1, <2>2, <2>3, OverriddenType DEF CustomTypeOK
<1>8. AloneWithFile'
  BY <1>1, <1>6 DEF AloneWithFile, OnSameFile
<1>9. InStepIdle'
  <2> SUFFICES ASSUME NEW g \in Savers, Saving(g)'
               PROVE  saver'[g].kind \notin inStep'
    BY DEF InStepIdle
  <2>1. g # h /\ Saving(g) /\ saver'[g].kind = saver[g].kind
    BY <1>6
  <2>2. saver[h].alone => saver[g].kind # k
    BY <1>1, <2>1 DEF AloneWithFile, OnSameFile
  <2> QED  BY <1>4, <2>1, <2>2 DEF InStepIdle
<1>10. InStepAgrees'
  <2> SUFFICES ASSUME NEW j \in inStep'
               PROVE  /\ file'[j] = dynamic'[j] /\ merged'[j] = Overridden(dynamic'[j])
                      /\ shown'[j] = merged'[j]
    BY DEF InStepAgrees, Overridden
  <2>1. CASE j # k
    BY <1>2, <1>3, <1>4, <2>1 DEF InStepAgrees, CustomTypeOK
  <2>2. CASE j = k
    <3>1. saver[h].alone /\ content = n
      BY <1>1, <1>4, <2>2 DEF AloneWithFile
    <3> QED  BY <1>1, <1>2, <1>3, <2>2, <3>1 DEF CustomTypeOK
  <2> QED  BY <2>1, <2>2
<1> QED  BY <1>3, <1>7, <1>8, <1>9, <1>10

LEMMA WriteFailureKeeps ==
  ASSUME CustomInv, NEW h \in Savers, FileWriteFails(h)
  PROVE  CustomInv'
<1> USE DEF CustomInv
<1>1. saver' = [saver EXCEPT ![h] = Resting] /\ UNCHANGED <<file, dynamic, merged, shown, inStep, saves>>
  BY DEF FileWriteFails
<1>2. ~Saving(h)' /\ \A g \in Savers \ {h} : saver'[g] = saver[g] /\ Saving(g)' = Saving(g)
  BY <1>1 DEF Saving, Resting, CustomTypeOK
<1>3. CustomTypeOK'
  <2>1. saveFaults' \in 0 .. MaxSaveFaults
    BY CustomAssumption DEF FileWriteFails, CustomTypeOK
  <2> QED  BY <1>1, <2>1, RestingType DEF CustomTypeOK
<1>4. AloneWithFile' /\ InStepIdle'
  BY <1>1, <1>2 DEF AloneWithFile, OnSameFile, InStepIdle
<1>5. InStepAgrees' /\ (shown = merged)'
  BY <1>1 DEF InStepAgrees
<1> QED  BY <1>3, <1>4, <1>5

LEMMA RestartKeeps ==
  ASSUME CustomInv, Restart
  PROVE  CustomInv'
<1> USE DEF CustomInv
<1> DEFINE read == [k \in FileKinds |->
             IF file["templates"] = Broken \/ file[k] = Broken THEN NoItems ELSE file[k]]
<1>1. /\ dynamic' = read
      /\ merged' = [k \in FileKinds |-> IF \E j \in FileKinds : file[j] = Broken THEN NoItems
                                        ELSE Overridden(read[k])]
      /\ shown' = merged' /\ inStep' = {} /\ UNCHANGED <<file, saves>>
      /\ saver' = [h \in Savers |-> Resting]
  BY DEF Restart, Refreshed
<1>2. \A k \in FileKinds : read[k] \in Items /\ NoItems \in Items
  BY DEF CustomTypeOK, NoItems, Items
<1>3. \A h \in Savers : ~Saving(h)'
  BY <1>1 DEF Saving, Resting
<1>4. CustomTypeOK'
  <2>1. saveFaults' \in 0 .. MaxSaveFaults
    BY CustomAssumption DEF Restart, CustomTypeOK
  <2>2. dynamic' \in [FileKinds -> Items] /\ merged' \in [FileKinds -> Items]
    BY <1>1, <1>2, OverriddenType
  <2> QED  BY <1>1, <2>1, <2>2, RestingType DEF CustomTypeOK
<1>5. AloneWithFile' /\ InStepIdle' /\ InStepAgrees'
  BY <1>1, <1>3 DEF AloneWithFile, InStepIdle, InStepAgrees
<1> QED  BY <1>1, <1>4, <1>5

LEMMA CustomStepKeeps == CustomInv /\ [CustomNext]_customVars => CustomInv'
<1> SUFFICES ASSUME CustomInv, [CustomNext]_customVars PROVE CustomInv'
  OBVIOUS
<1>1. CASE UNCHANGED customVars
  BY <1>1 DEF customVars, CustomInv, CustomTypeOK, AloneWithFile, InStepIdle, InStepAgrees, Saving,
              OnSameFile
<1> QED
  BY <1>1, SaveItemKeeps, TruncationKeeps, WriteKeeps, WriteFailureKeeps, RestartKeeps DEF CustomNext

\* After a save or a delete that no other of its kind overlapped, file, memory and clients
\* agree (saveTemplate, deleteTemplate and the broadcast of handleSaveTemplate), whatever
\* overlapping saves, failing writes or a crash lost before.
THEOREM CustomDataInStep == CustomSpec => [](CustomTypeOK /\ InStepAgrees)
<1>1. CustomInv => CustomTypeOK /\ InStepAgrees
  BY DEF CustomInv
<1> QED  BY <1>1, CustomStarts, CustomStepKeeps, PTL DEF CustomSpec

-----------------------------------------------------------------------------
(* Batches: what a record uses.                                            *)

\* The modules a thread has, with their versions.
InUse(custom) == {<<m, custom[m]>> : m \in {i \in ItemIds : custom[i] # NoItem}}
Harmless(custom) == [ok : BOOLEAN, used : SUBSET InUse(custom)]

\* The smallest of a set of numbers.
LEMMA SmallestOf ==
  ASSUME NEW S, S \subseteq Nat, S # {}
  PROVE  \E k \in S : \A j \in S : k <= j
<1> DEFINE less == {p \in Nat \X Nat : p[1] < p[2]}
<1>1. IsWellFoundedOn(less, Nat)
  <2>1. less = OpToRel(<, Nat)
    BY DEF OpToRel
  <2> QED
    BY <2>1, NatLessThanWellFounded
<1>2. \A i, j \in Nat : i < j => <<i, j>> \in less
  OBVIOUS
<1> HIDE DEF less
<1>3. PICK k \in S : \A j \in S : ~(<<j, k>> \in less)
  BY <1>1, WFMin
<1>4. ASSUME NEW j \in S PROVE k <= j
  <2>1. j \in Nat /\ k \in Nat
    OBVIOUS
  <2>2. ~(j < k)
    BY <1>2, <1>3, <2>1
  <2> QED
    BY <2>1, <2>2
<1> QED
  BY <1>4

\* Induction over a tree of fields: what holds of fields if it holds of the fields nested in
\* them holds of all fields.
LEMMA FieldInduction ==
  ASSUME NEW Good,
         \A fields \in FieldLists : (\A g \in FieldLists : Depth[g] < Depth[fields] => g \in Good) => fields \in Good
  PROVE  FieldLists \subseteq Good
<1> DEFINE Bad == {Depth[fields] : fields \in {g \in FieldLists : g \notin Good}}
<1> SUFFICES ASSUME Bad # {} PROVE FALSE
  OBVIOUS
<1>1. Bad \subseteq Nat
  BY WorkersAssumption
<1>2. PICK d \in Bad : \A e \in Bad : d <= e
  BY <1>1, SmallestOf
<1>3. PICK fields \in FieldLists : fields \notin Good /\ d = Depth[fields]
  BY <1>2
<1>4. ASSUME NEW g \in FieldLists, Depth[g] < Depth[fields] PROVE g \in Good
  <2>1. Depth[g] \notin Bad
    <3>1. Depth[g] \in Nat /\ Depth[fields] \in Nat
      BY WorkersAssumption
    <3>2. ~(d <= Depth[g])
      BY <1>3, <1>4, <3>1
    <3> HIDE DEF Bad
    <3> QED
      BY <1>2, <3>2
  <2> QED
    BY <2>1
<1> QED
  BY <1>3, <1>4

\* A record made of harmless fields is harmless.
LEMMA TogetherHarmless ==
  ASSUME NEW custom, NEW outcomes, \A k \in DOMAIN outcomes : outcomes[k] \subseteq Harmless(custom)
  PROVE  Together(outcomes) \subseteq Harmless(custom)
<1> SUFFICES ASSUME NEW o \in Together(outcomes) PROVE o \in Harmless(custom)
  OBVIOUS
<1>1. PICK chosen \in [DOMAIN outcomes -> UNION {outcomes[k] : k \in DOMAIN outcomes}] :
        /\ \A k \in DOMAIN outcomes : chosen[k] \in outcomes[k]
        /\ o = Outcome(\A k \in DOMAIN outcomes : chosen[k].ok, UNION {chosen[k].used : k \in DOMAIN outcomes})
  BY DEF Together
<1>2. \A k \in DOMAIN outcomes : chosen[k].used \subseteq InUse(custom)
  BY <1>1 DEF Harmless
<1>3. UNION {chosen[k].used : k \in DOMAIN outcomes} \subseteq InUse(custom)
  BY <1>2
<1>4. (\A k \in DOMAIN outcomes : chosen[k].ok) \in BOOLEAN
  OBVIOUS
<1> QED
  BY <1>1, <1>3, <1>4 DEF Outcome, Harmless

LEMMA FieldHarmless ==
  ASSUME NEW custom, NEW fields \in FieldLists, NEW k \in DOMAIN fields, NEW nested,
         \A g \in FieldLists : Depth[g] < Depth[fields] => nested[g] \subseteq Harmless(custom)
  PROVE  FieldOutcomes(fields[k], custom, nested) \subseteq Harmless(custom)
<1>1. Plain \subseteq Harmless(custom) /\ Throws \subseteq Harmless(custom)
  BY DEF Plain, Throws, Outcome, Harmless
<1>2. fields[k].type \in {"module", "template"} => ModuleOutcomes(fields[k], custom) \subseteq Harmless(custom)
  <2> SUFFICES ASSUME fields[k].type \in {"module", "template"}
               PROVE  ModuleOutcomes(fields[k], custom) \subseteq Harmless(custom)
    OBVIOUS
  <2>1. fields[k].module \in ItemIds
    BY WorkersAssumption
  <2>2. CASE custom[fields[k].module] # NoItem
    <3>1. ModuleOutcomes(fields[k], custom) = {Outcome(TRUE, {<<fields[k].module, custom[fields[k].module]>>})}
      BY <2>2 DEF ModuleOutcomes
    <3>2. <<fields[k].module, custom[fields[k].module]>> \in InUse(custom)
      BY <2>1, <2>2 DEF InUse
    <3> QED
      BY <3>1, <3>2 DEF Outcome, Harmless
  <2>3. CASE custom[fields[k].module] = NoItem
    BY <1>1, <2>3 DEF ModuleOutcomes
  <2> QED
    BY <2>2, <2>3
<1>3. fields[k].type \in {"object", "array"} => nested[fields[k].fields] \subseteq Harmless(custom)
  BY WorkersAssumption
<1>4. NumberOutcomes(fields[k]) \subseteq Harmless(custom)
  BY <1>1 DEF NumberOutcomes
<1>5. CASE fields[k].type = "number"
  BY <1>4, <1>5 DEF FieldOutcomes
<1>6. CASE fields[k].type \in {"module", "template"}
  BY <1>2, <1>6 DEF FieldOutcomes
<1>7. CASE fields[k].type = "object"
  BY <1>3, <1>7 DEF FieldOutcomes
<1>8. CASE fields[k].type = "array"
  <2>1. FieldOutcomes(fields[k], custom, nested)
        = (IF 0 \in ArrayCounts(fields[k]) THEN Plain ELSE {})
            \cup (IF ArrayCounts(fields[k]) # {0} THEN nested[fields[k].fields] ELSE {})
    BY <1>8 DEF FieldOutcomes
  <2> QED
    BY <1>1, <1>3, <1>8, <2>1
<1>9. CASE fields[k].type \notin {"number", "module", "template", "object", "array"}
  BY <1>1, <1>9 DEF FieldOutcomes
<1> QED
  BY <1>5, <1>6, <1>7, <1>8, <1>9

\* The outcomes of a record, when those of the records nested in it are given.
Built(fields, custom, nested) == Together([k \in DOMAIN fields |-> FieldOutcomes(fields[k], custom, nested)])
Fits(f, custom, depth) ==
  \A fields \in FieldLists : Depth[fields] < depth => f[fields] = Built(fields, custom, f)

\* They depend on what is nested in the fields only.
LEMMA BuiltSame ==
  ASSUME NEW custom, NEW fields \in FieldLists, NEW f, NEW g,
         \A l \in FieldLists : Depth[l] < Depth[fields] => f[l] = g[l]
  PROVE  Built(fields, custom, f) = Built(fields, custom, g)
<1>1. ASSUME NEW k \in DOMAIN fields
      PROVE  FieldOutcomes(fields[k], custom, f) = FieldOutcomes(fields[k], custom, g)
  <2>1. fields[k].type \in {"object", "array"} => f[fields[k].fields] = g[fields[k].fields]
    BY WorkersAssumption
  <2>2. CASE fields[k].type \in {"object", "array"}
    BY <2>1, <2>2 DEF FieldOutcomes
  <2>3. CASE fields[k].type \notin {"object", "array"}
    BY <2>3 DEF FieldOutcomes
  <2> QED
    BY <2>2, <2>3
<1>2. [k \in DOMAIN fields |-> FieldOutcomes(fields[k], custom, f)]
      = [k \in DOMAIN fields |-> FieldOutcomes(fields[k], custom, g)]
  BY <1>1
<1> QED
  BY <1>2 DEF Built

LEMMA FitsAgree ==
  ASSUME NEW custom, NEW f, NEW g, NEW n \in Nat, NEW m \in Nat, Fits(f, custom, n), Fits(g, custom, m)
  PROVE  \A fields \in FieldLists : Depth[fields] < n /\ Depth[fields] < m => f[fields] = g[fields]
<1> DEFINE Good == {fields \in FieldLists : Depth[fields] < n /\ Depth[fields] < m => f[fields] = g[fields]}
<1>1. ASSUME NEW fields \in FieldLists, \A l \in FieldLists : Depth[l] < Depth[fields] => l \in Good
      PROVE  fields \in Good
  <2> SUFFICES ASSUME Depth[fields] < n, Depth[fields] < m PROVE f[fields] = g[fields]
    OBVIOUS
  <2>1. ASSUME NEW l \in FieldLists, Depth[l] < Depth[fields] PROVE f[l] = g[l]
    <3>1. Depth[l] \in Nat /\ Depth[fields] \in Nat
      BY WorkersAssumption
    <3>2. Depth[l] < n /\ Depth[l] < m
      BY <2>1, <3>1
    <3>3. l \in Good
      BY <1>1, <2>1
    <3> QED
      BY <3>2, <3>3
  <2>2. Built(fields, custom, f) = Built(fields, custom, g)
    BY <2>1, BuiltSame
  <2> QED
    BY <2>2 DEF Fits
<1> HIDE DEF Good
<1>2. FieldLists \subseteq Good
  BY <1>1, FieldInduction
<1> QED
  BY <1>2 DEF Good

LEMMA FitsUpTo ==
  ASSUME NEW custom, NEW n \in Nat
  PROVE  \E f : Fits(f, custom, n)
<1> DEFINE Bad == {m \in Nat : \A f : ~Fits(f, custom, m)}
<1> SUFFICES ASSUME Bad # {} PROVE FALSE
  OBVIOUS
<1>1. PICK m \in Bad : \A j \in Bad : m <= j
  <2>1. Bad \subseteq Nat
    OBVIOUS
  <2> HIDE DEF Bad
  <2> QED
    BY <2>1, SmallestOf
<1>2. m # 0
  <2>1. Fits(<<>>, custom, 0)
    <3>1. \A fields \in FieldLists : ~(Depth[fields] < 0)
      BY WorkersAssumption
    <3> QED
      BY <3>1 DEF Fits
  <2> QED
    BY <2>1
<1>3. m \in Nat /\ m - 1 \in Nat /\ ~(m <= m - 1)
  BY <1>2
<1>4. PICK f : Fits(f, custom, m - 1)
  BY <1>1, <1>3
<1> DEFINE h == [fields \in FieldLists |-> Built(fields, custom, f)]
<1>5. \A fields \in FieldLists : h[fields] = Built(fields, custom, f)
  OBVIOUS
<1> HIDE DEF h
<1>6. ASSUME NEW fields \in FieldLists, Depth[fields] < m PROVE h[fields] = Built(fields, custom, h)
  <2>1. ASSUME NEW l \in FieldLists, Depth[l] < Depth[fields] PROVE f[l] = h[l]
    <3>1. Depth[l] \in Nat /\ Depth[fields] \in Nat
      BY WorkersAssumption
    <3>2. Depth[l] < m - 1
      BY <1>3, <1>6, <2>1, <3>1
    <3> QED
      BY <1>4, <1>5, <3>2 DEF Fits
  <2>2. Built(fields, custom, f) = Built(fields, custom, h)
    BY <2>1, BuiltSame
  <2> QED
    BY <1>5, <2>2
<1>7. Fits(h, custom, m)
  BY <1>6 DEF Fits
<1> QED
  BY <1>7

\* There are outcomes of every record, made of those of the records nested in it.
LEMMA OutcomesExist ==
  ASSUME NEW custom
  PROVE  \E f : f = [fields \in FieldLists |-> Built(fields, custom, f)]
<1> DEFINE Fit(n) == CHOOSE f : Fits(f, custom, n)
           all == [fields \in FieldLists |-> Fit(Depth[fields] + 1)[fields]]
<1>1. \A n \in Nat : Fits(Fit(n), custom, n)
  BY FitsUpTo
<1>2. \A fields \in FieldLists : all[fields] = Fit(Depth[fields] + 1)[fields]
  OBVIOUS
<1>3. all = [fields \in FieldLists |-> all[fields]]
  OBVIOUS
<1> HIDE DEF Fit, all
<1>4. ASSUME NEW fields \in FieldLists PROVE all[fields] = Built(fields, custom, all)
  <2>1. Depth[fields] \in Nat /\ Depth[fields] + 1 \in Nat /\ Depth[fields] < Depth[fields] + 1
    BY WorkersAssumption
  <2>2. ASSUME NEW l \in FieldLists, Depth[l] < Depth[fields] PROVE Fit(Depth[fields] + 1)[l] = all[l]
    <3>1. Depth[l] \in Nat /\ Depth[l] + 1 \in Nat /\ Depth[l] < Depth[l] + 1
      BY WorkersAssumption
    <3>2. Depth[l] < Depth[fields] + 1
      BY <2>1, <2>2, <3>1
    <3>3. Fits(Fit(Depth[fields] + 1), custom, Depth[fields] + 1) /\ Fits(Fit(Depth[l] + 1), custom, Depth[l] + 1)
      BY <1>1, <2>1, <3>1
    <3>4. Fit(Depth[fields] + 1)[l] = Fit(Depth[l] + 1)[l]
      BY <2>1, <3>1, <3>2, <3>3, FitsAgree
    <3> QED
      BY <1>2, <3>4
  <2>3. Fit(Depth[fields] + 1)[fields] = Built(fields, custom, Fit(Depth[fields] + 1))
    BY <1>1, <2>1 DEF Fits
  <2>4. Built(fields, custom, Fit(Depth[fields] + 1)) = Built(fields, custom, all)
    BY <2>2, BuiltSame
  <2> QED
    BY <1>2, <2>3, <2>4
<1>5. all = [fields \in FieldLists |-> Built(fields, custom, all)]
  BY <1>3, <1>4
<1> QED
  BY <1>5

LEMMA RecordOutcomesAre ==
  ASSUME NEW custom
  PROVE  \A fields \in FieldLists :
           RecordOutcomes(custom)[fields] = Built(fields, custom, RecordOutcomes(custom))
<1> DEFINE outcomes == CHOOSE f : f = [fields \in FieldLists |-> Built(fields, custom, f)]
<1>1. outcomes = [fields \in FieldLists |-> Built(fields, custom, outcomes)]
  BY OutcomesExist
<1>2. RecordOutcomes(custom) = outcomes
  BY DEF RecordOutcomes, Built
<1> HIDE DEF outcomes
<1>3. \A fields \in FieldLists : outcomes[fields] = Built(fields, custom, outcomes)
  BY <1>1
<1> QED
  BY <1>2, <1>3

\* A record uses modules its thread has, in the version the thread has.
LEMMA RecordsHarmless ==
  ASSUME NEW custom
  PROVE  \A fields \in FieldLists : RecordOutcomes(custom)[fields] \subseteq Harmless(custom)
<1> DEFINE f == RecordOutcomes(custom)
           Good == {fields \in FieldLists : f[fields] \subseteq Harmless(custom)}
<1>1. ASSUME NEW fields \in FieldLists, \A l \in FieldLists : Depth[l] < Depth[fields] => l \in Good
      PROVE  fields \in Good
  <2> DEFINE outcomes == [k \in DOMAIN fields |-> FieldOutcomes(fields[k], custom, f)]
  <2>1. ASSUME NEW k \in DOMAIN fields PROVE outcomes[k] \subseteq Harmless(custom)
    <3>1. \A l \in FieldLists : Depth[l] < Depth[fields] => f[l] \subseteq Harmless(custom)
      BY <1>1
    <3>2. FieldOutcomes(fields[k], custom, f) \subseteq Harmless(custom)
      BY <3>1, FieldHarmless
    <3> QED
      BY <3>2
  <2>2. f[fields] = Together(outcomes)
    BY RecordOutcomesAre DEF Built
  <2>3. \A k \in DOMAIN outcomes : outcomes[k] \subseteq Harmless(custom)
    BY <2>1
  <2> HIDE DEF outcomes
  <2>4. Together(outcomes) \subseteq Harmless(custom)
    BY <2>3, TogetherHarmless
  <2> QED
    BY <2>2, <2>4
<1> HIDE DEF Good
<1>2. FieldLists \subseteq Good
  BY <1>1, FieldInduction
<1> QED
  BY <1>2 DEF Good

-----------------------------------------------------------------------------
(* Batches: their chunks.                                                  *)

LEMMA Multiply ==
  ASSUME NEW a \in Int, NEW b \in Int, a <= b, NEW n \in Nat
  PROVE  n * a <= n * b
<1>1. b - a \in Nat
  OBVIOUS
<1>2. n * (b - a) \in Nat
  BY <1>1
<1>3. n * (b - a) = n * b - n * a
  OBVIOUS
<1> QED
  BY <1>2, <1>3

LEMMA ChunkCountIs ==
  ASSUME NEW count \in Nat
  PROVE  LET last == BatchSize * ChunkCount(count)
         IN  /\ ChunkCount(count) \in Nat /\ last \in Nat /\ BatchSize \in Nat \ {0}
             /\ last >= count /\ last < count + BatchSize
             /\ count = 0 => ChunkCount(count) = 0
             /\ count > 0 => ChunkCount(count) > 0
<1> DEFINE c == ChunkCount(count)
           top == count + BatchSize - 1
           r == top % BatchSize
<1>1. BatchSize \in Nat /\ BatchSize > 0 /\ top \in Nat
  BY WorkersAssumption
<1>2. c \in Nat /\ r \in Nat /\ r < BatchSize /\ top = BatchSize * c + r
  BY <1>1 DEF ChunkCount
<1> HIDE DEF c, r
<1>3. BatchSize * c \in Nat
  BY <1>1, <1>2
<1>4. BatchSize * c >= count /\ BatchSize * c < count + BatchSize
  BY <1>1, <1>2, <1>3
<1>5. count > 0 => c > 0
  <2>1. c = 0 => BatchSize * c = 0
    BY <1>1
  <2> QED
    BY <1>2, <1>4, <2>1
<1>6. count = 0 => c = 0
  <2> SUFFICES ASSUME count = 0, c >= 1 PROVE FALSE
    BY <1>2
  <2>1. BatchSize * 1 <= BatchSize * c
    BY <1>1, <1>2, Multiply
  <2>2. BatchSize * 1 = BatchSize /\ BatchSize * c < BatchSize
    BY <1>1, <1>3, <1>4
  <2> QED
    BY <1>1, <1>3, <2>1, <2>2
<1> QED
  BY <1>1, <1>2, <1>3, <1>4, <1>5, <1>6 DEF c

\* Every chunk has BATCH_SIZE records, the last one what is left.
LEMMA ChunkSizesAre ==
  ASSUME NEW count \in Nat, NEW n \in 1 .. ChunkCount(count)
  PROVE  /\ ChunkSizes(count)[n] \in Nat
         /\ n # ChunkCount(count) => ChunkSizes(count)[n] = BatchSize
         /\ n = ChunkCount(count) =>
              ChunkSizes(count)[n] = count - (BatchSize * ChunkCount(count) - BatchSize)
<1> DEFINE c == ChunkCount(count)
           q == count \div BatchSize
           r == count % BatchSize
<1>1. /\ c \in Nat /\ BatchSize * c \in Nat /\ BatchSize \in Nat /\ BatchSize > 0
      /\ BatchSize * c >= count /\ BatchSize * c < count + BatchSize
  BY ChunkCountIs
<1>2. q \in Nat /\ r \in Nat /\ r < BatchSize /\ count = BatchSize * q + r
  BY <1>1
<1>3. ChunkSizes(count)[n] = IF n * BatchSize <= count THEN BatchSize ELSE r
  BY DEF ChunkSizes
<1>4. n \in Nat /\ n <= c /\ n * BatchSize = BatchSize * n
  BY <1>1
<1> HIDE DEF c, q, r
<1>5. CASE n # c
  <2>1. BatchSize * n <= BatchSize * (c - 1)
    BY <1>1, <1>4, <1>5, Multiply
  <2>2. BatchSize * (c - 1) = BatchSize * c - BatchSize
    BY <1>1
  <2>3. BatchSize * n <= count
    <3>1. BatchSize * n \in Nat
      BY <1>1, <1>4
    <3> QED
      BY <1>1, <2>1, <2>2, <3>1
  <2>4. ChunkSizes(count)[n] = BatchSize
    BY <1>3, <1>4, <2>3
  <2> QED
    BY <1>1, <1>5, <2>4 DEF c
<1>6. CASE n = c
  <2>1. CASE BatchSize * c <= count
    <3>1. BatchSize * c = count /\ ChunkSizes(count)[n] = BatchSize
      BY <1>1, <1>3, <1>4, <1>6, <2>1
    <3> QED
      BY <1>1, <1>6, <3>1 DEF c
  <2>2. CASE ~(BatchSize * c <= count)
    <3>1. ChunkSizes(count)[n] = r
      BY <1>3, <1>4, <1>6, <2>2
    <3>2. q = c - 1
      <4>1. BatchSize * q \in Nat
        BY <1>1, <1>2
      <4>2. ~(c <= q)
        <5> SUFFICES ASSUME c <= q PROVE FALSE
          OBVIOUS
        <5>1. BatchSize * c <= BatchSize * q
          BY <1>1, <1>2, Multiply
        <5> QED
          BY <1>1, <1>2, <2>2, <4>1, <5>1
      <4>3. ~(q + 1 <= c - 1)
        <5> SUFFICES ASSUME q + 1 <= c - 1 PROVE FALSE
          OBVIOUS
        <5>1. BatchSize * (q + 1) <= BatchSize * (c - 1)
          BY <1>1, <1>2, Multiply
        <5>2. BatchSize * (q + 1) = BatchSize * q + BatchSize /\ BatchSize * (c - 1) = BatchSize * c - BatchSize
          BY <1>1, <1>2
        <5> QED
          BY <1>1, <1>2, <4>1, <5>1, <5>2
      <4> QED
        BY <1>1, <1>2, <4>2, <4>3
    <3>3. r = count - BatchSize * q /\ BatchSize * q = BatchSize * c - BatchSize
      <4>1. BatchSize * (c - 1) = BatchSize * c - BatchSize
        BY <1>1
      <4>2. BatchSize * q \in Nat
        BY <1>1, <1>2
      <4> QED
        BY <1>2, <3>2, <4>1, <4>2
    <3> QED
      BY <1>2, <1>6, <3>1, <3>3 DEF c
  <2> QED
    BY <2>1, <2>2
<1> QED
  BY <1>5, <1>6

-----------------------------------------------------------------------------
(* Batches: the invariant.                                                 *)

Tasks == [batch : Batches, chunk : Nat, size : Nat]
Calls == [pc : {"idle", "running", "resolved", "failed"}, fields : FieldLists \cup {NoFields}, count : Nat,
          modules : Items, left : Int, got : Nat,
          used : SUBSET (ItemIds \X (ItemVersions \cup {Original, NoItem}))]

WorkerTypes ==
  /\ known \in [Threads -> Items] /\ queue \in Seq(Tasks)
  /\ running \in [Threads -> SUBSET Tasks] /\ batch \in [Batches -> Calls]

\* A chunk of a batch that was asked for.
IsChunk(task) ==
  /\ batch[task.batch].pc # "idle" /\ batch[task.batch].fields \in FieldLists
  /\ task.chunk \in 1 .. ChunkCount(batch[task.batch].count)
  /\ task.size = ChunkSizes(batch[task.batch].count)[task.chunk]

Same(a, b) == a.batch = b.batch /\ a.chunk = b.chunk

\* A chunk is in one place.
InOnePlace ==
  /\ \A i \in 1 .. Len(queue) : IsChunk(queue[i])
  /\ \A t \in Threads : \A a \in running[t] : IsChunk(a)
  /\ \A t \in Threads : \A a, b \in running[t] : a = b
  /\ \A i, j \in 1 .. Len(queue) : Same(queue[i], queue[j]) => i = j
  /\ \A i \in 1 .. Len(queue), t \in Threads : \A a \in running[t] : ~Same(a, queue[i])
  /\ \A t, u \in Threads : \A a \in running[t], b \in running[u] : Same(a, b) => t = u

\* The chunks of a batch that wait or run.
Open(b) ==
  {n \in 1 .. ChunkCount(batch[b].count) :
     \/ \E i \in 1 .. Len(queue) : queue[i].batch = b /\ queue[i].chunk = n
     \/ \E t \in Threads : \E a \in running[t] : a.batch = b /\ a.chunk = n}

\* While none has failed, the records of the other chunks are there.
RecordsOf(call, open) ==
  IF ChunkCount(call.count) \in open THEN BatchSize * ChunkCount(call.count) - BatchSize * call.left
  ELSE call.count - BatchSize * call.left

ChunksCounted(b) ==
  batch[b].pc # "idle" =>
    /\ batch[b].left = Cardinality(Open(b))
    /\ batch[b].pc # "failed" => batch[b].got = RecordsOf(batch[b], Open(b))
    /\ batch[b].pc = "resolved" => batch[b].left = 0

UsesItsModules(b) == \A use \in batch[b].used : batch[b].modules[use[1]] \in {use[2], NoItem}

WorkerInv ==
  WorkerTypes /\ InOnePlace /\ \A b \in Batches : ChunksCounted(b) /\ UsesItsModules(b)

LEMMA OpenFinite ==
  ASSUME NEW b \in Batches, WorkerTypes
  PROVE  IsFiniteSet(Open(b)) /\ Cardinality(Open(b)) \in Nat
<1>1. batch[b].count \in Nat
  BY DEF WorkerTypes, Calls
<1>2. ChunkCount(batch[b].count) \in Nat
  BY <1>1, ChunkCountIs
<1>3. IsFiniteSet(1 .. ChunkCount(batch[b].count))
  BY <1>2, FS_Interval
<1>4. Open(b) \subseteq 1 .. ChunkCount(batch[b].count)
  BY DEF Open
<1>5. IsFiniteSet(Open(b))
  BY <1>3, <1>4, FS_Subset
<1> QED
  BY <1>5, FS_CardinalityType

\* A batch that resolves has the records asked for.
LEMMA ResolvedHasAll ==
  ASSUME WorkerInv, NEW b \in Batches, batch[b].pc = "resolved"
  PROVE  batch[b].got = batch[b].count /\ batch[b].left = 0
<1>1. batch[b].left = 0 /\ batch[b].left = Cardinality(Open(b)) /\ batch[b].got = RecordsOf(batch[b], Open(b))
  BY DEF WorkerInv, ChunksCounted
<1>2. Open(b) = {}
  <2>1. IsFiniteSet(Open(b))
    BY OpenFinite DEF WorkerInv
  <2> QED
    BY <1>1, <2>1, FS_EmptySet
<1>3. batch[b].count \in Nat /\ BatchSize * 0 = 0
  BY WorkersAssumption DEF WorkerInv, WorkerTypes, Calls
<1> QED
  BY <1>1, <1>2, <1>3 DEF RecordsOf

LEMMA WorkersStart == WorkerInit => WorkerInv
<1> SUFFICES ASSUME WorkerInit PROVE WorkerInv
  OBVIOUS
<1>1. NoItems \in Items
  BY DEF NoItems, Items
<1>2. Unasked \in Calls /\ Unasked.pc = "idle" /\ Unasked.used = {}
  BY <1>1 DEF Unasked, Calls
<1>3. \A b \in Batches : batch[b] = Unasked
  BY DEF WorkerInit
<1>4. queue = <<>> /\ Len(queue) = 0 /\ \A t \in Threads : running[t] = {}
  BY DEF WorkerInit
<1>5. WorkerTypes
  BY <1>1, <1>2, <1>4 DEF WorkerInit, WorkerTypes
<1>6. InOnePlace
  BY <1>4 DEF InOnePlace
<1>7. \A b \in Batches : ChunksCounted(b) /\ UsesItsModules(b)
  BY <1>2, <1>3 DEF ChunksCounted, UsesItsModules
<1> QED
  BY <1>5, <1>6, <1>7 DEF WorkerInv

LEMMA TailOf ==
  ASSUME NEW S, NEW q \in Seq(S), q # <<>>
  PROVE  /\ Tail(q) \in Seq(S) /\ Len(q) \in Nat \ {0} /\ Len(Tail(q)) = Len(q) - 1
         /\ Head(q) \in S /\ Head(q) = q[1] /\ 1 \in 1 .. Len(q)
         /\ \A i \in 1 .. Len(Tail(q)) : i + 1 \in 1 .. Len(q) /\ i + 1 # 1 /\ Tail(q)[i] = q[i + 1]
         /\ \A i \in 1 .. Len(q) : i = 1 \/ (i - 1 \in 1 .. Len(Tail(q)) /\ Tail(q)[i - 1] = q[i])
         /\ \A i, j \in 1 .. Len(Tail(q)) : i + 1 = j + 1 => i = j
OBVIOUS

\* A thread takes the first chunk of the queue: it is in one place before and after.
LEMMA TaskStartsKeeps ==
  ASSUME WorkerInv, NEW t \in Threads, TaskStarts(t)
  PROVE  WorkerInv'
<1> DEFINE h == Head(queue)
           q == Tail(queue)
<1>1. /\ running[t] = {} /\ running' = [running EXCEPT ![t] = {h}]
      /\ queue # <<>> /\ queue' = q /\ known' = known /\ batch' = batch
  BY DEF TaskStarts
<1>2. WorkerTypes /\ InOnePlace /\ queue \in Seq(Tasks) /\ running \in [Threads -> SUBSET Tasks]
  BY DEF WorkerInv, WorkerTypes
<1>3. /\ q \in Seq(Tasks) /\ h \in Tasks /\ h = queue[1] /\ 1 \in 1 .. Len(queue)
      /\ \A i \in 1 .. Len(q) : i + 1 \in 1 .. Len(queue) /\ i + 1 # 1 /\ q[i] = queue[i + 1]
      /\ \A i \in 1 .. Len(queue) : i = 1 \/ (i - 1 \in 1 .. Len(q) /\ q[i - 1] = queue[i])
      /\ \A i, j \in 1 .. Len(q) : i + 1 = j + 1 => i = j
  BY <1>1, <1>2, TailOf
<1> HIDE DEF h, q
<1>4. \A u \in Threads : running'[u] = IF u = t THEN {h} ELSE running[u]
  BY <1>1, <1>2
<1>5. WorkerTypes'
  BY <1>1, <1>2, <1>3, <1>4 DEF WorkerTypes
<1>6. ASSUME NEW a, IsChunk(a) PROVE IsChunk(a)'
  BY <1>1, <1>6 DEF IsChunk
<1>7. InOnePlace'
  <2>1. ASSUME NEW i \in 1 .. Len(queue') PROVE IsChunk(queue[i])'
    <3>1. queue'[i] = queue[i + 1] /\ i + 1 \in 1 .. Len(queue)
      BY <1>1, <1>3
    <3>2. IsChunk(queue[i + 1])
      BY <1>2, <3>1 DEF InOnePlace
    <3> QED
      BY <1>1, <3>1, <3>2 DEF IsChunk
  <2>2. \A u \in Threads : \A a \in running'[u] : IsChunk(a)'
    BY <1>2, <1>3, <1>4, <1>6 DEF InOnePlace
  <2>3. \A i, j \in 1 .. Len(q) : Same(q[i], q[j]) => i = j
    BY <1>2, <1>3 DEF InOnePlace
  <2>4. ASSUME NEW i \in 1 .. Len(q), NEW u \in Threads, NEW a \in running'[u] PROVE ~Same(a, q[i])
    <3>1. CASE u = t
      <4>1. a = queue[1] /\ q[i] = queue[i + 1] /\ i + 1 # 1 /\ i + 1 \in 1 .. Len(queue) /\ 1 \in 1 .. Len(queue)
        BY <1>3, <1>4, <2>4, <3>1
      <4> QED
        BY <1>2, <4>1 DEF InOnePlace
    <3>2. CASE u # t
      <4>1. a \in running[u] /\ q[i] = queue[i + 1] /\ i + 1 \in 1 .. Len(queue)
        BY <1>3, <1>4, <2>4, <3>2
      <4> QED
        BY <1>2, <4>1 DEF InOnePlace
    <3> QED
      BY <3>1, <3>2
  <2>5. ASSUME NEW u \in Threads, NEW v \in Threads, NEW a \in running'[u], NEW b \in running'[v], Same(a, b)
        PROVE  u = v
    <3>0. Same(b, a)
      BY <2>5 DEF Same
    <3>1. CASE u = t /\ v = t
      BY <1>4, <3>1
    <3>2. CASE u = t /\ v # t
      <4>1. a = queue[1] /\ b \in running[v]
        BY <1>3, <1>4, <3>2
      <4> QED
        BY <1>2, <1>3, <3>0, <4>1 DEF InOnePlace
    <3>3. CASE u # t /\ v = t
      <4>1. b = queue[1] /\ a \in running[u]
        BY <1>3, <1>4, <3>3
      <4> QED
        BY <1>2, <1>3, <2>5, <4>1 DEF InOnePlace
    <3>4. CASE u # t /\ v # t
      <4>1. a \in running[u] /\ b \in running[v]
        BY <1>4, <3>4
      <4> QED
        BY <1>2, <2>5, <4>1 DEF InOnePlace
    <3> QED
      BY <3>1, <3>2, <3>3, <3>4
  <2>6. ASSUME NEW u \in Threads, NEW a \in running'[u], NEW b \in running'[u] PROVE a = b
    BY <1>2, <1>4 DEF InOnePlace
  <2> QED
    BY <1>1, <2>1, <2>2, <2>3, <2>4, <2>5, <2>6 DEF InOnePlace, Same
<1>8. ASSUME NEW b \in Batches PROVE Open(b)' = Open(b)
  <2>1. ASSUME NEW n
        PROVE  (\/ \E i \in 1 .. Len(queue') : queue'[i].batch = b /\ queue'[i].chunk = n
                \/ \E u \in Threads : \E a \in running'[u] : a.batch = b /\ a.chunk = n)
               <=> (\/ \E i \in 1 .. Len(queue) : queue[i].batch = b /\ queue[i].chunk = n
                    \/ \E u \in Threads : \E a \in running[u] : a.batch = b /\ a.chunk = n)
    <3>1. ASSUME NEW i \in 1 .. Len(queue), queue[i].batch = b, queue[i].chunk = n
          PROVE  \/ \E j \in 1 .. Len(queue') : queue'[j].batch = b /\ queue'[j].chunk = n
                 \/ \E u \in Threads : \E a \in running'[u] : a.batch = b /\ a.chunk = n
      <4>1. CASE i = 1
        <5>1. h \in running'[t] /\ h.batch = b /\ h.chunk = n
          BY <1>3, <1>4, <3>1, <4>1
        <5> QED
          BY <5>1
      <4>2. CASE i # 1
        <5>1. i - 1 \in 1 .. Len(q) /\ q[i - 1] = queue[i]
          BY <1>3, <4>2
        <5> QED
          BY <1>1, <3>1, <5>1
      <4> QED
        BY <4>1, <4>2
    <3>2. ASSUME NEW u \in Threads, NEW a \in running[u] PROVE a \in running'[u]
      BY <1>1, <1>4, <3>2
    <3>3. ASSUME NEW i \in 1 .. Len(queue'), queue'[i].batch = b, queue'[i].chunk = n
          PROVE  \E j \in 1 .. Len(queue) : queue[j].batch = b /\ queue[j].chunk = n
      BY <1>1, <1>3, <3>3
    <3>4. ASSUME NEW u \in Threads, NEW a \in running'[u], a.batch = b, a.chunk = n
          PROVE  \/ \E j \in 1 .. Len(queue) : queue[j].batch = b /\ queue[j].chunk = n
                 \/ a \in running[u]
      BY <1>3, <1>4, <3>4
    <3> QED
      BY <3>1, <3>2, <3>3, <3>4
  <2>2. Open(b)' = {n \in 1 .. ChunkCount(batch[b].count) :
          \/ \E i \in 1 .. Len(queue') : queue'[i].batch = b /\ queue'[i].chunk = n
          \/ \E u \in Threads : \E a \in running'[u] : a.batch = b /\ a.chunk = n}
    BY <1>1 DEF Open, ChunkCount
  <2> QED
    BY <2>1, <2>2 DEF Open
<1>9. \A b \in Batches : ChunksCounted(b)' /\ UsesItsModules(b)'
  BY <1>1, <1>8 DEF WorkerInv, ChunksCounted, UsesItsModules
<1> QED
  BY <1>5, <1>7, <1>9 DEF WorkerInv

LEMMA ThreadReplacedKeeps ==
  ASSUME WorkerInv, NEW t \in Threads, ThreadReplaced(t)
  PROVE  WorkerInv'
<1>1. /\ known' = [known EXCEPT ![t] = NoItems]
      /\ queue' = queue /\ running' = running /\ batch' = batch
  BY DEF ThreadReplaced
<1>2. NoItems \in Items
  BY DEF NoItems, Items
<1>3. WorkerTypes'
  BY <1>1, <1>2 DEF WorkerInv, WorkerTypes
<1>4. InOnePlace'
  BY <1>1 DEF WorkerInv, InOnePlace, IsChunk
<1>5. \A b \in Batches : Open(b)' = Open(b) /\ RecordsOf(batch[b], Open(b))' = RecordsOf(batch[b], Open(b))
  BY <1>1 DEF Open, ChunkCount, RecordsOf
<1>6. \A b \in Batches : ChunksCounted(b)' /\ UsesItsModules(b)'
  BY <1>1, <1>5 DEF WorkerInv, ChunksCounted, UsesItsModules
<1> QED
  BY <1>3, <1>4, <1>6 DEF WorkerInv

LEMMA WorkersSame == WorkerInv /\ UNCHANGED workerVars => WorkerInv'
<1> SUFFICES ASSUME WorkerInv, UNCHANGED workerVars PROVE WorkerInv'
  OBVIOUS
<1>1. known' = known /\ queue' = queue /\ running' = running /\ batch' = batch
  BY DEF workerVars
<1>2. WorkerTypes'
  BY <1>1 DEF WorkerInv, WorkerTypes
<1>3. InOnePlace'
  BY <1>1 DEF WorkerInv, InOnePlace, IsChunk
<1>4. \A b \in Batches : ChunksCounted(b)' /\ UsesItsModules(b)'
  <2>1. \A b \in Batches : Open(b)' = Open(b) /\ RecordsOf(batch[b], Open(b))' = RecordsOf(batch[b], Open(b))
    BY <1>1 DEF Open, ChunkCount, RecordsOf
  <2> QED
    BY <1>1, <2>1 DEF WorkerInv, ChunksCounted, UsesItsModules
<1> QED
  BY <1>2, <1>3, <1>4 DEF WorkerInv

\* What a chunk that ends leaves of its batch.
LEMMA EndedIs ==
  ASSUME NEW call \in Calls, NEW size \in Nat, NEW custom \in Items, NEW outcome \in Harmless(custom),
         call.pc # "idle", custom = Registered(custom, call.modules),
         \A use \in call.used : call.modules[use[1]] \in {use[2], NoItem}
  PROVE  LET next == Ended(call, size, outcome)
         IN  /\ next \in Calls /\ next.pc # "idle" /\ next.fields = call.fields /\ next.count = call.count
             /\ next.modules = call.modules /\ next.left = call.left - 1
             /\ next.pc # "failed" =>
                  /\ call.pc # "failed" /\ next.got = call.got + size
                  /\ next.pc = "resolved" => call.left = 1 \/ call.pc = "resolved"
             /\ \A use \in next.used : next.modules[use[1]] \in {use[2], NoItem}
<1> DEFINE next == Ended(call, size, outcome)
<1>1. outcome.ok \in BOOLEAN /\ outcome.used \subseteq InUse(custom)
  BY DEF Harmless
<1>2. /\ call.left \in Int /\ call.got \in Nat /\ call.got + size \in Nat /\ call.left - 1 \in Int
      /\ call.pc \in {"running", "resolved", "failed"}
      /\ call.used \in SUBSET (ItemIds \X (ItemVersions \cup {Original, NoItem}))
  BY DEF Calls
<1>3. ASSUME NEW use \in InUse(custom)
      PROVE  use \in ItemIds \X (ItemVersions \cup {Original, NoItem}) /\ call.modules[use[1]] \in {use[2], NoItem}
  <2>1. PICK m \in ItemIds : custom[m] # NoItem /\ use = <<m, custom[m]>>
    BY DEF InUse
  <2>2. custom[m] \in ItemVersions \cup {Original, NoItem}
    BY DEF Items
  <2>3. custom[m] = IF call.modules[m] # NoItem THEN call.modules[m] ELSE custom[m]
    BY DEF Registered
  <2> QED
    BY <2>1, <2>2, <2>3
<1>4. CASE ~outcome.ok
  <2>1. next = [call EXCEPT !.left = call.left - 1, !.pc = "failed"]
    BY <1>4 DEF Ended
  <2>2. next \in Calls
    BY <1>2, <2>1 DEF Calls
  <2>3. /\ next.fields = call.fields /\ next.count = call.count /\ next.modules = call.modules
        /\ next.left = call.left - 1 /\ next.pc = "failed" /\ next.used = call.used
    BY <2>1 DEF Calls
  <2> QED
    BY <2>2, <2>3
<1>5. CASE outcome.ok
  <2> DEFINE pc == IF call.left = 1 /\ call.pc = "running" THEN "resolved" ELSE call.pc
             used == call.used \cup outcome.used
  <2>1. next = [call EXCEPT !.left = call.left - 1, !.got = call.got + size, !.used = used, !.pc = pc]
    BY <1>5 DEF Ended
  <2>2. pc \in {"running", "resolved", "failed"} /\ (pc # "failed" => call.pc # "failed")
        /\ (pc = "resolved" => call.left = 1 \/ call.pc = "resolved")
    BY <1>2
  <2>3. used \in SUBSET (ItemIds \X (ItemVersions \cup {Original, NoItem}))
        /\ \A use \in used : call.modules[use[1]] \in {use[2], NoItem}
    BY <1>1, <1>2, <1>3
  <2> HIDE DEF pc, used
  <2>4. next \in Calls
    BY <1>2, <2>1, <2>2, <2>3 DEF Calls
  <2>5. /\ next.fields = call.fields /\ next.count = call.count /\ next.modules = call.modules
        /\ next.left = call.left - 1 /\ next.pc = pc /\ next.used = used /\ next.got = call.got + size
    BY <2>1 DEF Calls
  <2> QED
    BY <2>2, <2>3, <2>4, <2>5
<1> QED
  BY <1>1, <1>4, <1>5

LEMMA RegisteredTwice ==
  ASSUME NEW custom \in Items, NEW modules \in Items
  PROVE  /\ Registered(custom, modules) \in Items
         /\ Registered(Registered(custom, modules), modules) = Registered(custom, modules)
BY DEF Registered, Items

LEMMA TaskEndsKeeps ==
  ASSUME WorkerInv, NEW t \in Threads, TaskEnds(t)
  PROVE  WorkerInv'
<1>1. WorkerTypes /\ InOnePlace /\ \A b \in Batches : ChunksCounted(b) /\ UsesItsModules(b)
  BY DEF WorkerInv
<1>2. PICK task \in running[t] :
        /\ known' = [known EXCEPT ![t] = Registered(known[t], batch[task.batch].modules)]
        /\ \E outcome \in RecordOutcomes(Registered(known[t], batch[task.batch].modules))[batch[task.batch].fields] :
             batch' = [batch EXCEPT ![task.batch] = Ended(batch[task.batch], task.size, outcome)]
  BY DEF TaskEnds
<1> DEFINE b0 == task.batch
           call == batch[task.batch]
           custom == Registered(known[t], batch[task.batch].modules)
<1>3. running' = [running EXCEPT ![t] = {}] /\ queue' = queue
  BY DEF TaskEnds
<1>4. task \in Tasks /\ b0 \in Batches /\ task.chunk \in Nat /\ task.size \in Nat /\ call \in Calls
  BY <1>1 DEF WorkerTypes, Tasks
<1>5. IsChunk(task)
  BY <1>1 DEF InOnePlace
<1>6. call.modules \in Items /\ known[t] \in Items
  BY <1>1, <1>4 DEF WorkerTypes, Calls
<1>7. custom \in Items /\ custom = Registered(custom, call.modules)
  BY <1>6, RegisteredTwice
<1>8. PICK outcome \in RecordOutcomes(custom)[call.fields] : batch' = [batch EXCEPT ![b0] = Ended(call, task.size, outcome)]
  BY <1>2
<1>9. outcome \in Harmless(custom)
  <2>1. call.fields \in FieldLists
    BY <1>5 DEF IsChunk
  <2> HIDE DEF custom, call
  <2> QED
    BY <2>1, RecordsHarmless
<1> DEFINE next == Ended(call, task.size, outcome)
<1>10. /\ next \in Calls /\ next.pc # "idle" /\ next.fields = call.fields /\ next.count = call.count
       /\ next.modules = call.modules /\ next.left = call.left - 1
       /\ next.pc # "failed" =>
            /\ call.pc # "failed" /\ next.got = call.got + task.size
            /\ next.pc = "resolved" => call.left = 1 \/ call.pc = "resolved"
       /\ \A use \in next.used : next.modules[use[1]] \in {use[2], NoItem}
  <2>1. call.pc # "idle"
    BY <1>5 DEF IsChunk
  <2>2. \A use \in call.used : call.modules[use[1]] \in {use[2], NoItem}
    BY <1>1, <1>4 DEF UsesItsModules
  <2> HIDE DEF custom, call
  <2> QED
    BY <1>4, <1>7, <1>9, <2>1, <2>2, EndedIs
<1>11. \A b \in Batches : batch'[b] = IF b = b0 THEN next ELSE batch[b]
  BY <1>1, <1>4, <1>8 DEF WorkerTypes
<1> HIDE DEF next
<1>12. \A u \in Threads : running'[u] = IF u = t THEN {} ELSE running[u]
  BY <1>1, <1>3 DEF WorkerTypes
<1>13. WorkerTypes'
  <2>1. known' \in [Threads -> Items]
    BY <1>1, <1>2, <1>7 DEF WorkerTypes
  <2>2. batch' \in [Batches -> Calls]
    BY <1>1, <1>4, <1>8, <1>10 DEF WorkerTypes, next
  <2>3. running' \in [Threads -> SUBSET Tasks]
    BY <1>1, <1>3 DEF WorkerTypes
  <2> QED
    BY <1>1, <1>3, <2>1, <2>2, <2>3 DEF WorkerTypes
<1>14. ASSUME NEW a \in Tasks, IsChunk(a) PROVE IsChunk(a)'
  <2>1. a.batch \in Batches
    BY DEF Tasks
  <2>2. batch'[a.batch].count = batch[a.batch].count /\ batch'[a.batch].fields = batch[a.batch].fields
        /\ batch'[a.batch].pc # "idle"
    BY <1>10, <1>11, <1>14, <2>1 DEF IsChunk
  <2> QED
    BY <1>14, <2>2 DEF IsChunk, ChunkCount, ChunkSizes
<1>15. InOnePlace'
  <2>1. ASSUME NEW i \in 1 .. Len(queue') PROVE IsChunk(queue[i])'
    <3>1. queue'[i] = queue[i] /\ queue[i] \in Tasks /\ IsChunk(queue[i])
      BY <1>1, <1>3 DEF InOnePlace, WorkerTypes
    <3>2. batch'[queue[i].batch].count = batch[queue[i].batch].count
          /\ batch'[queue[i].batch].fields = batch[queue[i].batch].fields
          /\ batch'[queue[i].batch].pc # "idle"
      BY <1>10, <1>11, <3>1 DEF IsChunk, Tasks
    <3> QED
      BY <3>1, <3>2 DEF IsChunk, ChunkCount, ChunkSizes
  <2>2. ASSUME NEW u \in Threads, NEW a \in running'[u] PROVE IsChunk(a)'
    BY <1>1, <1>12, <1>14 DEF InOnePlace, WorkerTypes
  <2> QED
    BY <1>1, <1>3, <1>12, <2>1, <2>2 DEF InOnePlace, Same
<1>16. ASSUME NEW b \in Batches
       PROVE  Open(b)' = IF b = b0 THEN Open(b) \ {task.chunk} ELSE Open(b)
  <2> DEFINE InQueue(n) == \E i \in 1 .. Len(queue) : queue[i].batch = b /\ queue[i].chunk = n
             InThread(n) == \E u \in Threads : \E a \in running[u] : a.batch = b /\ a.chunk = n
             StillRuns(n) == \E u \in Threads : \E a \in running'[u] : a.batch = b /\ a.chunk = n
  <2>1. batch'[b].count = batch[b].count
    BY <1>10, <1>11
  <2>2. Open(b)' = {n \in 1 .. ChunkCount(batch[b].count) : InQueue(n) \/ StillRuns(n)}
    BY <1>3, <2>1 DEF Open, ChunkCount
  <2>3. Open(b) = {n \in 1 .. ChunkCount(batch[b].count) : InQueue(n) \/ InThread(n)}
    BY DEF Open
  <2>4. ASSUME NEW n, StillRuns(n) PROVE InThread(n)
    BY <1>12, <2>4
  <2>5. ASSUME NEW n, InThread(n), ~(b = b0 /\ n = task.chunk) PROVE StillRuns(n)
    <3>1. PICK u \in Threads : \E a \in running[u] : a.batch = b /\ a.chunk = n
      BY <2>5
    <3>2. u # t
      BY <1>1, <2>5, <3>1 DEF InOnePlace
    <3> QED
      BY <1>12, <3>1, <3>2
  <2>6. b = b0 => ~InQueue(task.chunk) /\ ~StillRuns(task.chunk)
    <3> SUFFICES ASSUME b = b0 PROVE ~InQueue(task.chunk) /\ ~StillRuns(task.chunk)
      OBVIOUS
    <3>1. ~InQueue(task.chunk)
      BY <1>1 DEF InOnePlace, Same
    <3>2. ~StillRuns(task.chunk)
      BY <1>1, <1>12 DEF InOnePlace, Same
    <3> QED
      BY <3>1, <3>2
  <2> HIDE DEF InQueue, InThread, StillRuns, b0
  <2> QED
    BY <2>2, <2>3, <2>4, <2>5, <2>6
<1>17. ChunksCounted(b0)'
  <2> DEFINE c == ChunkCount(call.count)
             n == task.chunk
  <2>1. /\ Open(b0)' = Open(b0) \ {n} /\ n \in Open(b0)
        /\ IsFiniteSet(Open(b0)) /\ Cardinality(Open(b0)) \in Nat
    <3>1. n \in Open(b0)
      BY <1>5 DEF Open, IsChunk
    <3> QED
      BY <1>1, <1>4, <1>16, <3>1, OpenFinite
  <2>2. Cardinality(Open(b0) \ {n}) = Cardinality(Open(b0)) - 1
    BY <2>1, FS_RemoveElement
  <2>3. call.left = Cardinality(Open(b0)) /\ (call.pc # "failed" => call.got = RecordsOf(call, Open(b0)))
        /\ (call.pc = "resolved" => call.left = 0)
    BY <1>1, <1>4, <1>5 DEF ChunksCounted, IsChunk
  <2>4. call.pc # "resolved"
    BY <2>1, <2>3, FS_EmptySet
  <2>5. batch'[b0] = next
    BY <1>4, <1>11
  <2>6. call.count \in Nat /\ call.got \in Nat
    BY <1>4 DEF Calls
  <2>7. /\ c \in Nat /\ BatchSize * c \in Nat /\ BatchSize \in Nat \ {0} /\ n \in 1 .. c
        /\ task.size = ChunkSizes(call.count)[n]
    BY <1>5, <2>6, ChunkCountIs DEF IsChunk
  <2>8. /\ task.size \in Nat /\ (n # c => task.size = BatchSize)
        /\ (n = c => task.size = call.count - (BatchSize * c - BatchSize))
    BY <2>6, <2>7, ChunkSizesAre
  <2>9. call.left \in Nat /\ BatchSize * (call.left - 1) = BatchSize * call.left - BatchSize
        /\ BatchSize * call.left \in Nat
    BY <2>1, <2>3, <2>7
  <2>10. call.pc # "failed" => call.got + task.size = RecordsOf(next, Open(b0) \ {n})
    <3> SUFFICES ASSUME call.pc # "failed" PROVE call.got + task.size = RecordsOf(next, Open(b0) \ {n})
      OBVIOUS
    <3>1. RecordsOf(call, Open(b0)) = IF c \in Open(b0) THEN BatchSize * c - BatchSize * call.left
                                      ELSE call.count - BatchSize * call.left
      BY DEF RecordsOf
    <3>2. RecordsOf(next, Open(b0) \ {n})
          = IF c \in Open(b0) \ {n} THEN BatchSize * c - (BatchSize * call.left - BatchSize)
            ELSE call.count - (BatchSize * call.left - BatchSize)
      BY <1>10, <2>9 DEF RecordsOf
    <3> HIDE DEF c, call, b0, n
    <3>3. CASE n = c
      BY <2>1, <2>3, <2>6, <2>7, <2>8, <2>9, <3>1, <3>2, <3>3
    <3>4. CASE n # c
      BY <2>1, <2>3, <2>6, <2>7, <2>8, <2>9, <3>1, <3>2, <3>4
    <3> QED
      BY <3>3, <3>4
  <2>11. batch'[b0].left = Cardinality(Open(b0)')
    BY <1>10, <2>1, <2>2, <2>3, <2>5
  <2>12. batch'[b0].pc # "failed" => batch'[b0].got = RecordsOf(batch'[b0], Open(b0)')
    BY <1>10, <2>1, <2>5, <2>10
  <2>13. batch'[b0].pc = "resolved" => batch'[b0].left = 0
    BY <1>10, <2>4, <2>5
  <2>14. ASSUME NEW b \in Batches,
                batch'[b].pc # "idle" =>
                  /\ batch'[b].left = Cardinality(Open(b)')
                  /\ batch'[b].pc # "failed" => batch'[b].got = RecordsOf(batch'[b], Open(b)')
                  /\ batch'[b].pc = "resolved" => batch'[b].left = 0
         PROVE  ChunksCounted(b)'
    BY <2>14 DEF ChunksCounted, RecordsOf, ChunkCount
  <2> HIDE DEF b0
  <2> QED
    BY <1>4, <2>11, <2>12, <2>13, <2>14
<1>18. ASSUME NEW b \in Batches, b # b0 PROVE ChunksCounted(b)' /\ UsesItsModules(b)'
  <2>1. batch'[b] = batch[b] /\ Open(b)' = Open(b) /\ ChunksCounted(b) /\ UsesItsModules(b)
    BY <1>1, <1>11, <1>16, <1>18
  <2>2. RecordsOf(batch[b], Open(b))' = RecordsOf(batch[b], Open(b))
    BY <2>1 DEF RecordsOf, ChunkCount
  <2> QED
    BY <2>1, <2>2 DEF ChunksCounted, UsesItsModules
<1>19. UsesItsModules(b0)'
  <2>1. ASSUME NEW b \in Batches, \A use \in batch'[b].used : batch'[b].modules[use[1]] \in {use[2], NoItem}
        PROVE  UsesItsModules(b)'
    BY <2>1 DEF UsesItsModules
  <2>2. batch'[b0] = next
    BY <1>4, <1>11
  <2> HIDE DEF b0
  <2> QED
    BY <1>4, <1>10, <2>1, <2>2
<1>20. \A b \in Batches : ChunksCounted(b)' /\ UsesItsModules(b)'
  BY <1>17, <1>18, <1>19
<1> QED
  BY <1>13, <1>15, <1>20 DEF WorkerInv

LEMMA GenerateBatchKeeps ==
  ASSUME WorkerInv, CustomTypeOK, NEW b0 \in Batches, GenerateBatch(b0)
  PROVE  WorkerInv'
<1>1. WorkerTypes /\ InOnePlace /\ \A b \in Batches : ChunksCounted(b) /\ UsesItsModules(b)
  BY DEF WorkerInv
<1>2. PICK fields \in RecordFields, count \in Counts :
        /\ batch' = [batch EXCEPT ![b0] =
                      [pc |-> IF count = 0 THEN "resolved" ELSE "running", fields |-> fields, count |-> count,
                       modules |-> merged["modules"], left |-> ChunkCount(count), got |-> 0, used |-> {}]]
        /\ queue' = queue \o [n \in 1 .. ChunkCount(count) |->
                                [batch |-> b0, chunk |-> n, size |-> ChunkSizes(count)[n]]]
  BY DEF GenerateBatch
<1> DEFINE c == ChunkCount(count)
           chunks == [n \in 1 .. c |-> [batch |-> b0, chunk |-> n, size |-> ChunkSizes(count)[n]]]
           call == [pc |-> IF count = 0 THEN "resolved" ELSE "running", fields |-> fields, count |-> count,
                    modules |-> merged["modules"], left |-> c, got |-> 0, used |-> {}]
           m == Len(queue)
<1>3. batch[b0].pc = "idle" /\ known' = known /\ running' = running
  BY DEF GenerateBatch
<1>4. count \in Nat /\ fields \in FieldLists /\ merged["modules"] \in Items
  BY WorkersAssumption DEF CustomTypeOK, FileKinds
<1>5. /\ c \in Nat /\ BatchSize * c \in Nat /\ BatchSize \in Nat \ {0}
      /\ BatchSize * c >= count /\ BatchSize * c < count + BatchSize
      /\ count = 0 => c = 0
      /\ count > 0 => c > 0
  BY <1>4, ChunkCountIs
<1>6. call \in Calls /\ call.pc \in {"running", "resolved"} /\ (call.pc = "resolved" => count = 0)
  BY <1>4, <1>5 DEF Calls
<1>7. \A n \in 1 .. c : /\ chunks[n].batch = b0 /\ chunks[n].chunk = n
                        /\ chunks[n].size = ChunkSizes(count)[n] /\ chunks[n] \in Tasks
  <2>1. ASSUME NEW n \in 1 .. c PROVE ChunkSizes(count)[n] \in Nat
    BY <1>4, ChunkSizesAre
  <2> QED
    BY <1>5, <2>1 DEF Tasks
<1>8. chunks \in Seq(Tasks) /\ Len(chunks) = c
  <2>1. chunks \in [1 .. c -> Tasks]
    BY <1>7
  <2> HIDE DEF chunks, c
  <2> QED
    BY <1>5, <2>1
<1>9. batch' = [batch EXCEPT ![b0] = call] /\ queue' = queue \o chunks
  BY <1>2
<1> HIDE DEF chunks
<1>10. \A b \in Batches : batch'[b] = IF b = b0 THEN call ELSE batch[b]
  BY <1>1, <1>9 DEF WorkerTypes
<1>11. queue \in Seq(Tasks) /\ m \in Nat
  BY <1>1 DEF WorkerTypes
<1>12. /\ queue' \in Seq(Tasks) /\ Len(queue') = m + c
       /\ \A i \in 1 .. m : queue'[i] = queue[i]
       /\ \A n \in 1 .. c : m + n \in 1 .. m + c /\ queue'[m + n] = chunks[n]
  <2> DEFINE q == queue \o chunks
  <2>1. q \in Seq(Tasks) /\ Len(q) = m + c
    BY <1>5, <1>8, <1>11
  <2>2. \A i \in 1 .. m : q[i] = queue[i]
    BY <1>5, <1>8, <1>11
  <2>3. ASSUME NEW n \in 1 .. c PROVE m + n \in 1 .. m + c /\ q[m + n] = chunks[n]
    <3>1. m + n \in 1 .. m + c /\ m + n > m /\ (m + n) - m = n
      BY <1>5, <1>11
    <3> QED
      BY <1>5, <1>8, <1>11, <3>1
  <2> HIDE DEF q
  <2>4. queue' = q
    BY <1>9 DEF q
  <2> QED
    BY <2>1, <2>2, <2>3, <2>4
<1>13. ASSUME NEW i \in 1 .. m + c
       PROVE  i \in 1 .. m \/ \E n \in 1 .. c : i = m + n
  <2>1. i \in 1 .. m \/ (i - m \in 1 .. c /\ i = m + (i - m))
    BY <1>5, <1>11
  <2> QED
    BY <2>1
<1> HIDE DEF call, m, c
<1>14. WorkerTypes'
  <2>1. batch' \in [Batches -> Calls]
    BY <1>1, <1>6, <1>9 DEF WorkerTypes
  <2> QED
    BY <1>1, <1>3, <1>12, <2>1 DEF WorkerTypes
<1>15. (\A i \in 1 .. m : queue[i].batch # b0) /\ \A t \in Threads : \A a \in running[t] : a.batch # b0
  BY <1>1, <1>3 DEF InOnePlace, IsChunk, m
<1>16. (\A i \in 1 .. m : queue[i] \in Tasks) /\ \A t \in Threads : \A a \in running[t] : a \in Tasks
  BY <1>1, <1>11 DEF WorkerTypes, m
<1>17. ASSUME NEW a \in Tasks, IsChunk(a), a.batch # b0
       PROVE  /\ batch'[a.batch].pc # "idle" /\ batch'[a.batch].fields \in FieldLists
              /\ a.chunk \in 1 .. ChunkCount(batch'[a.batch].count)
              /\ a.size = ChunkSizes(batch'[a.batch].count)[a.chunk]
  <2>1. batch'[a.batch] = batch[a.batch]
    BY <1>10, <1>17 DEF Tasks
  <2> QED
    BY <1>17, <2>1 DEF IsChunk
<1>18. ASSUME NEW n \in 1 .. c
       PROVE  /\ batch'[chunks[n].batch].pc # "idle" /\ batch'[chunks[n].batch].fields \in FieldLists
              /\ chunks[n].chunk \in 1 .. ChunkCount(batch'[chunks[n].batch].count)
              /\ chunks[n].size = ChunkSizes(batch'[chunks[n].batch].count)[chunks[n].chunk]
  <2>1. batch'[chunks[n].batch] = call /\ call.fields = fields /\ call.count = count /\ call.pc # "idle"
    BY <1>6, <1>7, <1>10 DEF call
  <2> QED
    BY <1>4, <1>7, <2>1 DEF c
<1>19. InOnePlace'
  <2>1. ASSUME NEW i \in 1 .. m + c
        PROVE  /\ batch'[queue'[i].batch].pc # "idle" /\ batch'[queue'[i].batch].fields \in FieldLists
               /\ queue'[i].chunk \in 1 .. ChunkCount(batch'[queue'[i].batch].count)
               /\ queue'[i].size = ChunkSizes(batch'[queue'[i].batch].count)[queue'[i].chunk]
    <3>1. CASE i \in 1 .. m
      <4>1. queue'[i] = queue[i] /\ queue[i] \in Tasks /\ IsChunk(queue[i]) /\ queue[i].batch # b0
        BY <1>1, <1>12, <1>15, <1>16, <3>1 DEF InOnePlace, m
      <4> QED
        BY <1>17, <4>1
    <3>2. CASE \E n \in 1 .. c : i = m + n
      <4>1. PICK n \in 1 .. c : queue'[i] = chunks[n]
        BY <1>12, <3>2
      <4> QED
        BY <1>18, <4>1
    <3> QED
      BY <1>13, <3>1, <3>2
  <2>2. ASSUME NEW i \in 1 .. Len(queue') PROVE IsChunk(queue[i])'
    <3>1. i \in 1 .. m + c
      BY <1>12
    <3> QED
      BY <2>1, <3>1 DEF IsChunk, ChunkCount, ChunkSizes
  <2>3. ASSUME NEW t \in Threads, NEW a \in running'[t] PROVE IsChunk(a)'
    <3>1. a \in Tasks /\ IsChunk(a) /\ a.batch # b0
      BY <1>1, <1>3, <1>15, <1>16 DEF InOnePlace
    <3> QED
      BY <1>17, <3>1 DEF IsChunk, ChunkCount, ChunkSizes
  <2>4. ASSUME NEW i \in 1 .. m + c, NEW j \in 1 .. m + c, Same(queue'[i], queue'[j]) PROVE i = j
    <3>1. CASE i \in 1 .. m /\ j \in 1 .. m
      BY <1>1, <1>12, <2>4, <3>1 DEF InOnePlace, m
    <3>2. CASE i \in 1 .. m /\ \E n \in 1 .. c : j = m + n
      <4>1. queue'[i].batch # b0
        BY <1>12, <1>15, <3>2
      <4>2. queue'[j].batch = b0
        BY <1>7, <1>12, <3>2
      <4> QED
        BY <2>4, <4>1, <4>2 DEF Same
    <3>3. CASE j \in 1 .. m /\ \E n \in 1 .. c : i = m + n
      <4>1. queue'[j].batch # b0
        BY <1>12, <1>15, <3>3
      <4>2. queue'[i].batch = b0
        BY <1>7, <1>12, <3>3
      <4> QED
        BY <2>4, <4>1, <4>2 DEF Same
    <3>4. CASE (\E n \in 1 .. c : i = m + n) /\ \E n \in 1 .. c : j = m + n
      <4>1. PICK n \in 1 .. c : i = m + n
        BY <3>4
      <4>2. PICK k \in 1 .. c : j = m + k
        BY <3>4
      <4>3. queue'[i].chunk = n /\ queue'[j].chunk = k
        BY <1>7, <1>12, <4>1, <4>2
      <4> QED
        BY <2>4, <4>1, <4>2, <4>3 DEF Same
    <3> QED
      BY <1>13, <3>1, <3>2, <3>3, <3>4
  <2>5. ASSUME NEW i \in 1 .. m + c, NEW t \in Threads, NEW a \in running[t] PROVE ~Same(a, queue'[i])
    <3>1. CASE i \in 1 .. m
      BY <1>1, <1>12, <3>1 DEF InOnePlace, m
    <3>2. CASE \E n \in 1 .. c : i = m + n
      <4>1. queue'[i].batch = b0 /\ a.batch # b0
        BY <1>7, <1>12, <1>15, <3>2
      <4> QED
        BY <4>1 DEF Same
    <3> QED
      BY <1>13, <3>1, <3>2
  <2> QED
    BY <1>1, <1>3, <1>12, <2>2, <2>3, <2>4, <2>5 DEF InOnePlace, Same
<1>20. Open(b0)' = 1 .. c
  <2>1. batch'[b0].count = count
    BY <1>10 DEF call
  <2>2. Open(b0)' = {n \in 1 .. c :
          \/ \E i \in 1 .. Len(queue') : queue'[i].batch = b0 /\ queue'[i].chunk = n
          \/ \E t \in Threads : \E a \in running'[t] : a.batch = b0 /\ a.chunk = n}
    BY <2>1 DEF Open, ChunkCount, c
  <2>3. ASSUME NEW n \in 1 .. c PROVE \E i \in 1 .. Len(queue') : queue'[i].batch = b0 /\ queue'[i].chunk = n
    <3>1. m + n \in 1 .. Len(queue') /\ queue'[m + n].batch = b0 /\ queue'[m + n].chunk = n
      BY <1>7, <1>12
    <3> QED
      BY <3>1
  <2> QED
    BY <2>2, <2>3
<1>21. ChunksCounted(b0)' /\ UsesItsModules(b0)'
  <2>1. batch'[b0] = call
    BY <1>10
  <2>2. call.left = c /\ call.got = 0 /\ call.count = count /\ call.used = {}
    BY DEF call
  <2>3. Cardinality(1 .. c) = c
    BY <1>5, FS_Interval
  <2>4. ASSUME NEW b \in Batches, batch'[b].left = Cardinality(Open(b)'),
               batch'[b].got = RecordsOf(batch'[b], Open(b)'), batch'[b].pc = "resolved" => batch'[b].left = 0
        PROVE  ChunksCounted(b)'
    BY <2>4 DEF ChunksCounted, RecordsOf, ChunkCount
  <2>5. RecordsOf(call, 1 .. c) = 0
    <3>1. RecordsOf(call, 1 .. c) = IF c \in 1 .. c THEN BatchSize * c - BatchSize * c ELSE count - BatchSize * c
      BY <2>2 DEF RecordsOf, c
    <3>2. CASE count > 0
      BY <1>5, <3>1, <3>2
    <3>3. CASE count = 0
      <4>1. c = 0 /\ BatchSize * c = 0
        BY <1>5, <3>3
      <4> QED
        BY <3>1, <3>3, <4>1
    <3> QED
      BY <1>4, <3>2, <3>3
  <2>6. call.pc = "resolved" => call.left = 0
    BY <1>5, <1>6, <2>2
  <2>7. ChunksCounted(b0)'
    BY <1>20, <2>1, <2>2, <2>3, <2>4, <2>5, <2>6
  <2>8. UsesItsModules(b0)'
    BY <2>1, <2>2 DEF UsesItsModules
  <2> QED
    BY <2>7, <2>8
<1>22. ASSUME NEW b \in Batches, b # b0 PROVE ChunksCounted(b)' /\ UsesItsModules(b)'
  <2>1. batch'[b] = batch[b] /\ ChunksCounted(b) /\ UsesItsModules(b)
    BY <1>1, <1>10, <1>22
  <2> DEFINE InThread(n) == \E t \in Threads : \E a \in running[t] : a.batch = b /\ a.chunk = n
  <2>2. Open(b)' = {n \in 1 .. ChunkCount(batch[b].count) :
          (\E i \in 1 .. Len(queue') : queue'[i].batch = b /\ queue'[i].chunk = n) \/ InThread(n)}
    BY <1>3, <2>1 DEF Open, ChunkCount
  <2>3. Open(b) = {n \in 1 .. ChunkCount(batch[b].count) :
          (\E i \in 1 .. Len(queue) : queue[i].batch = b /\ queue[i].chunk = n) \/ InThread(n)}
    BY DEF Open
  <2> HIDE DEF InThread
  <2>4. ASSUME NEW n, NEW i \in 1 .. Len(queue'), queue'[i].batch = b, queue'[i].chunk = n
        PROVE  \E j \in 1 .. Len(queue) : queue[j].batch = b /\ queue[j].chunk = n
    <3>1. i \in 1 .. m + c
      BY <1>12
    <3>2. CASE i \in 1 .. m
      BY <1>12, <2>4, <3>2 DEF m
    <3>3. CASE \E k \in 1 .. c : i = m + k
      BY <1>7, <1>12, <1>22, <2>4, <3>3
    <3> QED
      BY <1>13, <3>1, <3>2, <3>3
  <2>5. ASSUME NEW n, NEW i \in 1 .. Len(queue), queue[i].batch = b, queue[i].chunk = n
        PROVE  \E j \in 1 .. Len(queue') : queue'[j].batch = b /\ queue'[j].chunk = n
    <3>1. i \in 1 .. Len(queue') /\ queue'[i] = queue[i]
      BY <1>5, <1>11, <1>12 DEF m
    <3> QED
      BY <2>5, <3>1
  <2>6. Open(b)' = Open(b)
    BY <2>2, <2>3, <2>4, <2>5
  <2>7. RecordsOf(batch[b], Open(b))' = RecordsOf(batch[b], Open(b))
    BY <2>1, <2>6 DEF RecordsOf, ChunkCount
  <2> QED
    BY <2>1, <2>6, <2>7 DEF ChunksCounted, UsesItsModules
<1>23. \A b \in Batches : ChunksCounted(b)' /\ UsesItsModules(b)'
  BY <1>21, <1>22
<1> QED
  BY <1>14, <1>19, <1>23 DEF WorkerInv

\* A batch never uses another version of a module that existed when the batch was asked for
\* than the one of that time, whatever its threads were given before and saves have done
\* since, and a batch that resolves has exactly the records asked for (generateBatch,
\* registerCustomModules).
THEOREM BatchesAreAsAsked == WorkersSpec => []BatchAsAsked
<1>1. WorkerInv => BatchAsAsked
  BY ResolvedHasAll DEF BatchAsAsked, WorkerInv, UsesItsModules
<1>2. CustomInit /\ WorkerInit => CustomInv /\ WorkerInv
  BY CustomStarts, WorkersStart
<1>3. CustomInv /\ WorkerInv /\ [\/ WorkerNext /\ UNCHANGED customVars
                                 \/ CustomNext /\ UNCHANGED workerVars]_<<customVars, workerVars>>
        => CustomInv' /\ WorkerInv'
  <2> SUFFICES ASSUME CustomInv, WorkerInv,
                      \/ WorkerNext /\ UNCHANGED customVars
                      \/ CustomNext /\ UNCHANGED workerVars
                      \/ UNCHANGED <<customVars, workerVars>>
               PROVE  CustomInv' /\ WorkerInv'
    OBVIOUS
  <2>1. [CustomNext]_customVars
    OBVIOUS
  <2>2. CustomInv'
    BY <2>1, CustomStepKeeps
  <2>3. CASE WorkerNext
    <3>1. CustomTypeOK
      BY DEF CustomInv
    <3>2. CASE \E b \in Batches : GenerateBatch(b)
      BY <2>2, <3>1, <3>2, GenerateBatchKeeps
    <3>3. CASE \E t \in Threads : TaskStarts(t) \/ TaskEnds(t) \/ ThreadReplaced(t)
      BY <2>2, <3>3, TaskStartsKeeps, TaskEndsKeeps, ThreadReplacedKeeps
    <3> QED
      BY <2>3, <3>2, <3>3 DEF WorkerNext
  <2>4. CASE UNCHANGED workerVars
    BY <2>2, <2>4, WorkersSame
  <2> QED
    BY <2>3, <2>4
<1> QED
  BY <1>1, <1>2, <1>3, PTL DEF WorkersSpec
=============================================================================
