----------------------------- MODULE CustomData -----------------------------
(***************************************************************************)
(* CustomDataService (apps/backend/src/core/custom-data.service.ts): the   *)
(* custom templates and modules, each kind in one file that every save and *)
(* every delete writes anew from the list in memory, and the gateway       *)
(* handlers that send both kinds to all clients afterwards.                *)
(*                                                                         *)
(* The next list is computed before the write and becomes the list in      *)
(* memory after it: handlers overlap in between, a write may fail, and the *)
(* process may crash over a half-written file.                             *)
(*                                                                         *)
(* Abstraction: an item is its id and a version; order is left out.        *)
(***************************************************************************)
EXTENDS Naturals

CONSTANTS
  Savers,         \* socket events being handled
  ItemIds,
  StaticItems,    \* ids of the templates and of the modules the code comes with
  ItemVersions,
  Original,       \* the version of a static item
  NoItem,
  Broken,         \* a file that JSON.parse refuses
  MaxSaves,       \* bound: events handled
  MaxSaveFaults   \* bound: failing writes and crashes

ASSUME CustomAssumption == MaxSaves \in Nat /\ MaxSaveFaults \in Nat

FileKinds == {"templates", "modules"}

VARIABLES
  file,       \* file[k]: the items in the file, or Broken
  dynamic,    \* dynamicTemplates and dynamicModules
  merged,     \* templates and modules
  shown,      \* the last custom_data_loaded the clients got
  saver,      \* saver[h]: the event handler h is at
  inStep,     \* the kinds whose last event was handled alone and succeeded
  saves, saveFaults

customVars == <<file, dynamic, merged, shown, saver, inStep, saves, saveFaults>>

Items == [ItemIds -> ItemVersions \cup {Original, NoItem}]
NoItems == [i \in ItemIds |-> NoItem]

Resting == [pc |-> "idle", kind |-> "templates", next |-> NoItems, mixed |-> FALSE, alone |-> TRUE]

CustomTypeOK ==
  /\ file \in [FileKinds -> Items \cup {Broken}]
  /\ dynamic \in [FileKinds -> Items] /\ merged \in [FileKinds -> Items] /\ shown \in [FileKinds -> Items]
  /\ saver \in [Savers -> [pc : {"idle", "saving", "tearing"}, kind : FileKinds, next : Items,
                           mixed : BOOLEAN, alone : BOOLEAN]]
  /\ inStep \subseteq FileKinds
  /\ saves \in 0 .. MaxSaves /\ saveFaults \in 0 .. MaxSaveFaults

\* mergeItems: a custom item takes the place of the static one with its id.
Overridden(items) ==
  [i \in ItemIds |-> IF items[i] # NoItem THEN items[i] ELSE IF i \in StaticItems THEN Original ELSE NoItem]

\* onModuleInit's refresh: templates first, and the first file that cannot be read ends it
\* with nothing merged.
Refreshed(files) ==
  LET read == [k \in FileKinds |->
        IF files["templates"] = Broken \/ files[k] = Broken THEN NoItems ELSE files[k]]
      failed == \E k \in FileKinds : files[k] = Broken
  IN /\ dynamic' = read
     /\ merged' = [k \in FileKinds |-> IF failed THEN NoItems ELSE Overridden(read[k])]
     /\ shown' = merged'

CustomInit ==
  /\ file = [k \in FileKinds |-> NoItems]   \* ensureFileExists
  /\ dynamic = file
  /\ merged = [k \in FileKinds |-> Overridden(NoItems)]
  /\ shown = merged
  /\ saver = [h \in Savers |-> Resting]
  /\ inStep = FileKinds /\ saves = 0 /\ saveFaults = 0

Saving(h) == saver[h].pc # "idle"
OnSameFile(g, h) == Saving(g) /\ saver[g].kind = saver[h].kind

\* upsertItem and removeItemById.
WithItem(items, i, v) == [items EXCEPT ![i] = v]

\* saveTemplate, saveModule, deleteTemplate and deleteModule up to the await of the write.
SaveItem(h) ==
  /\ ~Saving(h)
  /\ saves < MaxSaves /\ saves' = saves + 1
  /\ \E k \in FileKinds, i \in ItemIds, v \in ItemVersions \cup {NoItem} :
       LET others == {g \in Savers : Saving(g) /\ saver[g].kind = k}
       IN /\ saver' = [g \in Savers |->
               IF g = h THEN [Resting EXCEPT !.pc = "saving", !.kind = k, !.alone = others = {},
                                             !.next = WithItem(dynamic[k], i, v)]
               ELSE IF g \in others THEN [saver[g] EXCEPT !.alone = FALSE] ELSE saver[g]]
          /\ inStep' = inStep \ {k}
  /\ UNCHANGED <<file, dynamic, merged, shown, saveFaults>>

FileTruncated(h) ==
  /\ saver[h].pc = "saving"
  /\ file' = [file EXCEPT ![saver[h].kind] = Broken]
  /\ saver' = [saver EXCEPT ![h].pc = "tearing"]
  /\ UNCHANGED <<dynamic, merged, shown, inStep, saves, saveFaults>>

Kept_Mutant(h) == dynamic   \* the list in memory is not replaced

\* The list in memory after the write of handler h.
Kept(h) == [dynamic EXCEPT ![saver[h].kind] = saver[h].next]

\* The write is done: memory, the merged list and the clients follow.
FileWritten(h) ==
  LET k == saver[h].kind IN
  /\ saver[h].pc = "tearing"
  /\ \E content \in {saver[h].next} \cup (IF saver[h].mixed THEN {Broken} ELSE {}) :
       file' = [file EXCEPT ![k] = content]
  /\ dynamic' = Kept(h)
  /\ merged' = [merged EXCEPT ![k] = Overridden(dynamic'[k])]
  /\ shown' = merged'
  /\ inStep' = IF saver[h].alone THEN inStep \cup {k} ELSE inStep
  /\ saver' = [g \in Savers |-> IF g = h THEN Resting
                                ELSE IF saver[g].pc = "tearing" /\ OnSameFile(g, h)
                                THEN [saver[g] EXCEPT !.mixed = TRUE] ELSE saver[g]]
  /\ UNCHANGED <<saves, saveFaults>>

\* The write fails: the error reaches the gateway, which sends nothing.
FileWriteFails(h) ==
  /\ Saving(h)
  /\ saveFaults < MaxSaveFaults /\ saveFaults' = saveFaults + 1
  /\ saver' = [saver EXCEPT ![h] = Resting]
  /\ UNCHANGED <<file, dynamic, merged, shown, inStep, saves>>

\* The process ends and starts again.
Restart ==
  /\ saveFaults < MaxSaveFaults /\ saveFaults' = saveFaults + 1
  /\ Refreshed(file)
  /\ saver' = [h \in Savers |-> Resting]
  /\ inStep' = {}
  /\ UNCHANGED <<file, saves>>

CustomNext ==
  \/ \E h \in Savers : SaveItem(h) \/ FileTruncated(h) \/ FileWritten(h) \/ FileWriteFails(h)
  \/ Restart

CustomSpec == CustomInit /\ [][CustomNext]_customVars

-----------------------------------------------------------------------------
(* Properties.                                                             *)

\* After a save or a delete that no other of its kind overlapped, file, memory and clients
\* agree again, whatever was lost by overlapping saves, failing writes or a crash before.
InStepAgrees ==
  \A k \in inStep : file[k] = dynamic[k] /\ merged[k] = Overridden(dynamic[k]) /\ shown[k] = merged[k]
=============================================================================
