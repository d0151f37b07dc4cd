------------------------------ MODULE MCStores ------------------------------
(***************************************************************************)
(* Documents, items and batches for model-checking SchemaStore, CustomData *)
(* and GeneratorWorkers.  The schemas share no state with the others: a    *)
(* behaviour is about them, about the custom data, or about the workers    *)
(* while the modules change.                                               *)
(***************************************************************************)
EXTENDS SchemaStore, GeneratorWorkers

CONSTANTS x, y

VARIABLE part

OneBuiltIn == [d \in Dirs |-> {x}]

Field(type, module) == [type |-> type, module |-> module, min |-> NoItem, max |-> NoItem,
                        mode |-> "fixed", fields |-> NoFields]

\* A number whose minimum is above the default maximum, in an array; a module in an object.
NestedLists ==
  {<<Field("module", y)>>, <<Field("module", x)>>, <<[Field("number", x) EXCEPT !.min = 2000]>>}
TwoSchemas ==
  {<<Field("module", x), [Field("object", x) EXCEPT !.fields = <<Field("module", y)>>]>>,
   <<Field("template", y), [Field("array", x) EXCEPT !.mode = "range", !.fields = <<Field("module", x)>>],
     [Field("array", x) EXCEPT !.mode = "random", !.max = 1, !.fields = <<[Field("number", x) EXCEPT !.min = 2000]>>]>>}
AllLists == TwoSchemas \cup NestedLists
Depths == [fields \in AllLists |-> IF fields \in TwoSchemas THEN 1 ELSE 0]

\* While batches run, one module is saved or deleted, and nothing fails.
OneModuleSaved ==
  /\ saves' <= 1 /\ saveFaults' = 0
  /\ \A h \in Savers : saver'[h] # Resting => h = (CHOOSE g \in Savers : TRUE) /\ saver'[h].kind = "modules"

StoresInit == Init /\ CustomInit /\ WorkerInit /\ part \in {"schemas", "custom data", "workers"}

StoresNext ==
  /\ UNCHANGED part
  /\ \/ part = "schemas" /\ Next /\ UNCHANGED <<customVars, workerVars>>
     \/ part = "custom data" /\ CustomNext /\ UNCHANGED <<vars, workerVars>>
     \/ part = "workers" /\ UNCHANGED <<vars, customVars>> /\ WorkerNext
     \/ part = "workers" /\ UNCHANGED <<vars, workerVars>> /\ CustomNext /\ OneModuleSaved

StoresSpec == StoresInit /\ [][StoresNext]_<<vars, customVars, workerVars, part>>
=============================================================================
