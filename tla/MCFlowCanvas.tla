----------------------------- MODULE MCFlowCanvas -----------------------------
(* Flows for model-checking FlowCanvas: the code comes with one flow of two  *)
(* joined nodes, and the user may create another.                            *)
EXTENDS FlowCanvas

CONSTANTS f, g, s

TwoFlows == <<f, g>>
TwoNodes == {<<s, 1>>, <<s, 2>>}
Plain == [settings |-> 0, binding |-> None]

Joined == [id |-> f, source |-> "static",
           nodes |-> [n \in TwoNodes |-> Plain],
           edges |-> <<[source |-> <<s, 1>>, target |-> <<s, 2>>, settings |-> 0]>>]
JoinedOriginal == [h \in {f} |-> Joined]
=============================================================================
