---------------------------- MODULE MCFlowEngine ----------------------------
(* Flows and limits for model-checking FlowEngine.                         *)
EXTENDS FlowEngine

CONSTANTS a, b, c, d, None

Edge(s, t, fires, delays) == [source |-> s, target |-> t, fires |-> fires, delays |-> delays]

Always == {TRUE}
Never == {FALSE}
Perhaps == BOOLEAN

TwoNodes == {a, b}
FourNodes == {a, b, c, d}

\* Two entry nodes that meet in c, and d behind it: one edge immediate, one delayed by
\* an expression, one conditional.
JoinEdges == << Edge(a, c, Always, Never), Edge(b, c, Always, Perhaps), Edge(c, d, Perhaps, Never) >>
JoinCount == [n \in FourNodes |-> IF n = a THEN 2 ELSE IF n = d THEN None ELSE 1]
JoinDuration == [n \in FourNodes |-> IF n = d THEN 1 ELSE None]

\* One edge, immediate or delayed.
PairEdges == << Edge(a, b, Perhaps, Perhaps) >>
PairCount == [n \in TwoNodes |-> IF n = a THEN 2 ELSE None]

NoLimit == [n \in Nodes |-> None]
AllPass == [n \in Nodes |-> Always]
SomeFilter == [n \in Nodes |-> IF n \in EntryNodes THEN Always ELSE Perhaps]
=============================================================================
