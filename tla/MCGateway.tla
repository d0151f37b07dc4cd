------------------------------ MODULE MCGateway ------------------------------
(***************************************************************************)
(* Browsers, schemas and flows for model-checking StatusGateway,           *)
(* LiveUpdates and NodeDisplay.  They share no state, and neither do the   *)
(* load tests, the flows and the bursts of StatusGateway: a behaviour is   *)
(* about one of them.                                                      *)
(***************************************************************************)
EXTENDS StatusGateway, LiveUpdates, NodeDisplay

CONSTANTS c1, c2, s1, s2, f1, n1, n2

VARIABLE part

MCInit ==
  /\ GatewayInit /\ LiveInit /\ DisplayInit
  /\ part \in {"tests", "flows and bursts", "updates", "nodes"}

OfTests == Starts \cup {"stop_test"}
OnlyTests == \A c \in Clients : \A i \in DOMAIN outbox'[c] : outbox'[c][i].type \in OfTests
NoTests ==
  \A c \in Clients : \A i \in DOMAIN outbox'[c] : outbox'[c][i].type \notin OfTests /\ outbox'[c][i].id # s2

MCNext ==
  /\ UNCHANGED part
  /\ \/ part = "tests" /\ GatewayNext /\ OnlyTests /\ UNCHANGED <<liveVars, displayVars>>
     \/ part = "flows and bursts" /\ GatewayNext /\ NoTests /\ UNCHANGED <<liveVars, displayVars>>
     \/ part = "updates" /\ LiveNext /\ UNCHANGED <<gatewayVars, displayVars>>
     \/ part = "nodes" /\ DisplayNext /\ UNCHANGED <<gatewayVars, liveVars>>

mcVars == <<gatewayVars, liveVars, displayVars, part>>

MCSpec == MCInit /\ [][MCNext]_mcVars
MCFairSpec == MCSpec /\ GatewayFairness
=============================================================================
