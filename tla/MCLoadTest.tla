----------------------------- MODULE MCLoadTest -----------------------------
(***************************************************************************)
(* Schemas and frequencies for model-checking LoadTest.  A behaviour is    *)
(* about the budget of two schemas, whose loops need not tick, or about    *)
(* the loop of one schema that is started twice.                           *)
(***************************************************************************)
EXTENDS LoadTest

CONSTANTS p, q

VARIABLE part

TwoSchemas == {p, q}

\* With a limit of 70: two fit, the second is clamped, or nothing is left for it; or a test
\* takes none of it.
Budgeted == {0, 30, 70}

\* The loop's rhythm is 50 ms; a timer may be late.
OnTimeOrLate == {50, 150}

NoTicks == \A i \in Tests : test'[i] # None => test'[i].time = 0
OneSchema ==
  /\ \A r \in Requests : request'[r] # None => r = 1 /\ request'[r] = [schema |-> p, frequency |-> 70]
  /\ test'[3] = None

MCInit == Init /\ part \in {"budget", "loop"}
MCNext == Next /\ UNCHANGED part /\ (part = "budget" => NoTicks) /\ (part = "loop" => OneSchema)

mcVars == <<vars, part>>

MCSpec == MCInit /\ [][MCNext]_mcVars /\ Fairness
=============================================================================
