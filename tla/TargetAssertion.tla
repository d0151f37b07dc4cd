--------------------------- MODULE TargetAssertion ---------------------------
(***************************************************************************)
(* What prepareDestination promises of a target that is to be asserted     *)
(* before it is used: callers that ask while one attempt is under way      *)
(* share it, a caller is let through only to a target that an attempt      *)
(* found or made, and an attempt that failed refuses its callers and       *)
(* leaves nothing behind, so that the next caller tries again.             *)
(***************************************************************************)
CONSTANTS Targets, Callers, NoTarget

VARIABLES
  target,   \* target[t]: "unknown", "pending" or "ready"
  caller    \* caller[c]: [state, asked]

vars == <<target, caller>>

Init ==
  /\ target = [t \in Targets |-> "unknown"]
  /\ caller = [c \in Callers |-> [state |-> "idle", asked |-> NoTarget]]

Ask(c, t) ==
  /\ caller[c].state = "idle"
  /\ caller' = [caller EXCEPT ![c] = [state |-> "waiting", asked |-> t]]
  /\ target' = [target EXCEPT ![t] = IF @ = "unknown" THEN "pending" ELSE @]

Succeed(t) ==
  /\ target[t] = "pending"
  /\ target' = [target EXCEPT ![t] = "ready"]
  /\ UNCHANGED caller

Fail(t) ==
  /\ target[t] = "pending"
  /\ target' = [target EXCEPT ![t] = "unknown"]
  /\ caller' = [c \in Callers |-> IF caller[c] = [state |-> "waiting", asked |-> t]
                                  THEN [caller[c] EXCEPT !.state = "refused"] ELSE caller[c]]

Admit(c) ==
  /\ caller[c].state = "waiting" /\ target[caller[c].asked] = "ready"
  /\ caller' = [caller EXCEPT ![c].state = "admitted"]
  /\ UNCHANGED target

Next ==
  \/ \E c \in Callers : Admit(c) \/ \E t \in Targets : Ask(c, t)
  \/ \E t \in Targets : Succeed(t) \/ Fail(t)

Spec == Init /\ [][Next]_vars
=============================================================================
