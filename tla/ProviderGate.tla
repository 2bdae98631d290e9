---------------------------- MODULE ProviderGate ----------------------------
(***************************************************************************)
(* What the circuit breaker promises its callers, with no failure counter, *)
(* lock, clock or probe flag in sight: while a provider is up everybody is *)
(* admitted; while it is down nobody is; and each period of probation      *)
(* begins with the admission of one single call and admits no other until  *)
(* it ends.  Connectors.tla is shown to implement this module.             *)
(***************************************************************************)
CONSTANT Calls          \* the callers that may ask for admission

VARIABLES
  mode,                 \* "up", "down" or "probation"
  admitted              \* the calls now allowed to talk to the provider

gate_vars == <<mode, admitted>>

Modes == {"up", "down", "probation"}

GateInit ==
  /\ mode = "up"
  /\ admitted = {}

\* The provider is up: anybody goes through.
AdmitFreely(c) ==
  /\ mode = "up"
  /\ admitted' = admitted \cup {c}
  /\ UNCHANGED mode

\* The one admission that turns "down" into "probation".
AdmitTrial(c) ==
  /\ mode = "down"
  /\ mode' = "probation"
  /\ admitted' = admitted \cup {c}

\* An admitted call ends.  Its outcome may take the provider up or down, but
\* never starts a probation: only AdmitTrial does.
End(c) ==
  /\ c \in admitted
  /\ admitted' = admitted \ {c}
  /\ mode' \in {mode, "up", "down"}

GateNext == \E c \in Calls : AdmitFreely(c) \/ AdmitTrial(c) \/ End(c)

GateSpec == GateInit /\ [][GateNext]_gate_vars
=============================================================================
