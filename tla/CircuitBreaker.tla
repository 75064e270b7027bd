---------------------------- MODULE CircuitBreaker ----------------------------
(***************************************************************************)
(* The three-state circuit breaker of src/delivery/circuit-breaker.ts:     *)
(* its state and the effect of the three calls a delivery worker makes on  *)
(* it, tryPass, onSuccess and onFailure.  The module has no next-state     *)
(* relation of its own: the workers of DeliveryAdapter call it.            *)
(*                                                                         *)
(* Two data abstractions.  The clock comparison nowMs - openedAtMs >=      *)
(* openMs is the flag cooled, cleared whenever openedAtMs is written and   *)
(* raised by the passage of time.  consecutiveFailures is only reset to    *)
(* zero or compared with the threshold, so it saturates at the threshold.  *)
(***************************************************************************)
EXTENDS Naturals

CONSTANTS
  FailureThreshold,   \* consecutive failures that open a closed breaker
  HalfOpenMaxProbes   \* sends admitted while half open

\* The constructor clamps both options to at least one.
ASSUME BreakerAssumption ==
  /\ FailureThreshold \in Nat \ {0}
  /\ HalfOpenMaxProbes \in Nat \ {0}

VARIABLES
  circuit,    \* state
  failures,   \* consecutiveFailures, saturating at FailureThreshold
  cooled,     \* while open: the cool-down has elapsed
  probes      \* halfOpenProbes

breakerVars == <<circuit, failures, cooled, probes>>

BreakerTypeOK ==
  /\ circuit \in {"closed", "open", "half_open"}
  /\ failures \in 0..FailureThreshold
  /\ cooled \in BOOLEAN
  /\ probes \in 0..HalfOpenMaxProbes

BreakerInit ==
  /\ circuit = "closed"
  /\ failures = 0
  /\ cooled = FALSE
  /\ probes = 0

-----------------------------------------------------------------------------
\* tryPass returning allowed; probe is the flag of the returned gate.
Admit(probe) ==
  \/ /\ circuit = "closed"
     /\ ~probe
     /\ UNCHANGED breakerVars
  \/ /\ circuit = "open" /\ cooled
     /\ probe
     /\ circuit' = "half_open"
     /\ cooled' = FALSE
     /\ probes' = 1
     /\ UNCHANGED failures
  \/ /\ circuit = "half_open" /\ probes < HalfOpenMaxProbes
     /\ probe
     /\ probes' = probes + 1
     /\ UNCHANGED <<circuit, failures, cooled>>

\* tryPass returning denied: it changes nothing.
Deny ==
  /\ \/ circuit = "open" /\ ~cooled
     \/ circuit = "half_open" /\ probes >= HalfOpenMaxProbes
  /\ UNCHANGED breakerVars

\* Mutant: a success closes the breaker but keeps its failure count.
OnSuccessKeepingCount ==
  /\ circuit' = "closed"
  /\ cooled' = FALSE
  /\ probes' = 0
  /\ UNCHANGED failures

OnSuccess ==
  /\ circuit' = "closed"
  /\ failures' = 0
  /\ cooled' = FALSE
  /\ probes' = 0

MoreFailures == IF failures < FailureThreshold THEN failures + 1 ELSE failures

OnFailure ==
  /\ failures' = MoreFailures
  /\ \/ /\ circuit = "half_open" \/ MoreFailures >= FailureThreshold
        /\ circuit' = "open"
        /\ cooled' = FALSE
        /\ probes' = 0
     \/ /\ circuit # "half_open" /\ MoreFailures < FailureThreshold
        /\ UNCHANGED <<circuit, cooled, probes>>

\* The clock passes openedAtMs + openMs.
CoolDown ==
  /\ circuit = "open" /\ ~cooled
  /\ cooled' = TRUE
  /\ UNCHANGED <<circuit, failures, probes>>

-----------------------------------------------------------------------------
\* The breaker is closed exactly while its run of failures is below the
\* threshold: a success of any send, also one admitted long before the
\* breaker opened, must clear both together (circuit-breaker.ts:84-88), and
\* no path may open it early or leave it closed past the threshold.
ClosedIffBelowThreshold ==
  circuit = "closed" <=> failures < FailureThreshold
=============================================================================
