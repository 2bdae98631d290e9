--------------------------- MODULE CircuitBreaker ---------------------------
(***************************************************************************)
(* The state and the critical sections of src/circuit_breaker.rs for one   *)
(* provider.  The code keeps one ProviderState per provider in a map under *)
(* one RwLock; no operation touches two providers, and an absent entry     *)
(* behaves as the default one, so one provider is the general case.        *)
(*                                                                         *)
(* is_open takes the lock TWICE (read, then write) and is therefore two    *)
(* steps here, ReadVerdict and ClaimTrial / ClaimLate; record_success and  *)
(* record_failure are one critical section each.                           *)
(***************************************************************************)
EXTENDS Integers

CONSTANTS
  FAILURE_THRESHOLD,    \* failures that trip the breaker (3)
  RESET_TIMEOUT         \* ticks an open breaker waits for its trial (60 s)

ASSUME ThresholdAssumption == FAILURE_THRESHOLD \in Nat \ {0}
ASSUME ResetAssumption == RESET_TIMEOUT \in Nat

VARIABLES
  circuit,              \* ProviderState.state
  failures,             \* ProviderState.failures
  since_opened,         \* ticks since ProviderState.opened_at
  probe_in_flight       \* ProviderState.probe_in_flight

breaker_vars == <<circuit, failures, since_opened, probe_in_flight>>

CircuitState == {"Closed", "Open", "HalfOpen"}

NotOpened == -1         \* opened_at = None

BreakerTypeOK ==
  /\ circuit \in CircuitState
  /\ failures \in 0 .. FAILURE_THRESHOLD
  /\ since_opened \in NotOpened .. RESET_TIMEOUT + 1
  /\ probe_in_flight \in BOOLEAN

BreakerInit ==
  /\ circuit = "Closed"
  /\ failures = 0
  /\ since_opened = NotOpened
  /\ probe_in_flight = FALSE

-----------------------------------------------------------------------------
\* failures is only ever compared with the threshold, so counting further
\* than the threshold tells nothing apart: the model stops there.
OneMoreFailure ==
  IF failures < FAILURE_THRESHOLD THEN failures + 1 ELSE failures

\* opened_at.map(|t| t.elapsed() > RESET_TIMEOUT).unwrap_or(false)
Expired == since_opened > RESET_TIMEOUT

-----------------------------------------------------------------------------
\* is_open, first critical section (read lock): let through, turn away, or go
\* on to the write lock to claim the trial.
ReadVerdict ==
  CASE circuit = "Closed"   -> "allow"
    [] circuit = "HalfOpen" -> IF probe_in_flight THEN "block" ELSE "allow"
    [] circuit = "Open"     -> IF Expired THEN "claim" ELSE "block"

\* is_open, second critical section (write lock).  The code re-reads the state
\* here but not the timeout: any Open circuit is claimed.
ClaimTrial ==
  /\ circuit = "Open"
  /\ circuit' = "HalfOpen"
  /\ probe_in_flight' = TRUE
  /\ UNCHANGED <<failures, since_opened>>

\* MUTANT of LateVerdict: a late arrival is let through without looking at
\* the probe flag, as the code did before its FIX comment.
LateVerdict_NoProbeFlag == "allow"

\* ... and what a caller is told that found the circuit no longer Open.
LateVerdict ==
  IF circuit = "HalfOpen" /\ probe_in_flight THEN "block" ELSE "allow"

ClaimLate ==
  /\ circuit # "Open"
  /\ UNCHANGED breaker_vars

-----------------------------------------------------------------------------
\* MUTANT of RecordSuccess: the probe slot is not given back.
RecordSuccess_KeepsProbe ==
  /\ failures' = 0
  /\ circuit' = "Closed"
  /\ since_opened' = NotOpened
  /\ UNCHANGED probe_in_flight

\* record_success; last_failure_time is written here and in record_failure
\* and read nowhere, so it is left out.
RecordSuccess ==
  /\ failures' = 0
  /\ circuit' = "Closed"
  /\ IF circuit # "Closed"
       THEN /\ since_opened' = NotOpened
            /\ probe_in_flight' = FALSE
       ELSE UNCHANGED <<since_opened, probe_in_flight>>

\* MUTANT of RecordFailure: tripping the circuit forgets to stamp opened_at.
RecordFailure_NoStamp ==
  /\ failures' = OneMoreFailure
  /\ circuit' = IF OneMoreFailure >= FAILURE_THRESHOLD THEN "Open" ELSE circuit
  /\ since_opened' = IF circuit = "HalfOpen" THEN 0 ELSE since_opened
  /\ probe_in_flight' = FALSE

\* MUTANT of RecordFailure: without the HalfOpen branch a failed trial only
\* counts, and the probe slot is never given back.
RecordFailure_IgnoresTrial ==
  /\ failures' = OneMoreFailure
  /\ IF circuit = "Closed" /\ OneMoreFailure >= FAILURE_THRESHOLD
       THEN circuit' = "Open" /\ since_opened' = 0
       ELSE UNCHANGED <<circuit, since_opened>>
  /\ UNCHANGED probe_in_flight

\* record_failure
RecordFailure ==
  /\ failures' = OneMoreFailure
  /\ \/ /\ circuit = "HalfOpen"
        /\ circuit' = "Open"
        /\ since_opened' = 0
        /\ probe_in_flight' = FALSE
     \/ /\ circuit = "Closed"
        /\ OneMoreFailure >= FAILURE_THRESHOLD
        /\ circuit' = "Open"
        /\ since_opened' = 0
        /\ UNCHANGED probe_in_flight
     \/ /\ circuit = "Closed" => OneMoreFailure < FAILURE_THRESHOLD
        /\ circuit # "HalfOpen"
        /\ UNCHANGED <<circuit, since_opened, probe_in_flight>>

\* Time passes.  Past RESET_TIMEOUT + 1 every instant is alike, so the age
\* saturates there.
BreakerTick ==
  /\ since_opened \in 0 .. RESET_TIMEOUT
  /\ since_opened' = since_opened + 1
  /\ UNCHANGED <<circuit, failures, probe_in_flight>>
=============================================================================
