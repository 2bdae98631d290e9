----------------------------- MODULE Connectors -----------------------------
(***************************************************************************)
(* The provider connectors as users of the circuit breaker: concurrent     *)
(* calls to one provider through src/connectors.rs, src/vertex.rs or       *)
(* src/bedrock.rs.  A call asks is_open, goes out if it is let through,    *)
(* and ends by recording a success, a failure, or nothing at all: that     *)
(* depends on the outcome and on which connector the provider uses.        *)
(* A call may also be dropped in flight: axum drops the handler's future   *)
(* when TimeoutLayer fires or when the client goes away.                   *)
(***************************************************************************)
EXTENDS CircuitBreaker

CONSTANTS
  Calls,                \* concurrent calls; a slot is reused when a call ends
  NoCall,               \* not a call
  Connector             \* which implementation serves this provider

ConnectorKind == {"openai_compatible", "anthropic", "gemini", "vertex", "bedrock"}

ASSUME ConnectorAssumption == Connector \in ConnectorKind
ASSUME NoCallAssumption == NoCall \notin Calls

VARIABLES
  phase,                \* where each call stands
  trial_holder          \* history: the call whose claim began this half-open
                        \* period, while that call is still in flight

vars == <<breaker_vars, phase, trial_holder>>

Phases == {"idle", "claiming", "admitted"}

TypeOK ==
  /\ BreakerTypeOK
  /\ phase \in [Calls -> Phases]
  /\ trial_holder \in Calls \cup {NoCall}

Init ==
  /\ BreakerInit
  /\ phase = [c \in Calls |-> "idle"]
  /\ trial_holder = NoCall

-----------------------------------------------------------------------------
(***************************************************************************)
(* How a call can end once is_open let it through.                         *)
(***************************************************************************)
Outcome ==
  { "ok",               \* 2xx, body understood
    "unparsable",       \* 2xx, body not understood
    "unauthorized",     \* 401 / 403
    "rate_limited",     \* 429
    "bad_status",       \* any other status below 500
    "server_error",     \* 5xx
    "timeout",          \* reqwest gave up after 30 s
    "transport_error",  \* connection refused, reset, DNS ...
    "unbuildable" }     \* an error after is_open and before anything was sent

\* Every connector but the OpenAI-compatible one does fallible work between
\* is_open and send: tool mapping, connection parsing, signing, OAuth.
Outcomes(k) ==
  IF k = "openai_compatible" THEN Outcome \ {"unbuildable"} ELSE Outcome

\* vertex.rs and bedrock.rs propagate a send timeout with `?`.
TimeoutsCount(k) == k \in {"openai_compatible", "anthropic", "gemini"}

\* What the connector tells the breaker about an outcome.
Recorded(k, o) ==
  CASE o = "ok"                             -> "success"
    [] o = "server_error"                   -> "failure"
    [] o = "timeout" /\ TimeoutsCount(k)    -> "failure"
    [] OTHER                                -> "nothing"

OutcomesRecordedAs(r) == {o \in Outcomes(Connector) : Recorded(Connector, o) = r}

-----------------------------------------------------------------------------
\* is_open under the read lock.  "block" is Err(CircuitOpen): nothing changes.
AskBreaker(c) ==
  /\ phase[c] = "idle"
  /\ phase' = [phase EXCEPT ![c] = CASE ReadVerdict = "allow" -> "admitted"
                                     [] ReadVerdict = "claim" -> "claiming"
                                     [] ReadVerdict = "block" -> "idle"]
  /\ UNCHANGED <<breaker_vars, trial_holder>>

\* is_open under the write lock, circuit still Open: this call is the trial.
WinTrial(c) ==
  /\ phase[c] = "claiming"
  /\ ClaimTrial
  /\ phase' = [phase EXCEPT ![c] = "admitted"]
  /\ trial_holder' = c

\* is_open under the write lock, somebody else was faster.
ArriveLate(c) ==
  /\ phase[c] = "claiming"
  /\ ClaimLate
  /\ phase' = [phase EXCEPT ![c] = IF LateVerdict = "allow" THEN "admitted" ELSE "idle"]
  /\ UNCHANGED trial_holder

\* A call that reports to the breaker.  Whoever reports resolves the half-open
\* period that is on: record_success and record_failure do not ask who calls.
Report(c) ==
  /\ phase[c] = "admitted"
  /\ phase' = [phase EXCEPT ![c] = "idle"]
  /\ trial_holder' = IF circuit' = "HalfOpen" THEN trial_holder ELSE NoCall

Succeed(c) ==
  /\ OutcomesRecordedAs("success") # {}
  /\ RecordSuccess
  /\ Report(c)

Fail(c) ==
  /\ OutcomesRecordedAs("failure") # {}
  /\ RecordFailure
  /\ Report(c)

\* A call that ends without a word to the breaker.  If it was the trial, the
\* trial is no longer in flight and nobody knows.
LeaveSilently(c) ==
  /\ phase[c] = "admitted"
  /\ phase' = [phase EXCEPT ![c] = "idle"]
  /\ trial_holder' = IF trial_holder = c THEN NoCall ELSE trial_holder
  /\ UNCHANGED breaker_vars

\* The outcomes on which the connector returns early.
EndUnrecorded(c) ==
  /\ OutcomesRecordedAs("nothing") # {}
  /\ LeaveSilently(c)

\* The handler's future, and the connector call in it, is dropped at an await.
Drop(c) == LeaveSilently(c)

Tick ==
  /\ BreakerTick
  /\ UNCHANGED <<phase, trial_holder>>

End(c) == Succeed(c) \/ Fail(c) \/ EndUnrecorded(c) \/ Drop(c)

Next ==
  \/ \E c \in Calls : AskBreaker(c) \/ WinTrial(c) \/ ArriveLate(c) \/ End(c)
  \/ Tick

Spec == Init /\ [][Next]_vars

(***************************************************************************)
(* Fairness.  A thread inside is_open runs on (it holds no await); a call  *)
(* ends, because the HTTP client times out after 30 s; time passes.  That  *)
(* requests keep coming (AskBreaker) is an assumption on the traffic: a    *)
(* provider nobody calls is never tried.                                   *)
(***************************************************************************)
Fairness ==
  /\ \A c \in Calls : /\ WF_vars(AskBreaker(c))
                      /\ WF_vars(WinTrial(c) \/ ArriveLate(c))
                      /\ WF_vars(End(c))
  /\ WF_vars(Tick)

FairSpec == Spec /\ Fairness

-----------------------------------------------------------------------------
(***************************************************************************)
(* Properties                                                              *)
(***************************************************************************)

\* The three fields of ProviderState tell one story, whatever the calls in
\* flight report and in whatever order (record_success / record_failure of a
\* call admitted long ago hit a circuit that has moved on): the probe flag is
\* up exactly in HalfOpen, the circuit is Closed exactly while the failure
\* count is below the threshold, and opened_at is set exactly while it is not.
BreakerConsistent ==
  /\ circuit = "HalfOpen" <=> probe_in_flight
  /\ circuit = "Closed" <=> failures < FAILURE_THRESHOLD
  /\ circuit = "Closed" <=> since_opened = NotOpened

\* If the half-open period still has its trial in flight, the period is on
\* and that call was let through: no report can leave a holder behind.
HolderIsTrial ==
  trial_holder # NoCall =>
    /\ circuit = "HalfOpen"
    /\ phase[trial_holder] = "admitted"

Gate == INSTANCE ProviderGate
          WITH mode <- CASE circuit = "Closed"   -> "up"
                         [] circuit = "Open"     -> "down"
                         [] circuit = "HalfOpen" -> "probation",
               admitted <- {c \in Calls : phase[c] = "admitted"}

\* Two-phase is_open, stragglers and lost calls included, each half-open
\* period admits exactly the one call that began it, and an open circuit
\* admits nobody ("only the caller that actually performs the Open ->
\* HalfOpen transition gets through", circuit_breaker.rs:11-13).
ImplementsGate == Gate!GateSpec

\* A tripped provider is tried again or taken back: the circuit is not Open
\* for ever while requests keep coming.
TrippedIsRetried == (circuit = "Open") ~> (circuit # "Open")

\* A half-open period ends, unless its trial was lost without a report.
TrialResolvesOrIsLost ==
  (circuit = "HalfOpen") ~> (circuit # "HalfOpen" \/ trial_holder = NoCall)

\* What the README promises, that the breaker probes a provider back into
\* rotation: a half-open period always ends.  The code does not keep it.
HalfOpenResolves == (circuit = "HalfOpen") ~> (circuit # "HalfOpen")

\* What is_open's comment promises a late arrival (circuit_breaker.rs:96-101):
\* every trial waits for the reset timeout of the period it follows.  The code
\* does not keep it: the write lock does not look at opened_at again.
TrialWaitsForReset ==
  [][circuit = "Open" /\ circuit' = "HalfOpen" => Expired]_vars
=============================================================================
