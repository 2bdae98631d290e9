------------------------------ MODULE Gateway -------------------------------
(***************************************************************************)
(* The life of one client's requests through the handlers of src/main.rs,  *)
(* src/streaming.rs and src/anthropic_passthrough.rs: the reservation each *)
(* makes with the SpendGuard, the permit it takes from the                 *)
(* ConcurrencyLimiter (src/concurrency.rs), the provider call, and who     *)
(* settles the reservation in the end.                                     *)
(*                                                                         *)
(*   chat             handle_non_streaming                                 *)
(*   stream           handle_streaming, then TWO actors: the SSE generator *)
(*                    of stream_handler and the audit task it spawned,     *)
(*                    joined by a channel of capacity one                  *)
(*   shadow           the task of maybe_fire_shadow_request, spawned by a  *)
(*                    chat request that succeeded                          *)
(*   messages         messages_handler, the native Anthropic endpoint: no  *)
(*                    permit                                               *)
(*   messages_stream  the same, then the generator of relay_stream         *)
(*                                                                         *)
(* A handler or generator can be dropped at any of its awaits: the client  *)
(* goes away, or TimeoutLayer fires.  A spawned task cannot.               *)
(* Breaker, routing and wire format are in other modules: here a call may  *)
(* fail before, at or after the provider's answer.                         *)
(***************************************************************************)
EXTENDS SpendGuard, Sequences, FiniteSets, SequencesExt

CONSTANTS
  Requests,             \* concurrent requests; a slot is reused when one ends
  MaxConcurrent,        \* permits of the ConcurrencyLimiter, at least 1
  Estimates,            \* estimated_cost_cents a request may come with
  Actuals,              \* the cost of the tokens a provider may report
  NotHeld               \* no reservation

ASSUME RequestsAssumption == IsFiniteSet(Requests)
ASSUME MaxConcurrentAssumption == MaxConcurrent \in Nat \ {0}
ASSUME EstimatesAssumption == Estimates \subseteq Nat
ASSUME ActualsAssumption == Actuals \subseteq Nat
ASSUME NotHeldAssumption == NotHeld \notin Nat

VARIABLES
  kind,                 \* which handler serves the request
  at,                   \* where its handler, generator or task stands
  est,                  \* estimated_cost: a local of the handler, moved into
                        \* the audit task on a stream
  audit,                \* the audit task of a stream and its channel
  available,            \* free permits of the semaphore
  waiters,              \* the semaphore's FIFO queue
  billed                \* history: requests a provider answered with 2xx

gateway_vars == <<kind, at, est, audit, available, waiters, billed>>
vars == <<guard_vars, gateway_vars>>

Kinds == {"chat", "stream", "shadow", "messages", "messages_stream"}

Places ==
  { "idle",             \* the slot is free
    "spawned",          \* shadow task not begun
    "reserved",         \* reservation made
    "preparing",        \* stream_handler running, audit task spawned
    "queued",           \* waiting for a permit
    "calling",          \* request on its way: send().await
    "reading",          \* 2xx headers are in: body or stream under way
    "returning",        \* settled or given up, permit still held
    "gone" }            \* generator ended or dropped, audit task still there

\* The audit task of a stream: not spawned, waiting on an open channel, with
\* the payload in the channel, or with the sender dropped and nothing sent.
Audits == {"none", "waiting", "payload", "closed"}

NeedsPermit(k) == k \in {"chat", "stream", "shadow"}

TypeOK ==
  /\ GuardTypeOK
  /\ kind \in [Requests -> Kinds]
  /\ at \in [Requests -> Places]
  /\ est \in [Requests -> Estimates \cup {NotHeld}]
  /\ audit \in [Requests -> Audits]
  /\ available \in 0 .. MaxConcurrent
  /\ waiters \in Seq(Requests)
  /\ billed \subseteq Requests

Init ==
  /\ GuardInit
  /\ kind = [r \in Requests |-> "chat"]
  /\ at = [r \in Requests |-> "idle"]
  /\ est = [r \in Requests |-> NotHeld]
  /\ audit = [r \in Requests |-> "none"]
  /\ available = MaxConcurrent
  /\ waiters = <<>>
  /\ billed = {}

-----------------------------------------------------------------------------
(***************************************************************************)
(* The ConcurrencyLimiter: a fair semaphore.                               *)
(***************************************************************************)
HoldsPermit(r) ==
  NeedsPermit(kind[r]) /\ at[r] \in {"calling", "reading", "returning"}

\* acquire().await: a free permit is taken at once, else r joins the queue.
Acquire(r) ==
  IF available > 0
    THEN /\ available' = available - 1
         /\ at' = [at EXCEPT ![r] = "calling"]
         /\ UNCHANGED waiters
    ELSE /\ waiters' = Append(waiters, r)
         /\ at' = [at EXCEPT ![r] = "queued"]
         /\ UNCHANGED available

\* MUTANT of ReturnPermit: the freed permit goes back to the pool and the
\* queue is not looked at.
ReturnPermit_WakesNobody(r, next) ==
  /\ available' = available + 1
  /\ at' = [at EXCEPT ![r] = next]
  /\ UNCHANGED waiters

\* The permit of r is dropped: the first waiter has it, or the pool.
ReturnPermit(r, next) ==
  IF waiters = <<>>
    THEN /\ available' = available + 1
         /\ at' = [at EXCEPT ![r] = next]
         /\ UNCHANGED waiters
    ELSE /\ waiters' = Tail(waiters)
         /\ at' = [at EXCEPT ![r] = next, ![Head(waiters)] = "calling"]
         /\ UNCHANGED available

\* MUTANT of Vacate: dropping a request leaves its ticket in the queue.
Vacate_KeepsTicket(r, next) ==
  IF HoldsPermit(r)
    THEN ReturnPermit(r, next)
    ELSE /\ at' = [at EXCEPT ![r] = next]
         /\ UNCHANGED <<waiters, available>>

\* r stops where it stands and goes to `next`: its permit or its place in the
\* queue is given up with it.
Vacate(r, next) ==
  IF HoldsPermit(r)
    THEN ReturnPermit(r, next)
    ELSE /\ at' = [at EXCEPT ![r] = next]
         /\ waiters' = RemoveFirst(waiters, r)
         /\ UNCHANGED available

limiter_vars == <<available, waiters>>

MoveTo(r, next) ==
  /\ at' = [at EXCEPT ![r] = next]
  /\ UNCHANGED limiter_vars

-----------------------------------------------------------------------------
(***************************************************************************)
(* From arrival to the provider.                                           *)
(***************************************************************************)

\* The request gets past rate limit, loop guard, cache, routing and pricing
\* (a refusal there touches nothing modelled here) and is reserved for.
Admit(r, k, e) ==
  /\ TryReserveOk(e)
  /\ kind' = [kind EXCEPT ![r] = k]
  /\ est' = [est EXCEPT ![r] = e]
  /\ MoveTo(r, "reserved")
  /\ UNCHANGED <<audit, billed>>

Arrive(r, k, e) ==
  /\ at[r] = "idle"
  /\ k # "shadow"
  /\ Admit(r, k, e)

\* try_reserve says no: 429, before any provider is called.
Refuse(r, e) ==
  /\ at[r] = "idle"
  /\ TryReserveRefused(e)
  /\ UNCHANGED gateway_vars

\* The shadow task, begun: its own model's estimate is reserved ...
ShadowReserves(r, e) ==
  /\ at[r] = "spawned"
  /\ Admit(r, "shadow", e)

\* ... or is not, and the shadow call is skipped; ...
ShadowRefused(r, e) ==
  /\ at[r] = "spawned"
  /\ TryReserveRefused(e)
  /\ MoveTo(r, "idle")
  /\ UNCHANGED <<kind, est, audit, billed>>

\* ... or its model is unknown or has no key.
ShadowUnroutable(r) ==
  /\ at[r] = "spawned"
  /\ MoveTo(r, "idle")
  /\ UNCHANGED <<guard_vars, kind, est, audit, billed>>

\* What ends with the request, for a handler that settles for itself.
Done(r) ==
  /\ est' = [est EXCEPT ![r] = NotHeld]
  /\ billed' = billed \ {r}
  /\ UNCHANGED <<kind, audit>>

\* No key for the provider, or a tool payload it cannot carry.
Unroutable(r) ==
  /\ at[r] = "reserved"
  /\ kind[r] \in {"chat", "stream"}
  /\ Release(est[r])
  /\ MoveTo(r, "idle")
  /\ Done(r)

\* chat and shadow ask for their permit ...
Enqueue(r) ==
  /\ at[r] = "reserved"
  /\ kind[r] \in {"chat", "shadow"}
  /\ Acquire(r)
  /\ UNCHANGED <<guard_vars, kind, est, audit, billed>>

\* ... the native endpoint needs none ...
SendNatively(r) ==
  /\ at[r] = "reserved"
  /\ ~NeedsPermit(kind[r])
  /\ MoveTo(r, "calling")
  /\ UNCHANGED <<guard_vars, kind, est, audit, billed>>

\* ... and stream_handler spawns the audit task before anything can fail.
SpawnAudit(r) ==
  /\ at[r] = "reserved"
  /\ kind[r] = "stream"
  /\ audit' = [audit EXCEPT ![r] = "waiting"]
  /\ MoveTo(r, "preparing")
  /\ UNCHANGED <<guard_vars, kind, est, billed>>

\* The SSE body is polled for the first time and asks for the permit.
StartStream(r) ==
  /\ at[r] = "preparing"
  /\ Acquire(r)
  /\ UNCHANGED <<guard_vars, kind, est, audit, billed>>

-----------------------------------------------------------------------------
(***************************************************************************)
(* At the provider.                                                        *)
(***************************************************************************)

\* 2xx headers are in: from here the provider has the client's money.
Answer(r) ==
  /\ at[r] = "calling"
  /\ billed' = billed \cup {r}
  /\ MoveTo(r, "reading")
  /\ UNCHANGED <<guard_vars, kind, est, audit>>

\* A chat or shadow call comes back with a response: reconcile.
CallOk(r, actual) ==
  /\ at[r] = "reading"
  /\ kind[r] \in {"chat", "shadow"}
  /\ Reconcile(est[r], actual)
  /\ MoveTo(r, "returning")
  /\ Done(r)

\* A chat request that asked for a shadow also spawns one.
CallOkWithShadow(r, s, actual) ==
  /\ at[r] = "reading"
  /\ kind[r] = "chat"
  /\ at[s] = "idle"
  /\ Reconcile(est[r], actual)
  /\ at' = [at EXCEPT ![r] = "returning", ![s] = "spawned"]
  /\ kind' = [kind EXCEPT ![s] = "shadow"]
  /\ est' = [est EXCEPT ![r] = NotHeld]
  /\ billed' = billed \ {r}
  /\ UNCHANGED <<audit, limiter_vars>>

\* ConnectorManager::call fails: open circuit, no connection, status, timeout,
\* or a 2xx body it cannot read.  The handler releases.
CallFails(r) ==
  /\ at[r] \in {"calling", "reading"}
  /\ kind[r] \in {"chat", "shadow"}
  /\ Release(est[r])
  /\ MoveTo(r, "returning")
  /\ Done(r)

\* The native endpoint without stream: usage from the body, and if there is
\* none the estimated input and no output, either way some actual cost; of a
\* stream, the tokens sniffed when it ended or broke.
NativeEnds(r, actual) ==
  /\ at[r] = "reading"
  /\ ~NeedsPermit(kind[r])
  /\ Reconcile(est[r], actual)
  /\ MoveTo(r, "idle")
  /\ Done(r)

\* send failed, not 2xx, or the body of a plain answer broke off.
NativeFails(r) ==
  /\ \/ at[r] = "calling"
     \/ at[r] = "reading" /\ kind[r] = "messages"
  /\ ~NeedsPermit(kind[r])
  /\ Release(est[r])
  /\ MoveTo(r, "idle")
  /\ Done(r)

\* The function of a chat or shadow call is left, and _permit dropped.
Return(r) ==
  /\ at[r] = "returning"
  /\ kind[r] \in {"chat", "shadow"}
  /\ Vacate(r, "idle")
  /\ UNCHANGED <<guard_vars, kind, est, audit, billed>>

-----------------------------------------------------------------------------
(***************************************************************************)
(* The generator of a stream and its audit task.                           *)
(***************************************************************************)

\* [DONE], message_stop or the end of the bytes: the payload is sent, and the
\* generator goes on to its last yield.
StreamEnds(r) ==
  /\ at[r] = "reading"
  /\ kind[r] = "stream"
  /\ audit' = [audit EXCEPT ![r] = "payload"]
  /\ MoveTo(r, "returning")
  /\ UNCHANGED <<guard_vars, kind, est, billed>>

\* The generator's locals go: its permit and its end of the channel.  The
\* audit task outlives it unless it is done already.
DropGenerator(r) ==
  /\ Vacate(r, IF audit[r] = "none" THEN "idle" ELSE "gone")
  /\ audit' = [audit EXCEPT ![r] = IF @ = "waiting" THEN "closed" ELSE @]
  /\ UNCHANGED <<kind, est, billed>>

InGenerator(r) ==
  /\ kind[r] = "stream"
  /\ at[r] \in {"preparing", "queued", "calling", "reading", "returning"}

\* MUTANT of StreamLeaves: the reservation is "released immediately" as the
\* head of streaming.rs has it, and by the audit task as well.
StreamLeaves_ReleasesToo(r) ==
  /\ InGenerator(r)
  /\ at[r] \in {"preparing", "calling", "returning"}
  /\ Release(est[r])
  /\ DropGenerator(r)

\* An error before the generator exists, send failed or not 2xx, or the
\* generator is done.
StreamLeaves(r) ==
  /\ InGenerator(r)
  /\ at[r] \in {"preparing", "calling", "returning"}
  /\ DropGenerator(r)
  /\ UNCHANGED guard_vars

\* The audit task after it settled: the slot is free once the generator is
\* gone as well.
AuditDone(r) ==
  /\ audit' = [audit EXCEPT ![r] = "none"]
  /\ est' = [est EXCEPT ![r] = NotHeld]
  /\ at' = [at EXCEPT ![r] = IF @ = "gone" THEN "idle" ELSE @]
  /\ billed' = billed \ {r}
  /\ UNCHANGED <<kind, limiter_vars>>

AuditReconciles(r, actual) ==
  /\ audit[r] = "payload"
  /\ Reconcile(est[r], actual)
  /\ AuditDone(r)

\* MUTANT of AuditReleases: without the else-branch the task ends when the
\* sender was dropped, and leaves the reservation "stuck against the cap".
AuditReleases_Forgets(r) ==
  /\ audit[r] = "closed"
  /\ UNCHANGED guard_vars
  /\ AuditDone(r)

AuditReleases(r) ==
  /\ audit[r] = "closed"
  /\ Release(est[r])
  /\ AuditDone(r)

-----------------------------------------------------------------------------
(***************************************************************************)
(* Dropped at an await: the client went away, or TimeoutLayer fired.       *)
(***************************************************************************)

\* A handler that settles for itself leaves its reservation behind.
HandlerDropped(r) ==
  /\ kind[r] \in {"chat", "messages", "messages_stream"}
  /\ at[r] \in {"queued", "calling", "reading"}
  /\ Vacate(r, "idle")
  /\ Done(r)
  /\ UNCHANGED guard_vars

\* A stream's audit task sees the sender go.
GeneratorDropped(r) ==
  /\ InGenerator(r)
  /\ DropGenerator(r)
  /\ UNCHANGED guard_vars

Tick ==
  /\ GuardTick
  /\ UNCHANGED gateway_vars

-----------------------------------------------------------------------------
Traffic(r) ==
  \E e \in Estimates : Refuse(r, e) \/ \E k \in Kinds : Arrive(r, k, e)

\* What a request's own handler, generator or task does next.
HandlerStep(r) ==
  \/ \E e \in Estimates : ShadowReserves(r, e) \/ ShadowRefused(r, e)
  \/ ShadowUnroutable(r)
  \/ Unroutable(r) \/ Enqueue(r) \/ SendNatively(r) \/ SpawnAudit(r)
  \/ StartStream(r)
  \/ Answer(r)
  \/ \E actual \in Actuals :
       \/ CallOk(r, actual)
       \/ \E s \in Requests : CallOkWithShadow(r, s, actual)
       \/ NativeEnds(r, actual)
  \/ CallFails(r) \/ NativeFails(r) \/ Return(r)
  \/ StreamEnds(r) \/ StreamLeaves(r)

AuditStep(r) ==
  \/ \E actual \in Actuals : AuditReconciles(r, actual)
  \/ AuditReleases(r)

Dropped(r) == HandlerDropped(r) \/ GeneratorDropped(r)

Next ==
  \/ \E r \in Requests : Traffic(r) \/ HandlerStep(r) \/ AuditStep(r) \/ Dropped(r)
  \/ Tick

Spec == Init /\ [][Next]_vars

(***************************************************************************)
(* Fairness.  What the process does by itself goes on: a handler ends by   *)
(* the connectors' 30 s timeout or by TimeoutLayer's 60 s, a shadow's call *)
(* by the former, and a spawned task that can run does.  TimeoutLayer is   *)
(* satisfied by the head of a response; a body runs only while the client  *)
(* reads it, and no timeout of the code's is on it or on what it waits     *)
(* for.  Nothing is assumed of traffic or of time.                         *)
(***************************************************************************)

\* The body of r's response has something to do when it is polled.  (Part of
\* "preparing" is still the handler's; a queued body has nothing to do.)
BodyRuns(r) ==
  \/ kind[r] = "stream" /\ at[r] \in {"preparing", "calling", "reading", "returning"}
  \/ kind[r] = "messages_stream" /\ at[r] = "reading"

FairSpec ==
  /\ Spec
  /\ \A r \in Requests :
       /\ WF_vars(~BodyRuns(r) /\ (HandlerStep(r) \/ HandlerDropped(r)))
       /\ WF_vars(AuditStep(r))

\* What the code does not see to: a client goes on reading the body, and what
\* its provider still owes comes or breaks off; or the client hangs up.
ClientsReadOn ==
  \A r \in Requests : WF_vars(BodyRuns(r) /\ (HandlerStep(r) \/ Dropped(r)))

-----------------------------------------------------------------------------
(***************************************************************************)
(* Properties                                                              *)
(***************************************************************************)

\* Permits are neither lost nor forged, by requests dropped in the queue, at
\* the provider or at the last yield included; no permit lies idle while
\* somebody waits; and the queue holds exactly those who wait, once each.
PermitsAccounted ==
  /\ available + Cardinality({r \in Requests : HoldsPermit(r)}) = MaxConcurrent
  /\ waiters # <<>> => available = 0
  /\ ToSet(waiters) = {r \in Requests : at[r] = "queued"}
  /\ IsInjective(waiters)

Ledger == INSTANCE SpendLedger WITH held <- est

\* Five handlers, two of them with a second actor, and every way to fail or be
\* dropped: each reservation is made before the provider is called and settled
\* at most once, with the amount that was reserved.
ImplementsLedger == Ledger!LedgerSpec

\* A stream's or shadow's reservation is never just forgotten: whenever one
\* ends, the running total has been adjusted for it, though the client may
\* have gone away at any point (what audit_tx's FIX comment is about).
StreamsAndShadowsSettle ==
  [][\A r \in Requests :
       /\ kind[r] \in {"stream", "shadow"}
       /\ est[r] # NotHeld
       /\ est'[r] = NotHeld
       => \E actual \in Actuals \cup {0} : spent' = Adjusted(est[r], actual)]_vars

\* Requests are served in the order they queued in.
ServedInOrder ==
  [][\A r \in Requests :
       at[r] = "queued" /\ at'[r] = "calling" => r = Head(waiters)]_vars

NoneHeldForEver ==
  \A r \in Requests : (est[r] # NotHeld) ~> (est[r] = NotHeld)

\* No reservation is held for ever, if clients read on or hang up: nobody waits
\* for a permit that never comes, or for a task that has ended.
ReservationsEnd == ClientsReadOn => NoneHeldForEver

\* release is "for when the call never happened (rejected/errored before any
\* provider was billed)" (guardrails.rs:233): the audit task releases only
\* streams no provider answered.  The code does not keep it: a client that
\* goes away in mid-stream gets its whole reservation back.
ReleasedUnbilled ==
  \A r \in Requests : audit[r] = "closed" => r \notin billed
=============================================================================
