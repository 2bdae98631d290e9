----------------------------- MODULE RequestLog -----------------------------
(***************************************************************************)
(* The audit trail: what the handlers of main.rs, streaming.rs and         *)
(* anthropic_passthrough.rs write to request_logs and shadow_comparisons   *)
(* through CostTracker (cost_tracker.rs), and what the admin endpoints     *)
(* (admin.rs) read from them.  Every row is written by a detached task     *)
(* that may be late or fail; every report is one query or several.         *)
(*                                                                         *)
(* Beside it runs the money: what SpendGuard keeps for each request (how   *)
(* it keeps it is SpendGuard's, the ways a call ends are Gateway's).  Of a *)
(* latency column only whether it holds a measurement or NULL is modelled. *)
(***************************************************************************)
EXTENDS Naturals, FiniteSets

CONSTANTS
  Requests,
  Clients,      \* client_id; one of them stands for NULL, 'anonymous'
  Estimates, Actuals,   \* reserved and billed costs
  Nothing,      \* no client, no money, or SQL's NULL
  MaxFailures   \* bound of the runs: INSERTs that fail

ASSUME NothingAssumption == Nothing \notin Clients \cup Nat
ASSUME CostsAssumption == Estimates \subseteq Nat /\ Actuals \subseteq Nat

VARIABLES
  kind, client, pc,     \* a request: its endpoint, its client, its handler
  kept,         \* what SpendGuard keeps for it: reserved, then settled
  shadow,       \* the shadow task of a chat request
  shadow_kept,  \* what SpendGuard keeps for the shadow's call
  inserts,      \* INSERTs under way: rows of either table
  request_logs, shadow_comparisons,     \* the tables
  cache_stats, daily,   \* reports that take several queries
  lost          \* history: rows whose INSERT failed

handlers == <<kind, client, pc, kept>>
shadows == <<shadow, shadow_kept>>
tables == <<request_logs, shadow_comparisons>>
reports == <<cache_stats, daily>>
vars == <<handlers, shadows, inserts, tables, reports, lost>>

Kinds == {"chat", "stream", "native", "native_stream"}
Streaming == {"stream", "native_stream"}
Places == {"idle", "begun", "reserved", "answered", "cached", "failed", "refused", "dropped"}

Log == [table : {"request_logs"}, id : Requests, client_id : Clients,
        status : {"success", "failed"}, cost_cents : Nat, from_cache : BOOLEAN,
        latency : BOOLEAN, ttfb : BOOLEAN]
Comparison == [table : {"shadow_comparisons"}, id : Requests, primary : Nat,
               cost : Nat \cup {Nothing}, error : BOOLEAN]

TypeOK ==
  /\ kind \in [Requests -> Kinds] /\ client \in [Requests -> Clients]
  /\ pc \in [Requests -> Places]
  /\ kept \in [Requests -> Nat \cup {Nothing}]
  /\ shadow \in [Requests -> {"none", "spawned", "calling", "over"}]
  /\ shadow_kept \in [Requests -> Nat \cup {Nothing}]
  /\ request_logs \subseteq Log /\ shadow_comparisons \subseteq Comparison
  /\ inserts \cup lost \subseteq Log \cup Comparison
  \* request_id is UNIQUE: a second row for a request would not get in.
  /\ \A a, b \in request_logs \cup {i \in inserts : i \in Log} : a.id = b.id => a = b

Init ==
  /\ kind = [r \in Requests |-> "chat"]
  /\ client \in [Requests -> Clients]
  /\ pc = [r \in Requests |-> "idle"]
  /\ kept = [r \in Requests |-> Nothing]
  /\ shadow = [r \in Requests |-> "none"]
  /\ shadow_kept = [r \in Requests |-> Nothing]
  /\ inserts = {} /\ lost = {}
  /\ request_logs = {} /\ shadow_comparisons = {}
  /\ cache_stats = [hits |-> Nothing, total |-> Nothing]
  /\ daily = [successful |-> Nothing, providers |-> Nothing, calm |-> TRUE]

Goto(r, place) == pc' = [pc EXCEPT ![r] = place]
Keep(r, cents) == kept' = [kept EXCEPT ![r] = cents]

-----------------------------------------------------------------------------
(***************************************************************************)
(* What is written.                                                        *)
(***************************************************************************)
Entry(r, status, cents, cached, latency, ttfb) ==
  [table |-> "request_logs", id |-> r, client_id |-> client[r], status |-> status,
   cost_cents |-> cents, from_cache |-> cached, latency |-> latency, ttfb |-> ttfb]

\* MUTANT of Answered: a stream's time to its headers goes to both columns.
Answered_TtfbTwice(r, cents) == Entry(r, "success", cents, FALSE, TRUE, kind[r] \in Streaming)

\* A provider's answer: latency_ms off a stream, ttfb_ms on one.
Answered(r, cents) ==
  Entry(r, "success", cents, FALSE, kind[r] \notin Streaming, kind[r] \in Streaming)
\* A hit has no provider, hence no provider's latency; it costs nothing.
FromCache(r) == Entry(r, "success", 0, TRUE, FALSE, FALSE)

\* record_error: latency_ms is the handler's time, since migration 009.
Errored(r) == Entry(r, "failed", 0, FALSE, TRUE, FALSE)

Compared(r, cents, error) ==
  [table |-> "shadow_comparisons", id |-> r, primary |-> kept[r], cost |-> cents, error |-> error]

Spawn(row) == inserts' = inserts \cup {row}

-----------------------------------------------------------------------------
(***************************************************************************)
(* The handlers.                                                           *)
(***************************************************************************)
Begin(r, k) ==
  /\ pc[r] = "idle"
  /\ kind' = [kind EXCEPT ![r] = k]
  /\ Goto(r, "begun")
  /\ UNCHANGED <<client, kept, shadows, inserts, tables, reports, lost>>

\* Turned away before any money: limits, a loop, no such model, the cap.
TurnAway(r) ==
  /\ pc[r] = "begun"
  /\ Goto(r, "refused")
  /\ UNCHANGED <<kind, client, kept, shadows, inserts, tables, reports, lost>>

ServeCached(r) ==
  /\ pc[r] = "begun" /\ kind[r] = "chat"
  /\ Spawn(FromCache(r))
  /\ Goto(r, "cached")
  /\ UNCHANGED <<kind, client, kept, shadows, tables, reports, lost>>

Reserve(r, estimate) ==
  /\ pc[r] = "begun"
  /\ Keep(r, estimate)
  /\ Goto(r, "reserved")
  /\ UNCHANGED <<kind, client, shadows, inserts, tables, reports, lost>>

\* No route, or an unfit tool request: nothing has been sent.
NotRouted(r) ==
  /\ pc[r] = "reserved" /\ kind[r] \in {"chat", "stream"}
  /\ Keep(r, 0)
  /\ Goto(r, "refused")
  /\ UNCHANGED <<kind, client, shadows, inserts, tables, reports, lost>>

\* A stream and the native endpoint: a send error, a status other than 2xx, a
\* body that breaks off, a stream its client leaves.  Released, and no row.
GiveUp(r) ==
  /\ pc[r] = "reserved" /\ kind[r] # "chat"
  /\ Keep(r, 0)
  /\ Goto(r, "failed")
  /\ UNCHANGED <<kind, client, shadows, inserts, tables, reports, lost>>

\* MUTANT of CallFails: the row is written as for an answer, at the estimate.
CallFails_AsAnswer(r) ==
  /\ pc[r] = "reserved" /\ kind[r] = "chat"
  /\ Keep(r, 0)
  /\ Spawn(Answered(r, kept[r]))
  /\ Goto(r, "failed")
  /\ UNCHANGED <<kind, client, shadows, tables, reports, lost>>

\* The connector's error, on the non-streaming chat path.
CallFails(r) ==
  /\ pc[r] = "reserved" /\ kind[r] = "chat"
  /\ Keep(r, 0)
  /\ Spawn(Errored(r))
  /\ Goto(r, "failed")
  /\ UNCHANGED <<kind, client, shadows, tables, reports, lost>>

\* The provider has answered, or a stream has reported: reconcile, the shadow
\* if the client asked for one, and the row.
Answer(r, cents, shadowed) ==
  /\ pc[r] = "reserved"
  /\ shadowed => kind[r] = "chat"
  /\ Keep(r, cents)
  /\ Spawn(Answered(r, cents))
  /\ shadow' = IF shadowed THEN [shadow EXCEPT ![r] = "spawned"] ELSE shadow
  /\ Goto(r, "answered")
  /\ UNCHANGED <<kind, client, shadow_kept, tables, reports, lost>>

\* The handler, or the native stream's generator, is dropped at its call: its
\* reservation stays until the window ends.  (A dropped stream gives up.)
Drop(r) ==
  /\ pc[r] = "reserved" /\ kind[r] # "stream"
  /\ Goto(r, "dropped")
  /\ UNCHANGED <<kind, client, kept, shadows, inserts, tables, reports, lost>>

-----------------------------------------------------------------------------
(***************************************************************************)
(* The task of maybe_fire_shadow_request.                                  *)
(***************************************************************************)
ShadowOver(r) == shadow' = [shadow EXCEPT ![r] = "over"]

\* An unknown model, no key for it, or the cap.
ShadowSkips(r) ==
  /\ shadow[r] = "spawned"
  /\ ShadowOver(r)
  /\ Spawn(Compared(r, Nothing, TRUE))
  /\ UNCHANGED <<handlers, shadow_kept, tables, reports, lost>>

ShadowReserves(r, estimate) ==
  /\ shadow[r] = "spawned"
  /\ shadow' = [shadow EXCEPT ![r] = "calling"]
  /\ shadow_kept' = [shadow_kept EXCEPT ![r] = estimate]
  /\ UNCHANGED <<handlers, inserts, tables, reports, lost>>

\* MUTANT of ShadowAnswers: the estimate is left standing.
ShadowAnswers_Unreconciled(r, cents) ==
  /\ shadow[r] = "calling"
  /\ ShadowOver(r)
  /\ Spawn(Compared(r, cents, FALSE))
  /\ UNCHANGED <<handlers, shadow_kept, tables, reports, lost>>

ShadowAnswers(r, cents) ==
  /\ shadow[r] = "calling"
  /\ ShadowOver(r)
  /\ shadow_kept' = [shadow_kept EXCEPT ![r] = cents]
  /\ Spawn(Compared(r, cents, FALSE))
  /\ UNCHANGED <<handlers, tables, reports, lost>>

ShadowFails(r) ==
  /\ shadow[r] = "calling"
  /\ ShadowOver(r)
  /\ shadow_kept' = [shadow_kept EXCEPT ![r] = 0]
  /\ Spawn(Compared(r, Nothing, TRUE))
  /\ UNCHANGED <<handlers, tables, reports, lost>>

-----------------------------------------------------------------------------
(***************************************************************************)
(* The INSERTs, one task each.                                             *)
(***************************************************************************)
Insert(row) ==
  /\ row \in inserts
  /\ inserts' = inserts \ {row}
  /\ IF row \in Log
       THEN request_logs' = request_logs \cup {row} /\ UNCHANGED shadow_comparisons
       ELSE shadow_comparisons' = shadow_comparisons \cup {row} /\ UNCHANGED request_logs
  /\ daily' = [daily EXCEPT !.calm = @ /\ (row \notin Log \/ daily.providers # Nothing)]
  /\ UNCHANGED <<handlers, shadows, cache_stats, lost>>

\* The error is logged to stderr, and the row is gone.
InsertFails(row) ==
  /\ row \in inserts /\ Cardinality(lost) < MaxFailures
  /\ inserts' = inserts \ {row}
  /\ lost' = lost \cup {row}
  /\ UNCHANGED <<handlers, shadows, tables, reports>>

-----------------------------------------------------------------------------
(***************************************************************************)
(* The reports.  Those of one query are operators on the table.            *)
(***************************************************************************)
Successful(rows) == {e \in rows : e.status = "success"}
Hits(rows) == {e \in rows : e.from_cache}

\* GET /admin/overview: the rows each of its figures is made from.
Overview(rows) ==
  [total |-> rows,
   successful |-> Successful(rows),
   failed |-> rows \ Successful(rows),
   cache_hits |-> Hits(rows),
   latency_sample |-> {e \in rows : e.latency},
   ttfb_sample |-> {e \in rows : e.ttfb}]

\* GET /admin/clients: a row a client.  avg_latency_ms is AVG without COALESCE.
ClientSpend(rows) ==
  {[client_id |-> c,
    avg_latency |-> IF \E e \in rows : e.client_id = c /\ e.latency THEN "value" ELSE Nothing]
     : c \in {e.client_id : e \in rows}}

\* GET /admin/cache: the hits, then all requests; a query that fails counts 0.
CountHits(failing) ==
  /\ cache_stats' = [hits |-> IF failing THEN 0 ELSE Cardinality(Hits(request_logs)),
                     total |-> Nothing]
  /\ UNCHANGED <<handlers, shadows, inserts, tables, daily, lost>>

CountTotal(failing) ==
  /\ cache_stats.hits # Nothing /\ cache_stats.total = Nothing
  /\ cache_stats' = [cache_stats EXCEPT !.total =
       IF failing THEN 0 ELSE Cardinality(request_logs)]
  /\ UNCHANGED <<handlers, shadows, inserts, tables, daily, lost>>

\* GET /audit/daily: the summary, then the same rows by provider.
DailySummary ==
  /\ daily' = [successful |-> Cardinality(Successful(request_logs)),
               providers |-> Nothing, calm |-> TRUE]
  /\ UNCHANGED <<handlers, shadows, inserts, tables, cache_stats, lost>>

\* MUTANT of ByProvider: the second query counts failures as well.
ByProvider_All(rows) == rows

ByProvider(rows) == Successful(rows)

DailyProviders ==
  /\ daily.successful # Nothing /\ daily.providers = Nothing
  /\ daily' = [daily EXCEPT !.providers = Cardinality(ByProvider(request_logs))]
  /\ UNCHANGED <<handlers, shadows, inserts, tables, cache_stats, lost>>

-----------------------------------------------------------------------------
HandlerStep(r) ==
  \/ \E k \in Kinds : Begin(r, k)
  \/ TurnAway(r) \/ ServeCached(r) \/ NotRouted(r) \/ GiveUp(r) \/ CallFails(r) \/ Drop(r)
  \/ \E e \in Estimates : Reserve(r, e)
  \/ \E a \in Actuals, shadowed \in BOOLEAN : Answer(r, a, shadowed)

ShadowStep(r) ==
  \/ ShadowSkips(r) \/ ShadowFails(r)
  \/ \E e \in Estimates : ShadowReserves(r, e)
  \/ \E a \in Actuals : ShadowAnswers(r, a)

Report ==
  \/ \E failing \in BOOLEAN : CountHits(failing) \/ CountTotal(failing)
  \/ DailySummary \/ DailyProviders

Next ==
  \/ \E r \in Requests : HandlerStep(r) \/ ShadowStep(r)
  \/ \E row \in inserts : Insert(row) \/ InsertFails(row)
  \/ Report

Spec == Init /\ [][Next]_vars

-----------------------------------------------------------------------------

\* Every row there is, will be, or would have been.
Written == request_logs \cup {e \in inserts \cup lost : e \in Log}
Comparisons == shadow_comparisons \cup {c \in inserts \cup lost : c \in Comparison}

\* The trail and the cap are two books of one thing, though rows are written
\* late or not at all: a row's cost is what SpendGuard keeps for its request, 0
\* where it released or never reserved; what an answer costs is in a row; and a
\* comparison has the cost SpendGuard keeps for the shadow's call, beside the
\* cost of the request's own row (record_request, record_error,
\* record_shadow_comparison and their callers).
LogFollowsMoney ==
  /\ \A e \in Written :
       IF e.from_cache THEN e.cost_cents = 0 /\ kept[e.id] = Nothing
       ELSE e.cost_cents = kept[e.id] /\ (e.status = "failed" => kept[e.id] = 0)
  /\ \A r \in Requests :
       pc[r] = "answered" => \E e \in Written : e.id = r /\ e.status = "success"
  /\ \A c \in Comparisons :
       /\ IF c.error THEN c.cost = Nothing /\ shadow_kept[c.id] \in {0, Nothing}
                     ELSE c.cost = shadow_kept[c.id]
       /\ \E e \in Written : e.id = c.id /\ e.cost_cents = c.primary

\* The two latency figures of the overview come from "disjoint" rows, "a caller
\* can tell a meaningful figure" by their counts (admin.rs:273-277), and a
\* cached answer is in neither.
SamplesDisjoint ==
  LET o == Overview(request_logs) IN
    /\ o.latency_sample \cap o.ttfb_sample = {}
    /\ (o.latency_sample \cup o.ttfb_sample) \cap o.cache_hits = {}
    /\ \A e \in o.ttfb_sample : kind[e.id] \in Streaming
    /\ \A e \in o.successful \ o.cache_hits : e \in o.latency_sample \cup o.ttfb_sample

\* A report of several queries is never absurd, though rows arrive between
\* them: a hit rate is at most 100 %, the providers of a day account for its
\* successful requests, exactly unless a row came in between, and every answer
\* is in one of the overview's two latency samples (admin.rs, get_daily_report).
ReportsAddUp ==
  /\ SamplesDisjoint
  /\ cache_stats.total \notin {0, Nothing} => cache_stats.hits <= cache_stats.total
  /\ daily.providers # Nothing =>
       /\ daily.successful <= daily.providers
       /\ daily.calm => daily.successful = daily.providers

\* admin.rs:352-354 on reports: "sqlx's Row::get panics on a type mismatch, and a
\* panic inside an axum handler drops the connection with no response at all".
\* No figure of /admin/clients is NULL.  The code: a client's with streams or
\* cached answers only is.
ClientsAnswered ==
  \A entry \in ClientSpend(request_logs) : entry.avg_latency # Nothing

\* main.rs:853-854 "Error rows (status='failed') should be excluded from latency
\* analysis anyway".  The code: the overview averages them.
FailuresNotAveraged ==
  LET o == Overview(request_logs) IN o.latency_sample \cap o.failed = {}

\* migrations/001_request_logs.sql:52 "Immutable audit trail of every request
\* routed through RouterFuel".  The code: a request whose provider failed is in
\* it only on the non-streaming chat path.
EveryRequestLogged ==
  \A r \in Requests : pc[r] = "failed" => \E e \in Written : e.id = r
=============================================================================
