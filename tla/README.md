# Routerfuel: a TLA+ verification development

Routerfuel is a multi-tenant, bring-your-own-key gateway to LLM providers: an
axum server that authenticates a client, limits its rate and its spend, picks a
provider, calls it with the client's own key, and accounts for what it cost.
This directory holds TLA+ models of its concurrent core, TLC configurations
that check them on small instances, and TLAPS proofs for every instance.
Paths such as `circuit_breaker.rs:96` are relative to the crate's `src/`.

## 1. Inventory

| Component | State it keeps | Operations | Hard part |
|---|---|---|---|
| Circuit breaker (`circuit_breaker.rs`) | per provider: state, failures, opened_at, probe_in_flight, behind one RwLock | is_open (read lock, then write lock), record_success, record_failure | check and claim are two critical sections; reports of calls admitted long ago; a trial that never reports |
| Connectors (`connectors.rs`, `vertex.rs`, `bedrock.rs`) | HTTP clients | complete, per provider | many ways to end, few of them recorded; dropped at any await |
| Vertex tokens (`vertex.rs`) | a DashMap of slots, each an async mutex around a token | auth, complete with its retry, vertex_stream_parts | a mutex held across a POST; eviction under a read guard; expiry, and a retry that must not get the old token |
| SpendGuard (`guardrails.rs`) | per client: running total and start of the window, in a DashMap | try_reserve, reconcile, release | estimates settled later, perhaps in another window |
| LoopGuard (`guardrails.rs`) | per client: recent prompt hashes | check_and_record | window and history cap |
| Concurrency limiter (`concurrency.rs`) | a fair tokio semaphore | acquire; drop of the permit | permits and tickets of dropped futures |
| Handlers (`main.rs`) | AppState of the above | chat (streaming or not), shadow task, models, health | seven exits after a reservation; detached tasks |
| Streaming (`streaming.rs`) | generator and audit task, joined by a channel | stream_handler | two owners of one reservation; client disconnects; lines the network cuts; a price looked up twice |
| Native Anthropic endpoint (`anthropic_passthrough.rs`) | none of its own | messages_handler, relay_stream, count_tokens | settles inside the response body; no permit, no breaker |
| Rate limiter (`rate_limiter.rs`) | limiter per client, tier per client: two maps, two locks | register, check, check_limit, status | register is not atomic; auto-registration races the sync |
| Client registry (`client_registry.rs`) | the sync task | environment load, periodic sync, startup | rows applied one by one, failures of the query |
| Auth (`auth.rs`) | environment keys, database snapshot | validate_identity, replace_db_keys, the key and the composite-key middleware, the reading of provider keys | revocation against two layers; three layers that write headers, two ways to say who one is |
| Semantic cache (`semantic_cache.rs`, `embedder.rs`) | a table | lookup (two queries), store (detached) | late stores, first one wins; failing queries |
| Telemetry (`telemetry.rs`) | a buffer | record, flush, reports | a write error half way |
| Routing and price (`route_engine.rs`, `vision.rs`, `tokens.rs`, `main.rs`) | a model registry, fixed after start | extend, classify, select, price, resolve the key | three filters written apart; preferences that must not refuse; rates that depend on a size that changes |
| Tool wire checks (`connectors.rs`, `bedrock.rs`, `main.rs`) | none | one validator per wire protocol | pairing of calls and results, ids used again |
| Compression (`supercompress.rs`) | none | squeeze, dedup | promises to be lossless, fences verbatim |
| Anthropic SSE translation (`anthropic_stream.rs`) | framer buffer, translator state | push, translate | any chunking, event order |
| Cost tracker and reports (`cost_tracker.rs`, `admin.rs`) | request_logs, shadow_comparisons | detached INSERTs; reports of one query or several | rows late or lost beside the money; rows between two queries; NULL aggregates |
| Dashboard, catalogs, vision, migrations | tables, or nothing | conversions | none |

How they interact: the auth middleware passes the SHA-256 of the client's key to
the handlers, which use it as the key for RateLimiter, LoopGuard, SpendGuard and
cache. A chat handler then reserves an estimate with SpendGuard, waits for a
permit, and calls ConnectorManager, whose connector asks the CircuitBreaker.
Afterwards it reconciles or releases, and spawns detached tasks for logs,
telemetry, cache and shadow call. A streaming handler moves its reservation into
a spawned audit task and its permit into the response body. Everything shares
memory in one process; nothing but the database survives a restart, so there is
no crash recovery to check beyond an empty start.

What makes each correct, in one line: the *breaker* lets one trial through per
half-open period, nobody while open, and comes back; *SpendGuard* keeps the
running total under the cap, never bills a client twice and never locks it out
for good; *handlers* settle each reservation at most once, streams and shadows
exactly once; *permits* are conserved and served in order; the *registry* serves
no client before its tier is known, and edits of the table take effect; *routing*
picks a model the client can call and fails only when there is none; the
*reservation* is priced for what is sent; *compression* loses nothing; the *cache*
serves a client its own whole answers; *telemetry* loses no record while the
process lives; *tokens* are fetched once, served fresh and to their own account;
a *relay* passes on and counts what the provider sent; *keys* go to their own
provider and nobody else's; a call is *settled* at what it is billed, as far as its
handler's counts and rates allow; and the
*audit trail* tells of the same calls as the spend guard's books.

## 2. Modules

| Module | Models | Composition |
|---|---|---|
| `ProviderGate` | abstract: a gate that is up, down, or on probation with at most one call | refined by `Connectors` |
| `CircuitBreaker` | the critical sections of `circuit_breaker.rs`, one provider | extended by `Connectors` |
| `Connectors` | concurrent calls through is_open, every outcome of each connector | `ImplementsGate` |
| `SpendGuard` | the critical sections of SpendGuard, one client | extended by `SpendLedger`, `Gateway` |
| `SpendLedger` | abstract: what any request may do to its reservation | refined by `Gateway` |
| `SpendWindow` | the ledger with books of the current window | extends `SpendLedger` |
| `Gateway` | the handlers, generators and tasks of five request kinds, the semaphore | `ImplementsLedger` |
| `ChatStream` | abstract: what an OpenAI client may expect of a stream | refined by `AnthropicStream` |
| `SseFramer` | cutting events out of the bytes of a body | extended by `AnthropicStream` |
| `AnthropicStream` | the generator's loop, the translator, and the client that puts the chunks together | `ImplementsChat` |
| `StreamRelay` | the two relays that translate nothing: the chat one line by line, the native one byte by byte with a copy put together into lines | |
| `RateLimiter` | the two maps of `rate_limiter.rs` | extended by `ClientRegistry` |
| `ClientRegistry` | sync task, auth store, requests that authenticate and register | |
| `ChatRequest` | a request's shape, its size, its images | extended by the next three |
| `RouteEngine` | the registry; what each way of routing may choose | extended by `Preflight` |
| `Supercompress` | `compress`: whitespace, fences, dedup | extended by `Preflight` |
| `ToolWire` | what the Anthropic, Google and Bedrock bodies accept | extended by `Preflight` |
| `Preflight` | the handlers from routing to the wire check, and the startup merge of OpenRouter's catalog | the four above |
| `ProviderHeaders` | the names of the headers that carry credentials | extended by `Access` |
| `Access` | the layers in front of the handlers and /admin, the reading of provider keys, the choice of one | |
| `Billing` | the price of a request: estimated, settled, billed | |
| `VertexTokens` | auth and its callers: cache, eviction, mutex, expiry, retry | |
| `RequestLog` | the rows every handler writes, late or never, and the reports made from them | |
| `MCPreflight`, `MCAnthropicStream`, `MCAnswers`, `MCVertexTokens` | small instances: registry and requests, bytes, questions, connections | |
| `MCStreams` | a stream by either way: `AnthropicStream` or `StreamRelay` | instantiates `StreamRelay` |
| `MCOneRequest` | one request in three views: `Access`, `Preflight`, `Billing` | instantiates two of them |
| `LoopGuard` | the history of prompts per client | extended by `Answers` |
| `SemanticCache` | the cache's table and its queries | extended by `Answers` |
| `Telemetry` | the buffer and its files | extended by `Answers` |
| `Answers` | the non-streaming handler around its provider call, with its detached tasks | the three above |
| `AdmissionProofs` | proofs of what may turn a request away | `ClientRegistry`, `SpendWindow`, `Connectors` |
| `AnswersProofs`, `RequestLogProofs` | proofs | the module they are named for |
| `GatewayProofs`, `VertexTokensProofs` | proofs | the module they are named for, `SharedLemmas` |
| `StreamProofs` | proofs of both ways of streaming | `MCStreams`, whose constants are the models' own |
| `OneRequestProofs` | proofs of the three views | `MCOneRequest`, likewise |
| `SharedLemmas` | lemmas about folds, recursive functions, sequences, and queues a waiter may leave from the middle | |

The link from `Gateway` to `SpendWindow` goes through `SpendLedger`: TLC checks
that every step of the handlers is a step of the ledger (or none of its
business), and what `SpendWindow` proves holds of every behaviour of the
ledger, its books being history only (theorem `BooksAreHistory`; they change
together with the ledger's own variables and no action reads them).

### State and code

* `circuit`, `failures`, `since_opened`, `probe_in_flight` are the fields of
  `ProviderState`; `since_opened` is the age of `opened_at`, `NotOpened` for
  None. `is_open` is `AskBreaker` (read lock), then for those who saw an expired
  open circuit `WinTrial` or `ArriveLate` (write lock). `last_failure_time` is
  written and never read: left out.
* `phase` is where a call stands: not begun, between the locks, let through.
  `trial_holder` is a history variable.
* `Recorded(k, o)` is the table of what connector `k` tells the breaker on
  outcome `o`; `Drop` is the dropped future.
* `spent`, `window_age` are the pair in the DashMap. Cents are integers: the
  f64 rounding is not modelled.
* In `Gateway`, `est` is the `estimated_cost` local (or the audit task's copy),
  `at` the await or stretch of code a request is in, `audit` the audit task with
  its channel, `available` and `waiters` the semaphore.
* In `AnthropicStream`, `pending` is the framer's buffer, `due` how many events
  of the last push are still to be translated, `started` to `usage` the fields
  of Translator, `counted` the generator's copy of the token counts. What an
  event says is chosen when it is translated, one action per kind of event, with
  `Refuse` where `translate` returns an error. `calls` is the client's side: the
  arguments it has put together, by the index in the chunks. `at` is the
  generator: in its loop, after the final chunk, after the loop, or gone.
* In `ClientRegistry`, `rows` is the table, `db_keys` and `env_keys` the two
  layers of ApiKeyStore, `limiters` and `tiers` the maps of RateLimiter;
  `todo`, `pulled`, `registering` are locals of the sync.
* In `Preflight`, the variables are the locals of the two chat handlers, which do
  the same in the same order: `chosen` is `(selected_provider,
  routing_model_id)`, `messages` and `tokens` what they are rebound to by
  compression, `long_rates` whether the rates are those of the long-context tier,
  `reserved` what the reservation was computed from, `call` the ByokRoute.
  `models` is RouteEngine's registry. Cost is not computed: the token count and
  the rates decide it. The score of `select_filtered` is floating point, so any
  eligible model may win; which are eligible, and every preference, limit, retry
  and fallback around the score, is exact. `find` is exact too, by the first
  entry of an id.
* A text is a sequence of lines, each a fence, empty, blanks, words, or words with
  blanks behind them; that is all `normalize_whitespace`, the dedup and the size
  limits look at. Tool schemas and arguments are one flag, well formed or not.
  `name` on messages is left out, and `Some([])` is not told from None.
* In `Answers`, `recent` is LoopGuard's DashMap, `rows` the table, `buffer` and
  `written` TelemetryRecorder's buffer and the lines of all its files; `tasks` are
  the detached tasks, a telemetry task's flush being a step after its push, as the
  lock is let go between. `answer` and `asked`, `pushed`, `failures` and
  `restarts` only remember what happened. The prompt hashes are taken to be injective.
  Routing and money are one step there, as they are `Preflight`'s and `Gateway`'s.
* In `VertexTokens`, `tokens` is the DashMap from cache keys to slots, `cached` and
  `lock` a slot's content and its tokio mutex with the queue for it (its head has
  it), `reading` the shard whose read guard a caller's iterator holds. `asked` is the
  `now` read under the mutex before the POST, `bearer` the token a caller was given.
  DashMap is external: one reader-writer lock a shard, which blocks the thread; its
  calls are atomic but for the eviction, whose read guard outlives the call.
* In `StreamRelay`, a line has three parts, so that a piece of the body can end in its
  prefix or in its payload; `shown` is what the client was sent, by line and part;
  `input`, `output` and `buffer` are in_tok, out_tok and line_buf. The native relay's
  `as u32` is `AsU32`; a provider's counts are taken to fit.
* In `Access`, `headers` is the request's header map as the layers rewrite it, `client`
  the id the handler reads from it, `call` the provider and key that are used.
* In `Billing`, `rates` are the handler's two rates, `reserved` the estimate's cost,
  `settled` what reconcile or release leaves; counts are u32 of `Bits` bits. Each
  handler settles on counts of its own (`SettledCounts`): a chat on the input it
  counted itself, before the call, and the output reported; a stream, a shadow call
  and a native call on what the provider reported. If the usage is left out
  (`reported` is None) a stream is settled at nothing and a native call on the
  handler's own estimate of its input; a connector may take it for a failure.
  A stream's rates are looked up again (`SettlementRates`), all others are kept.
* In `RequestLog`, `kept` is what SpendGuard keeps for a request's call and
  `shadow_kept` for its shadow's; `inserts` are the INSERTs under way. Of a latency
  column only whether it is NULL is modelled.

## 3. Runs

| Run | Instance | Question and answer |
|---|---|---|
| `breaker` | 5 calls, threshold 3, reset 3 ticks, Anthropic connector | fields agree, half-open lets one call in, open none, an open circuit is tried again, a half-open period ends unless its trial was lost: holds |
| `breaker_lost_trial` | 3 calls, Vertex connector | does a half-open period always end? No: a trial that leaves without a report keeps the probe slot |
| `spend` | 3 requests, cap 3, estimates 1 and 2, actuals 1 and 3, window 1 tick | the total's and the bill's ceilings, no double charge, the end of a lockout: hold |
| `gateway` | 3 requests of any kind, 1 permit, cap 2, one estimate | permits conserved, ledger protocol, streams and shadows settle, reservations end if clients read on or hang up: holds |
| `gateway_release` | 2 requests | is release only for calls that were never billed? No: a client that leaves in mid-stream |
| `registry` | 1 key, 2 tiers, 2 requests, 1 misspelt tier name | nobody served before registered, revocation, provisioning, tier changes arrive: holds |
| `streams` | translated: 2 blocks (0 and 2), texts of at most 2 characters, frames of at most 3 bytes, 5 pieces of body; relayed: 3 lines of 7 kinds in pieces that start up to 2 | does the client see a stream as `ChatStream` promises, with the tool calls that were checked and the counts that are billed, however the bytes are cut? Does a relay pass on and count exactly, the chat one at least while no line is cut? Holds |
| `one_request` | 7 curated models, a catalog of 3, 22 000 requests with keys: routing, compression of every text of up to 4 lines and talk of up to 5 messages, tool conversations of up to 4; 3 000 combinations of one or two provider headers, key, forged id and token; two models, counts of three bits | is a picked model callable and one that sees, is a refusal needed, is the reservation for what is sent, is nothing lost, are tool results paired? Do keys stay with their provider and ids with their key? Is a call settled within its reservation, and at its bill but for what a chat's own count is out by? Holds |
| `answers` | 3 requests out of 6 questions, threshold 2, history 1, buffer 2, one restart or failed flush | own and whole answers, exact loop guard, telemetry kept: holds |
| `vertex` | 2 callers of 3 connections in 2 shards, one entry, margin 1, lifetimes 0 and 2, clock to 1 | one fetch a connection, a retry with a new token, nothing stale served, nobody waits for a mutex for ever: holds |
| `vertex_evict` | 2 callers of 2 connections in one shard | does every call of auth come back? No: the one that evicts waits for itself |
| `request_log` | 2 requests, 2 clients, one failed INSERT | do rows and spend guard tell of the same calls, do reports of several queries add up? Holds |

The nine passing runs check everything they list in one go; each property has a
mutant, a defect put into one definition, that breaks it, and a property that is
a conjunction has one for more than one of its parts. The three violation runs
are the gravest disagreements between what a comment or the README of the
repository says and what the code does; `PROJECT.json` quotes the lines under
`findings`, with twenty-one more that have no run. Fifteen of those are stated as
properties of their modules and are violated as well, so that who mends the code
has something to check:

* `TrialWaitsForReset` (`Connectors`; 3 calls, OpenAI-compatible, the other
  constants as in `Connectors_lost_trial.cfg`): a late claim starts a second trial
  at once. `HardCeiling` (`SpendWindow`; cap 2, actuals {1}): an earlier window's
  credit. `QuotaFollowsTier` (`ClientRegistry`; the run's constants): overlapping
  registers.
* `CatalogSlugKept` and `NoNewAdjacency` (`Preflight`), `CountOnlyEstimates`,
  `NativeIsExact`, `OwnAccountIsFree` and `StreamTierKept` (`Billing`),
  `TokenIsUsable` (`Access`): with the constants of `MCOneRequest`.
* `CutsDoNotCost` (`StreamRelay`, the constants of `MCStreams`), `RefusedTwice`
  (`VertexTokens`), `ClientsAnswered`, `FailuresNotAveraged` and
  `EveryRequestLogged` (`RequestLog`): with the constants of their runs.

The others need no model: a breaker hook nobody calls, a header that claims a
breaker the native endpoint does not have, a concurrency cap that does not see that
endpoint, a header that describes a release the code does not do, tool requests
that are routed to connectors that refuse them, streams that are settled to nothing
because nobody asks for usage.

### Bounds, and why they are enough

* `breaker`: threshold 3 needs three failures; five calls are three stragglers
  to trip it, one that claims and one that arrives late. Failures saturate at
  the threshold and the age at RESET_TIMEOUT + 1, since the code only compares
  them with these. Anthropic has all outcomes and records timeouts; the proofs
  are for every connector kind, number of calls, threshold and timeout.
* `spend`: two estimates and two actuals give an overrun, an exact call and a
  credit; three requests can straddle a window. One client, because no
  operation touches two entries.
* `gateway`: one permit makes everybody queue; three requests are one at the
  provider and two in the queue, or a chat, its shadow and a stream. Actuals 0
  and 2 around the estimate 1 tell release from reconcile. Window 0 lets the
  window roll over at any point.
* `streams`: two blocks interleave, and their indexes have a gap, so that a block
  index is not a tool index by accident. Of arguments there are "{}" in one part, an
  object in two halves, and what is neither; longer texts differ in nothing the
  translator looks at. Three pending bytes hold an empty line that is cut anywhere;
  pieces are single bytes, a whole frame with the head of the next, and a frame that
  is not UTF-8. Token counts are reduced modulo 4 as the code's are modulo 2^32. A
  relayed stream has three lines: usage that is reported, reported again, and cut or
  followed by [DONE]. Streams end, so deadlock is not checked.
* `registry`: keys do not interact except through the sync's order, which the
  proof covers for every set of keys; two keys are beyond TLC's time here. Two
  requests suffice for the overlap of register with itself and with the sync.
* `one_request`: the steps of one request share nothing with another's but the
  registry, which is fixed once serving starts, and the spend guard, which is
  `SpendWindow`'s; so one request at a time is all behaviours, and the run is one
  over inputs. The registry has a model of each kind routing tells apart: cheap and dear,
  seeing and blind, small and large window, tiered, disabled, preferred, one whose
  id is a slug as well; the catalog has that slug, a new one, and it again. Sizes
  and prices are on a small scale with the order of the real ones, and the
  requests lie on both sides of every limit. Five messages are a run with a turn on either
  side; the server mode is `on`, because the default, audit, sends what came. Two
  provider headers are together only if one call looks at both: two names of one
  provider, or OpenRouter's and another's; every name of the three tables occurs in
  a token. Three bits hold every overflow: of a limit in its cast, of a sum, and of a
  product if it were computed in the width of the counts. The three views share no
  state the code does not pass on as a value (a key that was found, a model that was
  chosen), and each is checked for all of them; every view ends, so deadlock is not
  checked.
* `answers`: three requests are one that stores, one that reads and one between.
  The questions differ in one thing each, so that a key that forgets one of them
  is found. History 1 and threshold 2 make the cap and the window bite; times are
  0 and 1 with window 0, an entry of the same instant and one that has expired.
  One mishap (failed flush or restart) per behaviour. Requests are symmetric, and
  no liveness is checked.
* `vertex`: one entry makes every second connection evict; two callers are one with
  the mutex and one that waits, evicts or retries; the three connections share an
  account, a project, or nothing. A token of lifetime 0 is stale as it arrives, one of
  2 is fresh for one tick at margin 1. A caller calls once: what it leaves in the
  map meets the other's call.
* `request_log`: two requests, one of whose rows arrives between two queries; one
  estimate between two actuals; one lost row. Requests end, so deadlock is not checked.
* Elsewhere a slot (call, request) is reused when it ends, so the number of requests over
  time is unbounded; only concurrency is bounded. Symmetry is not used
  there, because those runs check liveness.

### Fairness, and why the code justifies it

* A thread inside is_open, a task that is not at an await it must wait on, and
  the sync task between two awaits do run on: weak fairness of the tokio
  runtime.
* In `Gateway`, what runs up to the head of a response ends (`FairSpec`): the
  connectors' HTTP client has a 30 s timeout, a shadow call's too, and TimeoutLayer
  drops a handler after 60 s. An audit task that has something to receive runs.
* The body of a response is beyond both: it is polled only while the client reads
  it, no timeout of the code's is on it, and a stream's call to the provider is part
  of it. `ReservationsEnd` therefore assumes, by name, `ClientsReadOn`: that a
  client goes on reading, and its provider's part comes or breaks off, or that the
  client hangs up. Without it the claim is false (`NoneHeldForEver`, checked as a
  property with the constants of the run, is violated): a client that stays
  connected and reads no more keeps its permit and its reservation for ever, and
  the generators in the queue wait behind it.
* In `VertexTokens` threads run and the HTTP client ends every POST by its timeout;
  nothing makes Google issue a token, nothing lets a blocked thread go on.
* Time passes (`Tick`) where a property is about a timeout or a window.
* `TrippedIsRetried` and `CapLockoutEnds` assume traffic: a provider nobody
  calls is never tried, and a window nobody asks for is never reset.
* The sync's `Pull` is strongly fair: the database is not down at every attempt.
  Nothing is assumed of edits to the table or of arrivals, and of clients nothing but
  `ClientsReadOn`.

## 4. Proofs

Each proof states an inductive invariant, shows that the initial states have it
and that every action keeps it, and draws the theorems from it. Where a
module puts several components side by side, each has an invariant of its own,
since they share no variable.

`AdmissionProofs`, of what may turn a request away:

* `ClientRegistry` (`RegistryTypes`, `ServedOnlyRegistered`). `RegistryInv`
  says that a key known to the store's snapshot has both its limiter and its
  tier, that a row the sync has done with has them too, and that a request that
  finds no tier is one the environment let in; registries only ever grow.
* `SpendWindow` (`SpendTypes`, `CapHolds`, `WindowBillHolds`, `NoPhantomCharge`,
  `BooksAreHistory`). `committed` is a sum over unsettled requests; for the
  ceilings `SpendInv` bounds `spent` and the bill with the books as plain numbers,
  from `AdjustedBounds`, what settling can do to the total. That is not enough for
  `NoPhantomCharge`: giving a reservation back takes its estimate off `committed`,
  and whether `spent` falls with it depends on the estimate being in the sum.
  `PhantomInv` adds `Backed`: what is committed covers what this window's open
  reservations hold together, so that one of them can be taken out.
* `Connectors` (`BreakerTypes`, `BreakerStaysConsistent`, `HolderStaysTrial`,
  `ConnectorsImplementGate`). `BreakerConsistent` alone is inductive with the types;
  the holder needs in addition that it is admitted. The refinement maps each step
  on a step of `ProviderGate` or a stutter; the late arrival stutters because the
  probe flag is up exactly in HalfOpen.

`AnswersProofs` (`OwnAnswersOnly`, `TelemetryIsKept`, `LoopGuardIsExact`,
`AnswersTypes`), for any requests, clients and questions, every window, threshold,
cap and buffer size, and any number of mishaps:

* `CacheInv` says of each row and of each store task what `OwnAnswers` says of a
  served request: its author has answered, for good, without tool calls, and the
  key is its question's. An author never changes again, which is why late stores
  do no harm.
* `FilesInv` is `TelemetryKept` itself with the types: the buffer is the end of what
  was pushed. It needs that a flush moves the whole buffer and a failed one keeps it.
* `GuardInv` ties the window a client's entry holds to everything the client ever
  asked: the entry is the last questions of the client, in order and at their
  times, no more than the cap, and what is not in it was dropped by age or by the
  cap and stays droppable. Counting repeats in the entry is then counting the
  questions `LoopExact` names, by a bijection of the two sets of indexes.

`OneRequestProofs`, for any requests, keys, registries, catalogs, prices, limits and
widths (`MCOneRequest` declares them all as constants; its small sets are given to
TLC only in the cfg and are nowhere expanded):

* `CredentialsAlwaysHold`. `KeysInv` says what the headers are at each layer as a
  function of what was sent: `Admitted(Carried)` behind both. It rests on a lemma
  about the two tables of names, the bridge's and the reader's (`TablesAgree`): they
  are written apart in the code, and a row of one that disagreed with the other
  would be the defect `CredentialsHold` is about.
* `ReservationAlwaysCovers`, `SettledIsBilled`. `PriceInv` says per stage which rates
  and counts the locals hold; the rest is monotony of the price in counts and in
  the tier (`PricesRise`), and for a chat, which is settled on the input it was
  reserved by, that its cost differs from the bill by its miscount at the rate of
  the input.
* `PickedAlwaysFits`, `NeverRefusedNeedlessly`, `ReservedIsForSent`. `PathInv` says that
  the registry has one entry an id, before and after the catalog is merged into
  it, that `messages`, `tokens` and `long_rates` belong together at each step, and
  that a model routing chose is one it may choose (`RoutedWell`). The lemmas behind
  it: what `InOrder` enumerates, so that merging, preferring and dropping by index
  are proved without recursion; that whatever is eligible for the unlimited
  selection survives limits, preferences and fallbacks; and that compression keeps
  every image, in order, and leaves no message whose roles, calls or answers it has
  made up.

* `ToolResultsAlwaysPaired`. The validators are a fold over the conversation that
  opens an id with a call and closes it with a result. The invariant of that fold
  (`Balanced`, for every beginning of the conversation) is that of an id's calls so
  far at least as many were made as answered, and one more if it is open: counting
  by cardinality, so that ids which come again are told apart by their places. From
  there to `messages` needs that a conversation with tools is never compressed.
* `CompressionAlwaysKeeps`. A text is followed through `normalize_whitespace` one line
  at a time: `PassKeeps` says of every beginning of it that what has been put out has
  the same words, the same fenced blocks and a fence open or not as in the text, and
  that the pass would leave it alone; trimming the end takes lines without ink and
  blanks behind the last word, and leaves neither. Fence or not is the same in the
  text and in the output, which is why a block is copied and not trimmed. Of a
  message that is dropped as a repetition the least earlier one like it stays, so
  following repetitions back ends at something that is sent.

`StreamProofs`, of `MCStreams`. `StreamsAreTranslated` says that the composition of the
two ways implements each, so that what follows holds of either.

* `StreamImplementsChat`, `CallsAlwaysMatch`, `AlwaysBilledAsShown`, `EndAlwaysMarked`,
  `TranslatorTypes`, of the translation. The invariant has two parts. That of the tool
  calls adds to `CallsMatchTools` that the client's indexes are exactly those given
  out, so that a new one is new, and that ended tools hold objects, so that the final
  chunk may be sent; three kinds of event touch it, and the end of a block without
  arguments is an extension by "{}". That of the control ties where the generator
  stands to what the client has seen. Nothing is needed of the framer.
* `ChunkingNeverShows`, `StreamTypes`, of the framer. `Drain` is a recursive function
  on byte sequences; that there is such a function is a lemma (`RecursionExists`), as
  the tail it goes on with is shorter. The argument is that draining `p \o q` is
  draining p and then what was left of it with q (`DrainJoins`): a boundary found in p
  is the first boundary of `p \o q` too, as two boundaries cannot overlap. What is held between pieces then has no boundary and is within the
  limit (`FramerInv`), as the check comes after the drain.
* `RelaysAlwaysExact`, of the relays. `ChatInv` says that what was relayed are the
  lines so far in order, each once, and while no line is cut that the counts are those
  the lines before [DONE] gave, the last of each; `NativeInv` that the buffer is the rest of the one line
  that has not ended and the counts are those of the whole lines, wherever cuts are.
  The line that follows [DONE] is never relayed, since the loop has been left.

`SharedLemmas` holds no theorem but what the others need: that a fold over a sequence,
which the community modules define by a recursion on sets, has a trace with one
value for every beginning of the sequence (`FoldExists`, `TraceOf`), by which a fold
is followed step by step; counting up to a number in place of an induction theorem
(`Counting`); and of tokio's queues, in which nobody stands twice, what joining,
being served and leaving (the future is dropped) do to who is in them and who is first.

`GatewayProofs` (`TypeCorrect`, `PermitsHold`, `ServiceInOrder`,
`LedgerImplemented`, `StreamsSettle`). `PermitsAccounted` is not inductive by
itself: nobody who needs no permit may be in the queue, and that depends on
where requests stand. `Standing` says for each place whether there is a
reservation, an audit task, a need for a permit; it is what makes a permit
return exactly once and every action a step of `SpendLedger` or a stutter.
Permits are counted by the cardinality of their holders, and here the set of
requests must be finite. A stream's settling needs in addition that its task
knows how far the generator is.

`VertexTokensProofs` (`TypeCorrect`, `OwnTokenHolds`, `OneFetchHolds`,
`RetryGetsNew`, `ServedFreshHolds`). A slot can be evicted and made again while
callers are at it, so none of these follows from the map alone. `IInv` says whose a
slot is for ever (its maker's connection), that what it holds was fetched for
that connection and lasts at least as long as it is thought to, that a slot's
queue is the callers between lock and unlock, and that such a caller is at the
slot its key now has: nothing is ever removed, since the caller that evicts
blocks (see `vertex_evict`). Who mends that must weaken the last part: with
removal a slot made again has a queue of its own, so `OneFetch` would have to go;
the others need of a caller's slot only that it is its connection's.

`RequestLogProofs` (`TypeCorrect`, `TrailFollowsMoney`, `ReportsAlwaysAddUp`). The
invariant is about `Written`, all rows in the table, under way and lost: a
row arriving or failing leaves it alone, and the other steps add one row at
most. A row then tells how its request ended, which never changes again,
and a report's first figure is bounded by what the table has now, which only
grows. Tables of any finite size; they are finite because rows come one by one.

Assumptions are the ASSUMEs of the modules: a threshold of at least one, a reset
timeout, cap and windows in Nat, estimates and actuals in Nat, placeholders
outside the sets they extend, a default tier that is a tier; of tool arguments,
that "{}" is an object, fits the limit, and the empty text is none; of streams, that
pieces of body are byte sequences, lines have a kind and counts that fit the u32
they are read into, only usage lines count, and there is a bound on pieces; of the
gateway, that the requests are a finite set; of tokens, that margin and lifetimes are
in Nat and that the connection with an API key is not among those with an account;
of answers, that every question's client is one, and bounds of time and of mishaps
in Nat; of routing, that the curated registry, which is a literal in the code, has
each id once (a catalog may repeat ids, its own or the registry's), that registry
and catalogs are finite sequences and requests are well-formed ones; of prices, that
rates do not fall at the long-context threshold, as none in the code's table does.

What the attempts to prove taught about the models: some selections in the code are
chains of `if`s of which the first that holds counts (the routing header, the
difficulty, the vision candidates, the lines of a relay), and a CASE with guards that
overlap leaves open which arm is taken; they are chains in the models now.

A fold with an anonymous operator cannot be followed step by step by an outside
lemma, and a property put as a closed form (which places of a text are inside a
fence) could not be tied to a pass over it: `Words` and `FencedLines` are folds now,
line by line like the code they are about. TLC found them equal to the closed forms
they replace on all texts of up to six lines.

Only model-checked: liveness (`TrippedIsRetried`, `TrialResolvesOrIsLost`,
`CapLockoutEnds`, `ReservationsEnd`, `LockWaitEnds`, and of `ClientRegistry`
`RevocationTakesEffect`, `ProvisioningTakesEffect` and `TierTakesEffect`), which is
out of the prover's reach. Every invariant, every action property and every
refinement that a passing run checks is a theorem.

## 5. Not modelled, and why

* Formatting and translation of requests and responses: the JSON the connectors,
  Bedrock and vision build, SigV4 and JWT signing, the fields of catalog entries,
  the parameter policies that strip what a model does not take. No state and no
  order in it; a model would be the code again.
* Reports that are one aggregate of one table (models, routing, organizations,
  telemetry's summary and CSV), and the dashboard, a static page. What reports
  do in several queries is in `RequestLog`.
* Numeric code: embedder, tokeniser, routing score, f64 rounding of money.
* The internals of governor, DashMap, tokio and Postgres: external, modelled by what
  they promise (a shard's lock, a fair queue, a conflict that does nothing).
* Read-only endpoints (models, health, count_tokens), and the routing registry's
  `set_enabled`, which only tests call.

Of what is modelled: token counting never fails, compression's audit record is
left out (it is logged and nothing else), and the loop guard's clock is read under
its lock, which the code does just before.

## 6. Plan

Done: all parts of section 1 that keep state, and the proofs of section 4.

Left is what would need other tools. For liveness: a prover that handles ENABLED and
fairness. For parts that are conversions: a check against the code itself, with the
texts TLC enumerates given to `compress`, the framer and the validators as test
inputs. And when the findings are mended, the properties that state them (section
3) join their runs, and the invariants that make room for them (`VertexTokens`'
map from which nothing is removed, `RelaysExact` for streams that are not cut) change
as section 4 says.
