------------------------------- MODULE Answers -------------------------------
(***************************************************************************)
(* What handle_non_streaming (main.rs) does around a provider call: the    *)
(* loop guard in front of it, the semantic cache beside it, and the        *)
(* detached tasks it leaves behind, which fill the cache and the telemetry *)
(* file.  Concurrent requests, dropped handlers, failing queries and       *)
(* writes, and restarts of the process.  Routing and money are Preflight's *)
(* and Gateway's; here they are one step that answers or fails.            *)
(***************************************************************************)
EXTENDS LoopGuard, SemanticCache, Telemetry

CONSTANTS
  Requests,
  Questions,    \* the bodies sent: [client, model, prompt, cacheable]
  NoPrompt,     \* the prompt_text of a body without a user message
  Nobody,
  MaxTime, MaxMishaps   \* bounds of the runs: the clock, failed flushes and restarts

ASSUME QuestionsAssumption ==
  \A q \in Questions : q.client \in Clients /\ q.cacheable \in BOOLEAN
ASSUME BoundsAssumption == MaxTime \in Nat /\ MaxMishaps \in Nat

VARIABLES
  pc,        \* where each request's handler is; over: it ended with an error
  question,  \* its body, once it has come in
  answer,    \* the request a provider's call for which made its answer
  calls,     \* the requests whose provider answered with tool calls
  tasks,     \* the tasks spawned and not over, <<what, request>>
  \* what happened so far, for the properties only:
  asked,     \* the loop guard's calls since the start, with what it said
  pushed,    \* the records handed to telemetry that no restart has lost
  failures, restarts

handlers == <<pc, question, answer, calls>>
books == <<asked, pushed, failures, restarts>>
vars == <<recent, now, rows, buffer, written, handlers, tasks, books>>

NoQuestion == [client |-> Nobody]

Init ==
  /\ LoopInit /\ CacheInit /\ TelemetryInit
  /\ pc = [r \in Requests |-> "idle"]
  /\ question = [r \in Requests |-> NoQuestion]
  /\ answer = [r \in Requests |-> Nobody]
  /\ calls = {} /\ tasks = {}
  /\ asked = <<>> /\ pushed = <<>> /\ failures = 0 /\ restarts = 0

Goto(r, place) == pc' = [pc EXCEPT ![r] = place]

\* cacheable_chat_request, and a prompt to look up.
Cacheable(q) == q.cacheable /\ q.prompt # NoPrompt

FirstStop(q) == IF Enabled /\ Cacheable(q) THEN "exact" ELSE "call"

-----------------------------------------------------------------------------

\* A body comes in.  Nothing is awaited from the rate limiter to the lookup.
RateLimited(r, q) ==
  /\ pc[r] = "idle"
  /\ question' = [question EXCEPT ![r] = q]
  /\ Goto(r, "over")
  /\ UNCHANGED <<recent, now, rows, buffer, written, answer, calls, tasks, books>>

AskWithoutPrompt(r, q) ==
  /\ pc[r] = "idle" /\ q.prompt = NoPrompt
  /\ question' = [question EXCEPT ![r] = q]
  /\ Goto(r, FirstStop(q))
  /\ UNCHANGED <<recent, now, rows, buffer, written, answer, calls, tasks, books>>

Ask(r, q) ==
  /\ pc[r] = "idle" /\ q.prompt # NoPrompt
  /\ question' = [question EXCEPT ![r] = q]
  /\ Record(q.client, q.prompt)
  /\ Goto(r, IF IsLoop(q.client, q.prompt) THEN "over" ELSE FirstStop(q))
  /\ asked' = Append(asked, [client |-> q.client, prompt |-> q.prompt, at |-> now,
                             refused |-> IsLoop(q.client, q.prompt)])
  /\ UNCHANGED <<rows, buffer, written, answer, calls, tasks, pushed, failures, restarts>>

ServeRow(r, row) ==
  /\ answer' = [answer EXCEPT ![r] = row.response]
  /\ Goto(r, "served")
  /\ UNCHANGED <<recent, now, rows, buffer, written, question, calls, tasks, books>>

HitExact(r) ==
  /\ pc[r] = "exact"
  /\ \E row \in ExactHits(question[r]) : ServeRow(r, row)

HitSimilar(r) ==
  /\ pc[r] = "similar"
  /\ \E row \in SimilarHits(question[r]) : ServeRow(r, row)

\* No row, or no answer from the database, which counts as none: both queries
\* can so miss whatever the table holds.  Without an embedding the second is
\* not made.
Miss(r) ==
  /\ \/ pc[r] = "exact" /\ Goto(r, "similar")
     \/ pc[r] \in {"exact", "similar"} /\ Goto(r, "call")
  /\ UNCHANGED <<recent, now, rows, buffer, written, question, answer, calls, tasks, books>>

Storable(r, with_calls) ==
  Enabled /\ Cacheable(question[r]) /\ ~with_calls

Answered(r) ==
  /\ pc[r] = "call"
  /\ \E with_calls \in BOOLEAN :
       /\ calls' = IF with_calls THEN calls \union {r} ELSE calls
       /\ tasks' = tasks \union {<<"record", r>>}
                   \union (IF Storable(r, with_calls) THEN {<<"store", r>>} ELSE {})
  /\ answer' = [answer EXCEPT ![r] = r]
  /\ Goto(r, "answered")
  /\ UNCHANGED <<recent, now, rows, buffer, written, question, books>>

\* The provider, or one of the checks before the call, says no.
Failed(r) ==
  /\ pc[r] = "call"
  /\ Goto(r, "over")
  /\ UNCHANGED <<recent, now, rows, buffer, written, question, answer, calls, tasks, books>>

\* The client leaves, or TimeoutLayer does.
Drop(r) ==
  /\ pc[r] \in {"exact", "similar", "call"}
  /\ Goto(r, "over")
  /\ UNCHANGED <<recent, now, rows, buffer, written, question, answer, calls, tasks, books>>

-----------------------------------------------------------------------------
\* The detached tasks.

EndTask(t) == tasks' = tasks \ {t}

Store(r) ==
  /\ <<"store", r>> \in tasks
  /\ Insert(question[r], answer[r])
  /\ EndTask(<<"store", r>>)
  /\ UNCHANGED <<recent, now, buffer, written, handlers, books>>

StoreFails(r) ==
  /\ <<"store", r>> \in tasks
  /\ EndTask(<<"store", r>>)
  /\ UNCHANGED <<recent, now, rows, buffer, written, handlers, books>>

RecordTelemetry(r) ==
  /\ <<"record", r>> \in tasks
  /\ Push(r)
  /\ tasks' = (tasks \ {<<"record", r>>})
              \union (IF Full' THEN {<<"flush", r>>} ELSE {})
  /\ pushed' = Append(pushed, r)
  /\ UNCHANGED <<recent, now, rows, handlers, asked, failures, restarts>>

\* With nothing buffered there is nothing to write.
Flush(r) ==
  /\ <<"flush", r>> \in tasks
  /\ WriteAll
  /\ EndTask(<<"flush", r>>)
  /\ UNCHANGED <<recent, now, rows, handlers, books>>

FlushFails(r) ==
  /\ <<"flush", r>> \in tasks /\ buffer # <<>>
  /\ failures + restarts < MaxMishaps
  /\ \E n \in 0 .. Len(buffer) : WriteFails(n)
  /\ EndTask(<<"flush", r>>)
  /\ failures' = failures + 1
  /\ UNCHANGED <<recent, now, rows, handlers, asked, pushed, restarts>>

\* The process dies and is started again: only the database and the files
\* are left.  What was buffered is lost, for nothing flushes at the end.
Restart ==
  /\ failures + restarts < MaxMishaps
  /\ recent' = [c \in Clients |-> <<>>] /\ buffer' = <<>> /\ tasks' = {}
  /\ pc' = [r \in Requests |->
              IF pc[r] \in {"exact", "similar", "call"} THEN "over" ELSE pc[r]]
  /\ asked' = <<>>
  /\ pushed' = SubSeq(pushed, 1, Len(pushed) - Len(buffer))
  /\ restarts' = restarts + 1
  /\ UNCHANGED <<now, rows, written, question, answer, calls, failures>>

Tick ==
  /\ now < MaxTime
  /\ LoopTick
  /\ UNCHANGED <<rows, buffer, written, handlers, tasks, books>>

Next ==
  \/ \E r \in Requests, q \in Questions :
       RateLimited(r, q) \/ AskWithoutPrompt(r, q) \/ Ask(r, q)
  \/ \E r \in Requests :
       \/ HitExact(r) \/ HitSimilar(r) \/ Miss(r)
       \/ Answered(r) \/ Failed(r) \/ Drop(r)
       \/ Store(r) \/ StoreFails(r)
       \/ RecordTelemetry(r) \/ Flush(r) \/ FlushFails(r)
  \/ Restart
  \/ Tick

Spec == Init /\ [][Next]_vars

-----------------------------------------------------------------------------

Places == {"idle", "exact", "similar", "call", "answered", "served", "over"}

\* Types, and the limit of a client's history: however long the window, no
\* client holds more than MAX_HISTORY_PER_CLIENT entries.
TypeOK ==
  /\ \A c \in Clients : /\ Len(recent[c]) <= MaxHistory
                        /\ \A i \in DOMAIN recent[c] : recent[c][i].at \in 0 .. now
  /\ now \in 0 .. MaxTime
  /\ \A row \in rows : row.response \in Requests
  /\ pc \in [Requests -> Places]
  /\ question \in [Requests -> Questions \union {NoQuestion}]
  /\ answer \in [Requests -> Requests \union {Nobody}]
  /\ calls \subseteq Requests
  /\ tasks \subseteq {"store", "record", "flush"} \X Requests
  /\ \A records \in {buffer, written, pushed} :
       \A i \in DOMAIN records : records[i] \in Requests

\* An answer out of the cache was made by a provider, whole and without tool
\* calls, for a cacheable question of the same client to the same model, with
\* the same prompt or one similar to it - across other requests' late stores,
\* failed queries and restarts.
OwnAnswers ==
  \A r \in Requests : pc[r] = "served" =>
    LET mine == question[r]
        theirs == question[answer[r]]
    IN /\ pc[answer[r]] = "answered" /\ answer[r] \notin calls
       /\ Cacheable(mine) /\ Cacheable(theirs)
       /\ theirs.client = mine.client /\ theirs.model = mine.model
       /\ theirs.prompt = mine.prompt \/ Similar(theirs.prompt, mine.prompt)

\* The prompts of the same client the guard still knew when it was asked for
\* the i-th time: of its last MaxHistory, those within the window.
KnownTo(i) ==
  LET mine == {j \in 1 .. i - 1 : asked[j].client = asked[i].client}
  IN {j \in mine : /\ Cardinality({k \in mine : k > j}) < MaxHistory
                   /\ asked[i].at - asked[j].at <= Window}

\* A request is refused as a loop exactly when it is the Threshold-th of its
\* client with this prompt in the window, as far as the history goes; it
\* counts whether it was answered, refused or dropped, and nobody else's does.
LoopExact ==
  \A i \in DOMAIN asked :
    asked[i].refused
      <=> Cardinality({j \in KnownTo(i) : asked[j].prompt = asked[i].prompt}) + 1
            >= Threshold

\* No record is lost but to a restart: what is not buffered any more is in a
\* file; unless a write has failed, it is there once and in order; and a
\* buffer is full only while somebody is about to flush it, or after a flush
\* that failed.
TelemetryKept ==
  LET flushed == SubSeq(pushed, 1, Len(pushed) - Len(buffer))
  IN /\ pushed = flushed \o buffer
     /\ \A i \in DOMAIN flushed : \E j \in DOMAIN written : written[j] = flushed[i]
     /\ failures = 0 => written = flushed
     /\ Full => failures > 0 \/ \E t \in tasks : t[1] = "flush"

=============================================================================
