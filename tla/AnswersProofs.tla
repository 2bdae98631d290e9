---------------------------- MODULE AnswersProofs ----------------------------
(***************************************************************************)
(* What handle_non_streaming and the tasks it leaves behind keep, for all  *)
(* requests, clients and questions, every window, threshold, history and   *)
(* buffer size, and however often a query or a write fails:                *)
(*   - an answer out of the cache is one's own client's (OwnAnswers);      *)
(*   - no telemetry record is lost but to a restart (TelemetryKept);       *)
(*   - the loop guard refuses exactly the repeats it knows of (LoopExact). *)
(* The three read different variables, so each has an invariant of its own.*)
(***************************************************************************)
EXTENDS Answers, FiniteSetTheorems, FunctionTheorems, SequenceTheorems, TLAPS

USE QuestionsAssumption, BoundsAssumption, LoopGuardAssumption,
    TelemetryAssumption, CacheAssumption

-----------------------------------------------------------------------------
(***************************************************************************)
(* The cache.                                                              *)
(***************************************************************************)

HandlerTypes ==
  /\ pc \in [Requests -> Places]
  /\ question \in [Requests -> Questions \union {NoQuestion}]
  /\ answer \in [Requests -> Requests \union {Nobody}]
  /\ calls \subseteq Requests

\* A request whose answer may be stored: its provider has answered it, for
\* good, and not with tool calls.
Author(r) == pc[r] = "answered" /\ r \notin calls /\ Cacheable(question[r])

\* A row holds the answer of the request it is keyed by.
RowIsOwn(row) ==
  /\ row.response \in Requests
  /\ Author(row.response)
  /\ row.key = CacheKey(question[row.response])

\* What a task that is to store an answer will find.
StoresOwn(r) == <<"store", r>> \in tasks => Author(r) /\ answer[r] = r

\* What a request that was served out of the cache got.
ServedOwn(r) ==
  pc[r] = "served" =>
    /\ answer[r] \in Requests /\ Author(answer[r])
    /\ Cacheable(question[r])
    /\ question[answer[r]].client = question[r].client
    /\ question[answer[r]].model = question[r].model
    /\ \/ question[answer[r]].prompt = question[r].prompt
       \/ Similar(question[answer[r]].prompt, question[r].prompt)

\* The inductive invariant: OwnAnswers only speaks of who was served; what
\* they were served with was a row before, and a detached task before that.
CacheInv ==
  /\ HandlerTypes
  /\ \A r \in calls : pc[r] = "answered"
  /\ \A r \in Requests : pc[r] \in {"exact", "similar"} => Cacheable(question[r])
  /\ \A row \in rows : RowIsOwn(row)
  /\ \A r \in Requests : StoresOwn(r) /\ ServedOwn(r)

LEMMA CacheInvInit == Init => CacheInv
BY DEF Init, CacheInit, CacheInv, HandlerTypes, StoresOwn, ServedOwn, Places

\* Once its provider has answered, nothing about a request changes any more.
LEMMA AuthorsStay ==
  ASSUME CacheInv, [Next]_vars, NEW r \in Requests, Author(r)
  PROVE  Author(r)' /\ question'[r] = question[r] /\ answer'[r] = answer[r]
<1> USE DEF CacheInv, HandlerTypes, Author, Cacheable
<1>1. CASE UNCHANGED vars
  BY <1>1 DEF vars, handlers
<1>2. ASSUME NEW s \in Requests, NEW q \in Questions,
             RateLimited(s, q) \/ AskWithoutPrompt(s, q) \/ Ask(s, q)
      PROVE  Author(r)' /\ question'[r] = question[r] /\ answer'[r] = answer[r]
  <2>1. s # r
    BY <1>2 DEF RateLimited, AskWithoutPrompt, Ask
  <2>2. pc'[r] = pc[r] /\ question'[r] = question[r] /\ UNCHANGED <<answer, calls>>
    BY <1>2, <2>1 DEF RateLimited, AskWithoutPrompt, Ask, Goto
  <2> QED BY <2>2
<1>3. ASSUME NEW s \in Requests,
             \/ HitExact(s) \/ HitSimilar(s) \/ Miss(s) \/ Answered(s)
             \/ Failed(s) \/ Drop(s)
      PROVE  Author(r)' /\ question'[r] = question[r] /\ answer'[r] = answer[r]
  <2>1. s # r
    BY <1>3 DEF HitExact, HitSimilar, Miss, Answered, Failed, Drop
  <2>2. /\ pc'[r] = pc[r] /\ question'[r] = question[r] /\ answer'[r] = answer[r]
        /\ calls' = calls \/ calls' = calls \union {s}
    BY <1>3, <2>1 DEF HitExact, HitSimilar, ServeRow, Miss, Answered, Failed, Drop, Goto
  <2> QED BY <2>1, <2>2
<1>4. ASSUME NEW s \in Requests,
             Store(s) \/ StoreFails(s) \/ RecordTelemetry(s) \/ Flush(s) \/ FlushFails(s)
      PROVE  Author(r)' /\ question'[r] = question[r] /\ answer'[r] = answer[r]
  BY <1>4 DEF Store, StoreFails, RecordTelemetry, Flush, FlushFails, handlers
<1>5. CASE Restart
  BY <1>5 DEF Restart
<1>6. CASE Tick
  BY <1>6 DEF Tick, handlers
<1> QED BY <1>1, <1>2, <1>3, <1>4, <1>5, <1>6 DEF Next

\* A row that was a request's own stays so, and the same for the tasks left
\* to do and for those who were served.
LEMMA OthersKeepOwn ==
  ASSUME CacheInv, [Next]_vars
  PROVE  /\ \A row \in rows : RowIsOwn(row)'
         /\ \A r \in Requests :
              (<<"store", r>> \in tasks' => <<"store", r>> \in tasks) => StoresOwn(r)'
         /\ \A r \in Requests :
              (pc'[r] = "served" => /\ pc[r] = "served" /\ question'[r] = question[r]
                                    /\ answer'[r] = answer[r])
                => ServedOwn(r)'
<1>1. ASSUME NEW row \in rows PROVE RowIsOwn(row)'
  <2>1. row.response \in Requests /\ Author(row.response) /\ row.key = CacheKey(question[row.response])
    BY DEF CacheInv, RowIsOwn
  <2>2. Author(row.response)' /\ question'[row.response] = question[row.response]
    BY <2>1, AuthorsStay
  <2> QED BY <2>1, <2>2 DEF RowIsOwn, CacheKey
<1>2. ASSUME NEW r \in Requests, <<"store", r>> \in tasks' => <<"store", r>> \in tasks
      PROVE  StoresOwn(r)'
  <2>1. StoresOwn(r)
    BY DEF CacheInv
  <2> QED BY <1>2, <2>1, AuthorsStay DEF StoresOwn
<1>3. ASSUME NEW r \in Requests,
             pc'[r] = "served" => /\ pc[r] = "served" /\ question'[r] = question[r]
                                  /\ answer'[r] = answer[r]
      PROVE  ServedOwn(r)'
  <2> SUFFICES ASSUME pc'[r] = "served" PROVE ServedOwn(r)'
    BY DEF ServedOwn
  <2>1. ServedOwn(r) /\ pc[r] = "served" /\ question'[r] = question[r] /\ answer'[r] = answer[r]
    BY <1>3 DEF CacheInv
  <2>2. PICK a \in Requests : a = answer[r]
    BY <2>1 DEF ServedOwn
  <2>3. Author(a)
    BY <2>1, <2>2 DEF ServedOwn
  <2>4. Author(a)' /\ question'[a] = question[a]
    BY <2>3, AuthorsStay
  <2> QED BY <2>1, <2>2, <2>4 DEF ServedOwn, Cacheable, Author
<1> QED BY <1>1, <1>2, <1>3

\* A request coming in, asking, failing or leaving adds nothing to the cache.
LEMMA HandlersKeepCacheInv ==
  ASSUME CacheInv, NEW r \in Requests,
         \/ \E q \in Questions : RateLimited(r, q) \/ AskWithoutPrompt(r, q) \/ Ask(r, q)
         \/ Miss(r) \/ Failed(r) \/ Drop(r)
  PROVE  CacheInv'
<1>0. [Next]_vars
  BY DEF Next
<1>1. /\ \A s \in Requests \ {r} : pc'[s] = pc[s] /\ question'[s] = question[s]
      /\ pc'[r] \in {"exact", "similar", "call", "over"}
      /\ pc[r] \notin {"answered", "served"}
      /\ pc'[r] \in {"exact", "similar"} => Cacheable(question[r])'
      /\ HandlerTypes'
      /\ UNCHANGED <<rows, answer, calls, tasks>>
  <2>1. CASE \E q \in Questions : RateLimited(r, q) \/ AskWithoutPrompt(r, q) \/ Ask(r, q)
    <3>1. PICK q \in Questions : RateLimited(r, q) \/ AskWithoutPrompt(r, q) \/ Ask(r, q)
      BY <2>1
    <3>2. /\ \/ pc' = [pc EXCEPT ![r] = "over"]
             \/ pc' = [pc EXCEPT ![r] = FirstStop(q)]
          /\ question' = [question EXCEPT ![r] = q] /\ pc[r] = "idle"
          /\ UNCHANGED <<rows, answer, calls, tasks>>
      BY <3>1 DEF RateLimited, AskWithoutPrompt, Ask, Goto
    <3>3. \/ FirstStop(q) = "exact" /\ Cacheable(q)
          \/ FirstStop(q) = "call"
      BY DEF FirstStop
    <3>4. question'[r] = q
      BY <3>2 DEF CacheInv, HandlerTypes
    <3>5. HandlerTypes'
      BY <3>2, <3>3 DEF CacheInv, HandlerTypes, Places
    <3> QED BY <3>2, <3>3, <3>4, <3>5 DEF CacheInv, HandlerTypes, Cacheable
  <2>2. CASE Miss(r)
    BY <2>2 DEF Miss, Goto, CacheInv, HandlerTypes, Places, Cacheable
  <2>3. CASE Failed(r) \/ Drop(r)
    BY <2>3 DEF Failed, Drop, Goto, CacheInv, HandlerTypes, Places, Cacheable
  <2> QED BY <2>1, <2>2, <2>3
<1>2. \A c \in calls' : pc'[c] = "answered"
  BY <1>1 DEF CacheInv, HandlerTypes
<1>3. \A s \in Requests : pc'[s] \in {"exact", "similar"} => Cacheable(question[s])'
  BY <1>1 DEF CacheInv, Cacheable
<1>4. \A row \in rows' : RowIsOwn(row)'
  BY <1>0, <1>1, OthersKeepOwn
<1>5. \A s \in Requests : StoresOwn(s)' /\ ServedOwn(s)'
  BY <1>0, <1>1, OthersKeepOwn
<1> QED BY <1>1, <1>2, <1>3, <1>4, <1>5 DEF CacheInv

LEMMA ServingKeepsCacheInv ==
  ASSUME CacheInv, NEW r \in Requests, HitExact(r) \/ HitSimilar(r)
  PROVE  CacheInv'
<1>0. [Next]_vars
  BY DEF Next
<1>1. PICK row \in rows :
        /\ pc[r] \in {"exact", "similar"} /\ ServeRow(r, row)
        /\ row.key.client = question[r].client /\ row.key.model = question[r].model
        /\ row.key.prompt = question[r].prompt \/ Similar(row.key.prompt, question[r].prompt)
  <2>1. CASE HitExact(r)
    <3>1. PICK row \in rows : row.key = CacheKey(question[r]) /\ ServeRow(r, row)
      BY <2>1 DEF HitExact, ExactHits
    <3> QED BY <2>1, <3>1 DEF HitExact, CacheKey
  <2>2. CASE HitSimilar(r)
    BY <2>2 DEF HitSimilar, SimilarHits
  <2> QED BY <2>1, <2>2
<1>2. /\ pc' = [pc EXCEPT ![r] = "served"] /\ answer' = [answer EXCEPT ![r] = row.response]
      /\ UNCHANGED <<rows, question, calls, tasks>>
  BY <1>1 DEF ServeRow, Goto
<1>3. RowIsOwn(row)' /\ RowIsOwn(row) /\ row \in rows'
  BY <1>0, <1>2, OthersKeepOwn DEF CacheInv
<1>4. HandlerTypes' /\ pc'[r] = "served" /\ answer'[r] = row.response
  BY <1>2, <1>3 DEF CacheInv, HandlerTypes, RowIsOwn, Places
<1>5. ServedOwn(r)'
  <2>1. Cacheable(question[r])'
    BY <1>1, <1>2 DEF CacheInv, Cacheable
  <2>2. PICK a \in Requests : a = row.response
    BY <1>3 DEF RowIsOwn
  <2>3. Author(a)' /\ row.key = CacheKey(question[a])
    BY <1>3, <2>2 DEF RowIsOwn
  <2>4. question[a].client = row.key.client /\ question[a].model = row.key.model
        /\ question[a].prompt = row.key.prompt
    BY <2>3 DEF CacheKey
  <2> QED BY <1>1, <1>2, <1>4, <2>1, <2>2, <2>3, <2>4 DEF ServedOwn, Author, Cacheable
<1>6. \A s \in Requests \ {r} : pc'[s] = pc[s] /\ answer'[s] = answer[s]
  BY <1>2 DEF CacheInv, HandlerTypes
<1>7. \A s \in Requests : StoresOwn(s)' /\ ServedOwn(s)'
  BY <1>0, <1>2, <1>5, <1>6, OthersKeepOwn
<1>8. \A s \in rows' : RowIsOwn(s)'
  BY <1>0, <1>2, OthersKeepOwn
<1>9. \A c \in calls' : pc'[c] = "answered"
  BY <1>1, <1>2, <1>6 DEF CacheInv, HandlerTypes
<1>10. \A s \in Requests : pc'[s] \in {"exact", "similar"} => Cacheable(question[s])'
  BY <1>2, <1>4, <1>6 DEF CacheInv, Cacheable
<1> QED BY <1>4, <1>7, <1>8, <1>9, <1>10 DEF CacheInv

LEMMA AnsweringKeepsCacheInv ==
  ASSUME CacheInv, NEW r \in Requests, Answered(r)
  PROVE  CacheInv'
<1>0. [Next]_vars
  BY DEF Next
<1>1. PICK with_calls \in BOOLEAN :
        /\ calls' = IF with_calls THEN calls \union {r} ELSE calls
        /\ tasks' = tasks \union {<<"record", r>>}
                    \union (IF Storable(r, with_calls) THEN {<<"store", r>>} ELSE {})
  BY DEF Answered
<1>2. /\ pc[r] = "call" /\ pc' = [pc EXCEPT ![r] = "answered"]
      /\ answer' = [answer EXCEPT ![r] = r] /\ UNCHANGED <<rows, question>>
  BY DEF Answered, Goto
<1>3. /\ pc'[r] = "answered" /\ answer'[r] = r
      /\ \A s \in Requests \ {r} : pc'[s] = pc[s] /\ answer'[s] = answer[s]
  BY <1>2 DEF CacheInv, HandlerTypes
<1>4. HandlerTypes'
  BY <1>1, <1>2 DEF CacheInv, HandlerTypes, Places
<1>5. StoresOwn(r)'
  <2> SUFFICES ASSUME <<"store", r>> \in tasks' PROVE StoresOwn(r)'
    BY DEF StoresOwn
  <2>1. CASE <<"store", r>> \in tasks
    BY <1>2, <2>1 DEF CacheInv, StoresOwn, Author
  <2>2. CASE <<"store", r>> \notin tasks
    <3>1. Storable(r, with_calls)
      BY <1>1, <2>2
    <3>2. r \notin calls /\ Cacheable(question[r])
      BY <1>2, <3>1 DEF CacheInv, Storable
    <3>3. r \notin calls'
      BY <1>1, <3>1, <3>2 DEF Storable
    <3> QED BY <1>2, <1>3, <3>2, <3>3 DEF StoresOwn, Author, Cacheable
  <2> QED BY <2>1, <2>2
<1>6. \A s \in Requests : StoresOwn(s)' /\ ServedOwn(s)'
  <2>1. \A s \in Requests \ {r} : <<"store", s>> \in tasks' => <<"store", s>> \in tasks
    BY <1>1
  <2> QED BY <1>0, <1>2, <1>3, <1>5, <2>1, OthersKeepOwn
<1>7. \A row \in rows' : RowIsOwn(row)'
  BY <1>0, <1>2, OthersKeepOwn
<1>8. \A c \in calls' : pc'[c] = "answered"
  BY <1>1, <1>3 DEF CacheInv, HandlerTypes
<1>9. \A s \in Requests : pc'[s] \in {"exact", "similar"} => Cacheable(question[s])'
  BY <1>2, <1>3 DEF CacheInv, Cacheable
<1> QED BY <1>4, <1>6, <1>7, <1>8, <1>9 DEF CacheInv

\* The detached tasks; only a store writes to the table.
LEMMA TasksKeepCacheInv ==
  ASSUME CacheInv, NEW r \in Requests,
         Store(r) \/ StoreFails(r) \/ RecordTelemetry(r) \/ Flush(r) \/ FlushFails(r)
  PROVE  CacheInv'
<1>0. [Next]_vars
  BY DEF Next
<1>1. UNCHANGED <<pc, question, answer, calls>>
  BY DEF Store, StoreFails, RecordTelemetry, Flush, FlushFails, handlers
<1>2. \A s \in Requests : <<"store", s>> \in tasks' => <<"store", s>> \in tasks
  BY DEF Store, StoreFails, RecordTelemetry, Flush, FlushFails, EndTask
<1>3. \A s \in Requests : StoresOwn(s)' /\ ServedOwn(s)'
  BY <1>0, <1>1, <1>2, OthersKeepOwn
<1>4. \A row \in rows' : RowIsOwn(row)'
  <2>1. CASE UNCHANGED rows
    BY <1>0, <2>1, OthersKeepOwn
  <2>2. CASE Store(r) /\ rows' # rows
    <3> DEFINE new == [key |-> CacheKey(question[r]), response |-> answer[r]]
    <3>1. rows' = rows \union {new}
      BY <2>2 DEF Store, Insert
    <3>2. Author(r) /\ answer[r] = r
      BY <2>2 DEF Store, CacheInv, StoresOwn
    <3>3. PICK row : row = new
      OBVIOUS
    <3>4. row.key = CacheKey(question[r]) /\ row.response = r
      BY <3>2, <3>3
    <3>5. RowIsOwn(row)'
      BY <1>1, <3>2, <3>4 DEF RowIsOwn, Author, CacheKey, Cacheable
    <3>6. rows' = rows \union {row}
      BY <3>1, <3>3
    <3> QED BY <1>0, <3>5, <3>6, OthersKeepOwn
  <2> QED BY <2>1, <2>2 DEF StoreFails, RecordTelemetry, Flush, FlushFails
<1> QED BY <1>1, <1>3, <1>4 DEF CacheInv, HandlerTypes, Cacheable

LEMMA RestartKeepsCacheInv == CacheInv /\ Restart => CacheInv'
<1> SUFFICES ASSUME CacheInv, Restart PROVE CacheInv'
  OBVIOUS
<1>0. [Next]_vars
  BY DEF Next
<1>1. /\ tasks' = {} /\ UNCHANGED <<rows, question, answer, calls>>
      /\ pc' = [r \in Requests |->
                  IF pc[r] \in {"exact", "similar", "call"} THEN "over" ELSE pc[r]]
  BY DEF Restart
<1>2. HandlerTypes'
  BY <1>1 DEF CacheInv, HandlerTypes, Places
<1>3. \A s \in Requests : StoresOwn(s)' /\ ServedOwn(s)'
  <2>1. \A s \in Requests : pc'[s] = "served" => pc[s] = "served"
    BY <1>1
  <2> QED BY <1>0, <1>1, <2>1, OthersKeepOwn
<1>4. \A row \in rows' : RowIsOwn(row)'
  BY <1>0, <1>1, OthersKeepOwn
<1> QED BY <1>1, <1>2, <1>3, <1>4 DEF CacheInv, HandlerTypes

LEMMA CacheInvNext == CacheInv /\ [Next]_vars => CacheInv'
<1> SUFFICES ASSUME CacheInv, [Next]_vars PROVE CacheInv'
  OBVIOUS
<1>1. CASE UNCHANGED <<rows, handlers, tasks>>
  BY <1>1, OthersKeepOwn DEF CacheInv, HandlerTypes, handlers, Cacheable
<1>2. CASE UNCHANGED vars \/ Tick
  BY <1>1, <1>2 DEF vars, Tick
<1> QED
  BY <1>1, <1>2, HandlersKeepCacheInv, ServingKeepsCacheInv, AnsweringKeepsCacheInv,
     TasksKeepCacheInv, RestartKeepsCacheInv DEF Next

\* The invariant holds.
THEOREM CacheInvHolds == Spec => []CacheInv
BY CacheInvInit, CacheInvNext, PTL DEF Spec

\* Whatever the cache gives a client, a provider made it for a question of
\* the same client (main.rs, SemanticCache::get and the detached set).
THEOREM OwnAnswersOnly == Spec => []OwnAnswers
<1>1. CacheInv => OwnAnswers
  <2> SUFFICES ASSUME CacheInv, NEW r \in Requests, pc[r] = "served"
               PROVE  /\ pc[answer[r]] = "answered" /\ answer[r] \notin calls
                      /\ Cacheable(question[r]) /\ Cacheable(question[answer[r]])
                      /\ question[answer[r]].client = question[r].client
                      /\ question[answer[r]].model = question[r].model
                      /\ \/ question[answer[r]].prompt = question[r].prompt
                         \/ Similar(question[answer[r]].prompt, question[r].prompt)
    BY DEF OwnAnswers
  <2>1. ServedOwn(r)
    BY DEF CacheInv
  <2> QED BY <2>1 DEF ServedOwn, Author
<1> QED BY <1>1, CacheInvHolds, PTL

-----------------------------------------------------------------------------
(***************************************************************************)
(* Telemetry.                                                              *)
(***************************************************************************)

TaskKinds == {"store", "record", "flush"}

FilesTypes ==
  /\ buffer \in Seq(Requests) /\ written \in Seq(Requests) /\ pushed \in Seq(Requests)
  /\ failures \in Nat
  /\ tasks \subseteq TaskKinds \X Requests

\* The records that have left the buffer are in the files, and there in
\* their order if no write ever failed.
Flushed(flushed) ==
  /\ pushed = flushed \o buffer
  /\ \A i \in 1 .. Len(flushed) : \E j \in 1 .. Len(written) : written[j] = flushed[i]
  /\ failures = 0 => written = flushed

SomebodyFlushes == \E r \in Requests : <<"flush", r>> \in tasks

FilesInv ==
  /\ FilesTypes
  /\ \E flushed \in Seq(Requests) : Flushed(flushed)
  /\ Full => failures > 0 \/ SomebodyFlushes

LEMMA FilesInvInit == Init => FilesInv
<1> SUFFICES ASSUME Init PROVE FilesInv
  OBVIOUS
<1>1. /\ buffer = <<>> /\ written = <<>> /\ pushed = <<>> /\ failures = 0 /\ tasks = {}
  BY DEF Init, TelemetryInit
<1>2. Flushed(<<>>) /\ <<>> \in Seq(Requests)
  BY <1>1 DEF Flushed
<1>3. ~ Full
  BY <1>1 DEF Full
<1> QED BY <1>1, <1>2, <1>3 DEF FilesInv, FilesTypes

\* Whatever leaves the records, the files and the flushes alone.
LEMMA ElsewhereKeepsFilesInv ==
  ASSUME FilesInv, UNCHANGED <<buffer, written, pushed, failures>>,
         tasks' \subseteq TaskKinds \X Requests,
         \A r \in Requests : <<"flush", r>> \in tasks => <<"flush", r>> \in tasks'
  PROVE  FilesInv'
BY DEF FilesInv, FilesTypes, Flushed, Full, SomebodyFlushes

LEMMA RecordKeepsFilesInv ==
  ASSUME FilesInv, NEW r \in Requests, RecordTelemetry(r)
  PROVE  FilesInv'
<1>1. /\ buffer' = Append(buffer, r) /\ pushed' = Append(pushed, r)
      /\ UNCHANGED <<written, failures>>
      /\ tasks' = (tasks \ {<<"record", r>>}) \union (IF Full' THEN {<<"flush", r>>} ELSE {})
  BY DEF RecordTelemetry, Push
<1>2. PICK flushed \in Seq(Requests) : Flushed(flushed)
  BY DEF FilesInv
<1>3. Append(flushed \o buffer, r) = flushed \o Append(buffer, r)
  <2>1. flushed \in Seq(Requests) /\ buffer \in Seq(Requests) /\ <<r>> \in Seq(Requests)
    BY DEF FilesInv, FilesTypes
  <2>2. flushed \o buffer \in Seq(Requests)
    BY <2>1, ConcatProperties
  <2>3. Append(flushed \o buffer, r) = (flushed \o buffer) \o <<r>>
    BY <2>2, AppendIsConcat
  <2>4. Append(buffer, r) = buffer \o <<r>>
    BY <2>1, AppendIsConcat
  <2>5. (flushed \o buffer) \o <<r>> = flushed \o (buffer \o <<r>>)
    BY <2>1, ConcatAssociative
  <2> QED BY <2>3, <2>4, <2>5
<1>4. Flushed(flushed)'
  BY <1>1, <1>2, <1>3 DEF Flushed
<1>5. FilesTypes'
  BY <1>1 DEF FilesInv, FilesTypes, TaskKinds
<1>6. Full' => SomebodyFlushes'
  BY <1>1 DEF SomebodyFlushes
<1> QED BY <1>2, <1>4, <1>5, <1>6 DEF FilesInv

LEMMA FlushKeepsFilesInv ==
  ASSUME FilesInv, NEW r \in Requests, Flush(r)
  PROVE  FilesInv'
<1>1. /\ written' = written \o buffer /\ buffer' = <<>> /\ UNCHANGED <<pushed, failures>>
      /\ tasks' = tasks \ {<<"flush", r>>}
  BY DEF Flush, WriteAll, EndTask, books
<1>2. PICK flushed \in Seq(Requests) : Flushed(flushed)
  BY DEF FilesInv
<1>3. FilesTypes'
  BY <1>1 DEF FilesInv, FilesTypes
<1>4. ~ Full'
  BY <1>1 DEF Full
<1>5. Flushed(pushed)'
  <2>1. pushed' = pushed' \o buffer'
    BY <1>1, <1>3, ConcatEmptySeq DEF FilesTypes
  <2>2. failures' = 0 => written' = pushed'
    BY <1>1, <1>2 DEF Flushed
  <2>3. ASSUME NEW i \in 1 .. Len(pushed')
        PROVE  \E j \in 1 .. Len(written') : written'[j] = pushed'[i]
    <3>0. /\ buffer \in Seq(Requests) /\ written \in Seq(Requests)
          /\ Len(buffer) \in Nat /\ Len(written) \in Nat /\ Len(flushed) \in Nat
      BY DEF FilesInv, FilesTypes
    <3>1. /\ Len(pushed') = Len(flushed) + Len(buffer)
          /\ pushed'[i] = IF i <= Len(flushed) THEN flushed[i] ELSE buffer[i - Len(flushed)]
      BY <1>1, <1>2, <3>0, ConcatProperties DEF Flushed
    <3>2. /\ Len(written') = Len(written) + Len(buffer)
          /\ \A j \in 1 .. Len(written) + Len(buffer) :
               written'[j] = IF j <= Len(written) THEN written[j] ELSE buffer[j - Len(written)]
      BY <1>1, <3>0, ConcatProperties
    <3>3. CASE i <= Len(flushed)
      <4>1. i \in 1 .. Len(flushed)
        BY <3>0, <3>3
      <4>2. PICK j \in 1 .. Len(written) : written[j] = flushed[i]
        BY <1>2, <4>1 DEF Flushed
      <4>3. j \in 1 .. Len(written) + Len(buffer) /\ j <= Len(written)
        BY <3>0
      <4> QED BY <3>1, <3>2, <3>3, <4>2, <4>3
    <3>4. CASE ~(i <= Len(flushed))
      <4> DEFINE j == Len(written) + (i - Len(flushed))
      <4>1. /\ j \in 1 .. Len(written) + Len(buffer) /\ ~(j <= Len(written))
            /\ j - Len(written) = i - Len(flushed)
        BY <3>0, <3>1, <3>4
      <4> HIDE DEF j
      <4> QED BY <3>1, <3>2, <3>4, <4>1
    <3> QED BY <3>3, <3>4
  <2> QED BY <2>1, <2>2, <2>3 DEF Flushed
<1> QED BY <1>1, <1>3, <1>4, <1>5 DEF FilesInv, FilesTypes

LEMMA FailedFlushKeepsFilesInv ==
  ASSUME FilesInv, NEW r \in Requests, FlushFails(r)
  PROVE  FilesInv'
<1>1. PICK n \in 0 .. Len(buffer) : WriteFails(n)
  BY DEF FlushFails
<1>2. /\ written' = written \o SubSeq(buffer, 1, n) /\ failures' = failures + 1
      /\ UNCHANGED <<buffer, pushed>> /\ tasks' = tasks \ {<<"flush", r>>}
  BY <1>1 DEF FlushFails, WriteFails, EndTask
<1>3. SubSeq(buffer, 1, n) \in Seq(Requests)
  <2>1. n \in Nat /\ n <= Len(buffer) /\ buffer \in Seq(Requests)
    BY DEF FilesInv, FilesTypes
  <2> QED BY <2>1, SubSeqProperties
<1>4. FilesTypes' /\ failures' > 0
  BY <1>2, <1>3, ConcatProperties DEF FilesInv, FilesTypes
<1>5. PICK flushed \in Seq(Requests) : Flushed(flushed)
  BY DEF FilesInv
<1>6. Flushed(flushed)'
  <2>1. ASSUME NEW i \in 1 .. Len(flushed)
        PROVE  \E j \in 1 .. Len(written') : written'[j] = flushed[i]
    <3>1. PICK j \in 1 .. Len(written) : written[j] = flushed[i]
      BY <1>5 DEF Flushed
    <3>2. j \in 1 .. Len(written') /\ written'[j] = written[j]
      BY <1>2, <1>3, ConcatProperties DEF FilesInv, FilesTypes
    <3> QED BY <3>1, <3>2
  <2> QED BY <1>2, <1>4, <1>5, <2>1 DEF Flushed, FilesInv, FilesTypes
<1> QED BY <1>4, <1>5, <1>6 DEF FilesInv

\* Taking the end off what was put together leaves the front.
LEMMA FrontOfConcat ==
  ASSUME NEW S, NEW front \in Seq(S), NEW back \in Seq(S)
  PROVE  SubSeq(front \o back, 1, Len(front \o back) - Len(back)) = front
<1>1. /\ front \o back \in Seq(S) /\ Len(front \o back) = Len(front) + Len(back)
      /\ \A i \in 1 .. Len(front) : (front \o back)[i] = front[i]
  BY ConcatProperties
<1>2. Len(front) \in Nat /\ Len(back) \in Nat
  OBVIOUS
<1>3. Len(front \o back) - Len(back) = Len(front)
  BY <1>1, <1>2
<1>4. /\ SubSeq(front \o back, 1, Len(front)) \in Seq(S)
      /\ Len(SubSeq(front \o back, 1, Len(front))) = Len(front)
      /\ \A i \in 1 .. Len(front) : SubSeq(front \o back, 1, Len(front))[i] = front[i]
  BY <1>1, <1>2
<1> QED BY <1>3, <1>4, SeqEqual

LEMMA RestartKeepsFilesInv ==
  ASSUME FilesInv, Restart
  PROVE  FilesInv'
<1>1. /\ buffer' = <<>> /\ tasks' = {} /\ UNCHANGED <<written, failures>>
      /\ pushed' = SubSeq(pushed, 1, Len(pushed) - Len(buffer))
  BY DEF Restart
<1>2. PICK flushed \in Seq(Requests) : Flushed(flushed)
  BY DEF FilesInv
<1>3. pushed' = flushed
  BY <1>1, <1>2, FrontOfConcat DEF FilesInv, FilesTypes, Flushed
<1>4. Flushed(flushed)'
  BY <1>1, <1>2, <1>3, ConcatEmptySeq DEF Flushed
<1>5. ~ Full'
  BY <1>1 DEF Full
<1>6. FilesTypes'
  BY <1>1, <1>2, <1>3 DEF FilesInv, FilesTypes
<1> QED BY <1>2, <1>4, <1>5, <1>6 DEF FilesInv

LEMMA FilesInvNext == FilesInv /\ [Next]_vars => FilesInv'
<1> SUFFICES ASSUME FilesInv, [Next]_vars PROVE FilesInv'
  OBVIOUS
<1>1. CASE UNCHANGED <<buffer, written, pushed, failures, tasks>>
  BY <1>1, ElsewhereKeepsFilesInv DEF FilesInv, FilesTypes
<1>2. CASE UNCHANGED vars \/ Tick
  BY <1>1, <1>2 DEF vars, Tick, books
<1>3. ASSUME NEW r \in Requests, NEW q \in Questions,
             RateLimited(r, q) \/ AskWithoutPrompt(r, q) \/ Ask(r, q)
      PROVE  FilesInv'
  BY <1>1, <1>3 DEF RateLimited, AskWithoutPrompt, Ask, books
<1>4. ASSUME NEW r \in Requests,
             HitExact(r) \/ HitSimilar(r) \/ Miss(r) \/ Failed(r) \/ Drop(r)
      PROVE  FilesInv'
  BY <1>1, <1>4 DEF HitExact, HitSimilar, ServeRow, Miss, Failed, Drop, books
<1>5. ASSUME NEW r \in Requests, Answered(r) \/ Store(r) \/ StoreFails(r)
      PROVE  FilesInv'
  <2>1. UNCHANGED <<buffer, written, pushed, failures>>
    BY <1>5 DEF Answered, Store, StoreFails, books
  <2>2. /\ tasks' \subseteq TaskKinds \X Requests
        /\ \A s \in Requests : <<"flush", s>> \in tasks => <<"flush", s>> \in tasks'
    <3>1. CASE Answered(r)
      <4>1. \/ tasks' = tasks \union {<<"record", r>>}
            \/ tasks' = tasks \union {<<"record", r>>} \union {<<"store", r>>}
        BY <3>1 DEF Answered
      <4> QED BY <4>1 DEF FilesInv, FilesTypes, TaskKinds
    <3>2. CASE Store(r) \/ StoreFails(r)
      BY <3>2 DEF Store, StoreFails, EndTask, FilesInv, FilesTypes
    <3> QED BY <1>5, <3>1, <3>2
  <2> QED BY <2>1, <2>2, ElsewhereKeepsFilesInv
<1> QED
  BY <1>2, <1>3, <1>4, <1>5, RecordKeepsFilesInv, FlushKeepsFilesInv,
     FailedFlushKeepsFilesInv, RestartKeepsFilesInv DEF Next

THEOREM FilesInvHolds == Spec => []FilesInv
BY FilesInvInit, FilesInvNext, PTL DEF Spec

\* A record is in a file, in the buffer, or went down with the process
\* (telemetry.rs, record and flush).
THEOREM TelemetryIsKept == Spec => []TelemetryKept
<1>1. FilesInv => TelemetryKept
  <2> SUFFICES ASSUME FilesInv PROVE TelemetryKept
    OBVIOUS
  <2>1. PICK flushed \in Seq(Requests) : Flushed(flushed)
    BY DEF FilesInv
  <2>2. SubSeq(pushed, 1, Len(pushed) - Len(buffer)) = flushed
    BY <2>1, FrontOfConcat DEF FilesInv, FilesTypes, Flushed
  <2>3. Full => failures > 0 \/ \E t \in tasks : t[1] = "flush"
    BY DEF FilesInv, SomebodyFlushes
  <2>4. DOMAIN flushed = 1 .. Len(flushed) /\ DOMAIN written = 1 .. Len(written)
    BY DEF FilesInv, FilesTypes
  <2> QED BY <2>1, <2>2, <2>3, <2>4 DEF TelemetryKept, Flushed
<1> QED BY <1>1, FilesInvHolds, PTL

-----------------------------------------------------------------------------
(***************************************************************************)
(* The loop guard.                                                         *)
(***************************************************************************)

Prompts == {q.prompt : q \in Questions}

Entries == [prompt : Prompts, at : Nat]

\* Among numbers there is a least.
LEMMA LeastOf ==
  ASSUME NEW T \in SUBSET Nat, T # {}
  PROVE  \E m \in T : \A n \in T : m <= n
<1> DEFINE less == OpToRel(<, Nat)
<1>1. IsWellFoundedOn(less, Nat)
  BY NatLessThanWellFounded
<1> HIDE DEF less
<1>2. PICK m \in T : \A n \in T : ~ (<<n, m>> \in less)
  BY <1>1, WFMin
<1>3. ASSUME NEW n \in T PROVE m <= n
  <2>1. ~ (<<n, m>> \in less) /\ m \in Nat /\ n \in Nat
    BY <1>2
  <2>2. ~ (n < m)
    BY <2>1 DEF less, OpToRel
  <2> QED BY <2>1, <2>2
<1> QED BY <1>3

\* An image without collisions is as large as what it is of.
LEMMA ImageSize ==
  ASSUME NEW S, IsFiniteSet(S), NEW f, NEW T,
         \A x, y \in S : f[x] = f[y] => x = y,
         \A x \in S : f[x] \in T, \A t \in T : \E x \in S : t = f[x]
  PROVE  IsFiniteSet(T) /\ Cardinality(T) = Cardinality(S)
<1> DEFINE g == [x \in S |-> f[x]]
<1>1. g \in Bijection(S, T)
  BY Fun_IsBij
<1>2. ExistsBijection(S, T)
  BY <1>1 DEF ExistsBijection
<1> QED BY <1>2, FS_Bijection

\* There is a first entry within the window.
LEMMA FrontIs ==
  ASSUME NEW history \in Seq(Entries), now \in Nat
  PROVE  /\ Front(history) \in 1 .. Len(history) + 1
         /\ \A j \in 1 .. Front(history) - 1 : now - history[j].at > Window
         /\ Front(history) <= Len(history) => now - history[Front(history)].at <= Window
<1>0. Len(history) \in Nat
  OBVIOUS
<1> DEFINE T == {i \in 1 .. Len(history) + 1 :
                   i = Len(history) + 1 \/ now - history[i].at <= Window}
<1>1. PICK m \in T : \A n \in T : m <= n
  <2>1. T \in SUBSET Nat /\ Len(history) + 1 \in T
    BY <1>0
  <2> QED BY <2>1, LeastOf
<1>2. /\ m \in 1 .. Len(history) + 1
      /\ m <= Len(history) => now - history[m].at <= Window
  BY <1>0, <1>1
<1>3. ASSUME NEW j \in 1 .. m - 1 PROVE now - history[j].at > Window
  <2>1. j \in 1 .. Len(history) /\ j < m
    BY <1>0, <1>2
  <2>2. j \notin T
    BY <1>0, <1>1, <1>2, <2>1
  <2>3. ~ (now - history[j].at <= Window)
    BY <1>0, <2>1, <2>2
  <2>4. history[j] \in Entries
    BY <2>1
  <2>5. history[j].at \in Nat
    BY <2>4 DEF Entries
  <2> QED BY <2>3, <2>5
<1> HIDE DEF T
<1>4. \E i \in 1 .. Len(history) + 1 :
        /\ \A j \in 1 .. i - 1 : now - history[j].at > Window
        /\ i <= Len(history) => now - history[i].at <= Window
  BY <1>2, <1>3
<1> QED BY <1>4 DEF Front

\* What a call leaves in the history: drop entries less at the front, none of
\* them within the window unless the history is full, and the new one.
LEMMA RecordedIs ==
  ASSUME now \in Nat, NEW c \in Clients, NEW p \in Prompts,
         recent[c] \in Seq(Entries), Len(recent[c]) <= MaxHistory
  PROVE  \E drop \in 0 .. Len(recent[c]) :
           /\ Recorded(c, p) \in Seq(Entries)
           /\ Len(Recorded(c, p)) = Len(recent[c]) - drop + 1
           /\ Len(Recorded(c, p)) <= MaxHistory
           /\ \A k \in 1 .. Len(recent[c]) - drop :
                Recorded(c, p)[k] = recent[c][k + drop]
           /\ Recorded(c, p)[Len(recent[c]) - drop + 1] = [prompt |-> p, at |-> now]
           /\ \/ drop = Front(recent[c]) - 1
              \/ drop = 1 /\ Front(recent[c]) = 1 /\ Len(Recorded(c, p)) = MaxHistory
<1> DEFINE h == recent[c]
           first == Front(h)
           kept == InWindow(h)
           new == [prompt |-> p, at |-> now]
           longer == Append(kept, new)
<1>0. h \in Seq(Entries) /\ Len(h) \in Nat /\ Len(h) <= MaxHistory
  OBVIOUS
<1>1. first \in 1 .. Len(h) + 1
  BY <1>0, FrontIs
<1> HIDE DEF h, first
<1>2. kept = SubSeq(h, first, Len(h))
  BY DEF InWindow, first
<1>3. /\ kept \in Seq(Entries) /\ Len(kept) = Len(h) - first + 1
      /\ \A k \in 1 .. Len(h) - first + 1 : kept[k] = h[k + (first - 1)]
  BY <1>0, <1>1, <1>2
<1>4. new \in Entries
  BY DEF Entries
<1>5. /\ longer \in Seq(Entries) /\ Len(longer) = Len(kept) + 1
      /\ \A k \in 1 .. Len(kept) : longer[k] = kept[k]
      /\ longer[Len(kept) + 1] = new
  BY <1>3, <1>4, AppendProperties
<1>6. Recorded(c, p) = IF Len(longer) > MaxHistory THEN Tail(longer) ELSE longer
  BY DEF Recorded, h
<1> HIDE DEF kept, new, longer
<1>7. CASE Len(longer) <= MaxHistory
  <2> DEFINE drop == first - 1
  <2>1. /\ drop \in 0 .. Len(h) /\ Len(kept) = Len(h) - drop /\ Recorded(c, p) = longer
        /\ Len(kept) \in Nat
    BY <1>0, <1>1, <1>3, <1>5, <1>6, <1>7
  <2>2. \A k \in 1 .. Len(h) - drop : longer[k] = h[k + drop]
    BY <1>0, <1>1, <1>3, <1>5
  <2> HIDE DEF drop
  <2>3. drop = first - 1
    BY DEF drop
  <2> QED BY <1>5, <1>7, <2>1, <2>2, <2>3 DEF h, first, new
<1>8. CASE Len(longer) > MaxHistory
  <2>1. first = 1 /\ Len(h) = MaxHistory /\ Len(kept) = MaxHistory /\ Len(kept) = Len(h)
        /\ Len(longer) = MaxHistory + 1
    BY <1>0, <1>1, <1>3, <1>5, <1>8
  <2>2. Recorded(c, p) = Tail(longer)
    BY <1>6, <1>8
  <2>3. longer # <<>>
    BY <1>5, <2>1
  <2>4. /\ Tail(longer) \in Seq(Entries) /\ Len(Tail(longer)) = MaxHistory
        /\ \A k \in 1 .. MaxHistory : Tail(longer)[k] = longer[k + 1]
    BY <1>5, <2>1, <2>3
  <2>5. \A k \in 1 .. Len(h) - 1 : Tail(longer)[k] = h[k + 1]
    <3> SUFFICES ASSUME NEW k \in 1 .. Len(h) - 1 PROVE Tail(longer)[k] = h[k + 1]
      OBVIOUS
    <3>1. k \in 1 .. MaxHistory /\ k + 1 \in 1 .. Len(kept) /\ k + 1 \in 1 .. Len(h) - first + 1
          /\ (k + 1) + (first - 1) = k + 1
      BY <1>0, <2>1
    <3>2. Tail(longer)[k] = longer[k + 1] /\ longer[k + 1] = kept[k + 1]
      BY <1>5, <2>4, <3>1
    <3>3. kept[k + 1] = h[(k + 1) + (first - 1)]
      BY <1>3, <3>1
    <3> QED BY <3>1, <3>2, <3>3
  <2>6. Tail(longer)[Len(h)] = new
    BY <1>5, <2>1, <2>4
  <2>7. 1 \in 0 .. Len(h) /\ Len(h) - 1 + 1 = Len(h)
    BY <1>0, <2>1
  <2> QED BY <2>1, <2>2, <2>4, <2>5, <2>6, <2>7 DEF h, first, new
<1> QED BY <1>5, <1>7, <1>8, <1>0, <1>3


AskedTypes ==
  /\ now \in Nat
  /\ recent \in [Clients -> Seq(Entries)]
  /\ \A c \in Clients : Len(recent[c]) <= MaxHistory
  /\ asked \in Seq([client : Clients, prompt : Prompts, at : Nat, refused : BOOLEAN])

\* The clock only goes forward.
InTime ==
  /\ \A i \in 1 .. Len(asked) : asked[i].at \in 0 .. now
  /\ \A i, j \in 1 .. Len(asked) : i <= j => asked[i].at <= asked[j].at

\* The history of c is made of its calls number calls_of[1], calls_of[2], ...
Remembers(c, calls_of) ==
  /\ \A k \in 1 .. Len(recent[c]) :
       /\ calls_of[k] \in 1 .. Len(asked)
       /\ asked[calls_of[k]].client = c
       /\ asked[calls_of[k]].prompt = recent[c][k].prompt
       /\ asked[calls_of[k]].at = recent[c][k].at
  /\ \A k, l \in 1 .. Len(recent[c]) : k < l => calls_of[k] < calls_of[l]

\* What it has forgotten came before them, and has left the window or was
\* pushed out.
ForgetsRightly(c, calls_of) ==
  \A j \in 1 .. Len(asked) :
    asked[j].client = c /\ (\A k \in 1 .. Len(recent[c]) : calls_of[k] # j) =>
      /\ \A k \in 1 .. Len(recent[c]) : j < calls_of[k]
      /\ now - asked[j].at > Window \/ Len(recent[c]) = MaxHistory

\* The inductive invariant: LoopExact speaks of the calls, and the guard only
\* has its histories.
GuardInv ==
  /\ AskedTypes
  /\ InTime
  /\ \A c \in Clients : \E calls_of : Remembers(c, calls_of) /\ ForgetsRightly(c, calls_of)
  /\ LoopExact

LEMMA GuardInvInit == Init => GuardInv
<1> SUFFICES ASSUME Init PROVE GuardInv
  OBVIOUS
<1>1. now = 0 /\ asked = <<>> /\ recent = [c \in Clients |-> <<>>]
  BY DEF Init, LoopInit
<1>2. Len(asked) = 0 /\ \A c \in Clients : recent[c] = <<>> /\ Len(recent[c]) = 0
  BY <1>1
<1>3. AskedTypes
  BY <1>1, <1>2 DEF AskedTypes
<1>4. InTime
  BY <1>2 DEF InTime
<1>5. \A c \in Clients : Remembers(c, <<>>) /\ ForgetsRightly(c, <<>>)
  BY <1>2 DEF Remembers, ForgetsRightly
<1>6. LoopExact
  BY <1>1 DEF LoopExact
<1> QED BY <1>3, <1>4, <1>5, <1>6 DEF GuardInv

\* The calls of c the guard still counts, when it is called at the end of
\* what was asked, are those from the front of the window on.
LEMMA CountedAre ==
  ASSUME GuardInv, NEW c \in Clients, NEW calls_of,
         Remembers(c, calls_of), ForgetsRightly(c, calls_of),
         NEW j \in 1 .. Len(asked), asked[j].client = c
  PROVE  LET mine == {k \in 1 .. Len(asked) : asked[k].client = c}
         IN (/\ Cardinality({k \in mine : k > j}) < MaxHistory
             /\ now - asked[j].at <= Window)
            <=> \E k \in Front(recent[c]) .. Len(recent[c]) : j = calls_of[k]
<1> DEFINE mine == {k \in 1 .. Len(asked) : asked[k].client = c}
           later == {k \in mine : k > j}
           h == recent[c]
           first == Front(h)
<1>0. /\ now \in Nat /\ Len(asked) \in Nat
      /\ h \in Seq(Entries) /\ Len(h) \in Nat /\ Len(h) <= MaxHistory
  BY DEF GuardInv, AskedTypes
<1>1. /\ first \in 1 .. Len(h) + 1
      /\ \A i \in 1 .. first - 1 : now - h[i].at > Window
      /\ first <= Len(h) => now - h[first].at <= Window
  BY <1>0, FrontIs
<1>2. IsFiniteSet(later)
  <2>1. IsFiniteSet(1 .. Len(asked))
    BY <1>0, FS_Interval
  <2>2. later \in SUBSET (1 .. Len(asked))
    OBVIOUS
  <2> QED BY <2>1, <2>2, FS_Subset
<1> HIDE DEF first, h
<1>3. /\ \A k \in 1 .. Len(h) : calls_of[k] \in mine /\ asked[calls_of[k]].at = h[k].at
      /\ \A k, l \in 1 .. Len(h) : k < l => calls_of[k] < calls_of[l]
  BY DEF Remembers, h
<1>4. ASSUME NEW k \in first .. Len(h), j = calls_of[k]
      PROVE  Cardinality(later) < MaxHistory /\ now - asked[j].at <= Window
  <2>0. k \in 1 .. Len(h) /\ k \in Nat /\ first \in 1 .. Len(h) /\ first <= k
    BY <1>0, <1>1
  <2>1. asked[j].at = h[k].at /\ asked[calls_of[first]].at = h[first].at
        /\ calls_of[first] <= j /\ calls_of[first] \in 1 .. Len(asked)
    BY <1>0, <1>3, <1>4, <2>0
  <2>2. asked[calls_of[first]].at <= asked[j].at
    BY <2>1 DEF GuardInv, InTime
  <2>3. asked[j].at \in Nat /\ asked[calls_of[first]].at \in Nat
    BY <1>0, <2>1 DEF GuardInv, InTime
  <2>4. now - asked[j].at <= Window
    <3>1. now - h[first].at <= Window
      BY <1>0, <1>1, <2>0
    <3>2. now - asked[calls_of[first]].at <= Window
      BY <2>1, <3>1
    <3> QED BY <1>0, <2>2, <2>3, <3>2
  <2> DEFINE S == k + 1 .. Len(h)
  <2>5. IsFiniteSet(S) /\ Cardinality(S) = Len(h) - k
    <3>1. k + 1 \in Int /\ Len(h) \in Int
      BY <1>0, <2>0
    <3>2. IsFiniteSet(S) /\ Cardinality(S) = IF k + 1 > Len(h) THEN 0 ELSE Len(h) - (k + 1) + 1
      BY <3>1, FS_Interval
    <3> QED BY <1>0, <2>0, <3>2
  <2>6. \A t \in later : \E x \in S : t = calls_of[x]
    <3> SUFFICES ASSUME NEW t \in later PROVE \E x \in S : t = calls_of[x]
      OBVIOUS
    <3>1. PICK x \in 1 .. Len(h) : t = calls_of[x]
      <4>1. CASE \A x \in 1 .. Len(h) : calls_of[x] # t
        <5>1. t < calls_of[k]
          BY <2>0, <4>1 DEF ForgetsRightly, h
        <5> QED BY <1>4, <5>1
      <4> QED BY <4>1
    <3>2. x > k
      BY <1>3, <1>4, <2>0, <3>1
    <3> QED BY <2>0, <3>1, <3>2
  <2>7. \A x \in S : calls_of[x] \in later
    BY <1>0, <1>3, <1>4, <2>0
  <2>8. \A x, y \in S : calls_of[x] = calls_of[y] => x = y
    BY <1>0, <1>3, <2>0
  <2> HIDE DEF S, later
  <2>9. Cardinality(later) = Cardinality(S)
    BY <2>5, <2>6, <2>7, <2>8, ImageSize
  <2> QED BY <1>0, <2>0, <2>4, <2>5, <2>9
<1>5. ASSUME Cardinality(later) < MaxHistory, now - asked[j].at <= Window
      PROVE  \E k \in first .. Len(h) : j = calls_of[k]
  <2>1. CASE \E k \in 1 .. Len(h) : calls_of[k] = j
    <3>1. PICK k \in 1 .. Len(h) : calls_of[k] = j
      BY <2>1
    <3>2. asked[j].at = h[k].at
      BY <1>3, <3>1
    <3>3. asked[j].at \in Nat
      BY <1>0 DEF GuardInv, InTime
    <3>4. ~ (k <= first - 1)
      BY <1>0, <1>1, <1>5, <3>2, <3>3
    <3>5. k \in first .. Len(h)
      BY <1>0, <1>1, <3>1, <3>4
    <3> QED BY <3>1, <3>5
  <2>2. CASE \A k \in 1 .. Len(h) : calls_of[k] # j
    <3>1. /\ \A k \in 1 .. Len(h) : j < calls_of[k]
          /\ now - asked[j].at > Window \/ Len(h) = MaxHistory
      BY <2>2 DEF ForgetsRightly, h
    <3>2. asked[j].at \in Nat
      BY <1>0 DEF GuardInv, InTime
    <3>3. Len(h) = MaxHistory
      BY <1>0, <1>5, <3>1, <3>2
    <3> DEFINE S == 1 .. Len(h)
               T == {calls_of[k] : k \in S}
    <3>4. IsFiniteSet(S) /\ Cardinality(S) = MaxHistory
      BY <1>0, <3>3, FS_Interval
    <3>5. \A x, y \in S : calls_of[x] = calls_of[y] => x = y
      BY <1>0, <1>3
    <3>6. T \in SUBSET later
      BY <1>3, <3>1
    <3>7. (\A x \in S : calls_of[x] \in T) /\ (\A t \in T : \E x \in S : t = calls_of[x])
      OBVIOUS
    <3> HIDE DEF S, T, later
    <3>8. Cardinality(T) = MaxHistory
      BY <3>4, <3>5, <3>7, ImageSize
    <3>9. Cardinality(T) <= Cardinality(later) /\ Cardinality(later) \in Nat
      BY <1>2, <3>6, FS_Subset, FS_CardinalityType
    <3> QED BY <1>5, <3>8, <3>9
  <2> QED BY <2>1, <2>2
<1> HIDE DEF later
<1>6. Cardinality(later) < MaxHistory /\ now - asked[j].at <= Window
      <=> \E k \in first .. Len(h) : j = calls_of[k]
  BY <1>4, <1>5
<1> QED BY <1>6 DEF later, first, h


Counted(c) ==
  LET mine == {j \in 1 .. Len(asked) : asked[j].client = c}
  IN {j \in mine : /\ Cardinality({k \in mine : k > j}) < MaxHistory
                   /\ now - asked[j].at <= Window}

\* What the guard counts in its history is what it should count.
LEMMA RepeatsAre ==
  ASSUME GuardInv, NEW c \in Clients, NEW p
  PROVE  Repeats(c, p) = Cardinality({j \in Counted(c) : asked[j].prompt = p})
<1> DEFINE h == recent[c]
           first == Front(h)
           kept == InWindow(h)
           S == {i \in DOMAIN kept : kept[i].prompt = p}
           T == {j \in Counted(c) : asked[j].prompt = p}
<1>0. now \in Nat /\ h \in Seq(Entries) /\ Len(h) \in Nat
  BY DEF GuardInv, AskedTypes
<1>1. PICK calls_of : Remembers(c, calls_of) /\ ForgetsRightly(c, calls_of)
  BY DEF GuardInv
<1>2. first \in 1 .. Len(h) + 1
  BY <1>0, FrontIs
<1>3. \A j \in 1 .. Len(asked) :
        j \in Counted(c) <=> /\ asked[j].client = c
                             /\ \E k \in first .. Len(h) : j = calls_of[k]
  <2> SUFFICES ASSUME NEW j \in 1 .. Len(asked), asked[j].client = c
               PROVE  j \in Counted(c) <=> \E k \in first .. Len(h) : j = calls_of[k]
    BY DEF Counted
  <2> QED BY <1>1, CountedAre DEF Counted
<1>4. Counted(c) \subseteq 1 .. Len(asked)
  BY DEF Counted
<1> HIDE DEF first
<1>5. /\ kept \in Seq(Entries) /\ Len(kept) = Len(h) - first + 1
      /\ DOMAIN kept = 1 .. Len(h) - first + 1
      /\ \A k \in 1 .. Len(h) - first + 1 : kept[k] = h[k + (first - 1)]
  <2>1. kept = SubSeq(h, first, Len(h))
    BY DEF InWindow, first
  <2> HIDE DEF kept, h
  <2>2. /\ kept \in Seq(Entries) /\ Len(kept) = Len(h) - first + 1
        /\ \A k \in 1 .. Len(h) - first + 1 : kept[k] = h[k + (first - 1)]
    BY <1>0, <1>2, <2>1
  <2> QED BY <2>2
<1> HIDE DEF kept, h
<1>6. /\ \A k \in 1 .. Len(h) : /\ calls_of[k] \in 1 .. Len(asked)
                                /\ asked[calls_of[k]].client = c
                                /\ asked[calls_of[k]].prompt = h[k].prompt
      /\ \A k, l \in 1 .. Len(h) : k < l => calls_of[k] < calls_of[l]
  BY <1>1 DEF Remembers, h
<1> DEFINE f == [i \in S |-> calls_of[i + (first - 1)]]
<1>7. \A i \in S : i \in Nat /\ i + (first - 1) \in first .. Len(h)
                   /\ i + (first - 1) \in 1 .. Len(h) /\ h[i + (first - 1)].prompt = p
  BY <1>0, <1>2, <1>5
<1>8. \A i \in S : f[i] \in T
  <2> SUFFICES ASSUME NEW i \in S PROVE calls_of[i + (first - 1)] \in T
    OBVIOUS
  <2>1. PICK k : k = i + (first - 1)
    OBVIOUS
  <2>2. k \in first .. Len(h) /\ k \in 1 .. Len(h) /\ h[k].prompt = p
    BY <1>7, <2>1
  <2>3. PICK j : j = calls_of[k]
    OBVIOUS
  <2>4. j \in 1 .. Len(asked) /\ asked[j].client = c /\ asked[j].prompt = p
    BY <1>6, <2>2, <2>3
  <2>5. j \in Counted(c)
    BY <1>3, <2>2, <2>3, <2>4
  <2> QED BY <2>1, <2>3, <2>4, <2>5
<1>9. \A t \in T : \E i \in S : t = f[i]
  <2> SUFFICES ASSUME NEW t \in T PROVE \E i \in S : t = f[i]
    OBVIOUS
  <2>1. t \in 1 .. Len(asked) /\ asked[t].prompt = p /\ t \in Counted(c)
    BY <1>4
  <2>2. PICK k \in first .. Len(h) : t = calls_of[k]
    BY <1>3, <2>1
  <2>3. k \in 1 .. Len(h) /\ h[k].prompt = p
    BY <1>0, <1>2, <1>6, <2>1, <2>2
  <2>4. PICK i : i = k - (first - 1)
    OBVIOUS
  <2>5. i \in 1 .. Len(h) - first + 1 /\ i + (first - 1) = k
    BY <1>0, <1>2, <2>2, <2>4
  <2>6. i \in S
    BY <1>5, <2>3, <2>5
  <2> QED BY <2>2, <2>5, <2>6
<1>10. \A x, y \in S : f[x] = f[y] => x = y
  <2> SUFFICES ASSUME NEW x \in S, NEW y \in S,
                      calls_of[x + (first - 1)] = calls_of[y + (first - 1)]
               PROVE  x = y
    OBVIOUS
  <2>1. /\ x + (first - 1) \in 1 .. Len(h) /\ y + (first - 1) \in 1 .. Len(h)
        /\ x \in Nat /\ y \in Nat
    BY <1>7
  <2>2. PICK k \in 1 .. Len(h) : k = x + (first - 1)
    BY <2>1
  <2>3. PICK l \in 1 .. Len(h) : l = y + (first - 1)
    BY <2>1
  <2>4. ~ (k < l) /\ ~ (l < k)
    <3>1. calls_of[k] = calls_of[l] /\ calls_of[k] \in Int
      BY <1>6, <2>2, <2>3
    <3> QED BY <1>6, <3>1
  <2> QED BY <1>0, <1>2, <2>1, <2>2, <2>3, <2>4
<1>11. IsFiniteSet(S)
  <2>1. IsFiniteSet(1 .. Len(h) - first + 1)
    BY <1>0, <1>2, FS_Interval
  <2>2. S \in SUBSET (1 .. Len(h) - first + 1)
    BY <1>5
  <2> QED BY <2>1, <2>2, FS_Subset
<1>12. Repeats(c, p) = Cardinality(S)
  BY DEF Repeats, kept, h
<1> HIDE DEF S, T, f
<1>13. Cardinality(T) = Cardinality(S)
  BY <1>8, <1>9, <1>10, <1>11, ImageSize
<1> QED BY <1>12, <1>13 DEF T


\* After a call the history is still made of the calls of its client.
LEMMA StillRemembers ==
  ASSUME GuardInv, NEW c \in Clients, NEW p \in Prompts, NEW refused \in BOOLEAN,
         recent' = [recent EXCEPT ![c] = Recorded(c, p)], now' = now,
         asked' = Append(asked, [client |-> c, prompt |-> p, at |-> now, refused |-> refused]),
         NEW d \in Clients
  PROVE  /\ recent'[d] \in Seq(Entries) /\ Len(recent'[d]) <= MaxHistory
         /\ \E calls_of : Remembers(d, calls_of)' /\ ForgetsRightly(d, calls_of)'
<1> DEFINE call == [client |-> c, prompt |-> p, at |-> now, refused |-> refused]
           n == Len(asked) + 1
<1>0. /\ now \in Nat /\ Len(asked) \in Nat /\ recent \in [Clients -> Seq(Entries)]
      /\ \A e \in Clients : recent[e] \in Seq(Entries) /\ Len(recent[e]) \in Nat
                            /\ Len(recent[e]) <= MaxHistory
      /\ \A i \in 1 .. Len(asked) : asked[i].at \in Nat
  BY DEF GuardInv, AskedTypes, InTime
<1>1. /\ Len(asked') = n
      /\ \A i \in 1 .. Len(asked) : asked'[i] = asked[i]
      /\ asked'[n].client = c /\ asked'[n].prompt = p /\ asked'[n].at = now
  BY DEF GuardInv, AskedTypes
<1> HIDE DEF n
<1>2. n = Len(asked) + 1
  BY DEF n
<1>3. PICK calls_of : Remembers(d, calls_of) /\ ForgetsRightly(d, calls_of)
  BY DEF GuardInv
<1>4. CASE d # c
  <2>1. recent'[d] = recent[d]
    BY <1>0, <1>4
  <2>2. Remembers(d, calls_of)'
    BY <1>0, <1>1, <1>2, <1>3, <2>1 DEF Remembers
  <2>3. ForgetsRightly(d, calls_of)'
    <3> SUFFICES ASSUME NEW j \in 1 .. n, asked'[j].client = d,
                        \A k \in 1 .. Len(recent[d]) : calls_of[k] # j
                 PROVE  /\ \A k \in 1 .. Len(recent[d]) : j < calls_of[k]
                        /\ now - asked'[j].at > Window \/ Len(recent[d]) = MaxHistory
      BY <1>1, <2>1 DEF ForgetsRightly
    <3>1. j \in 1 .. Len(asked) /\ asked'[j] = asked[j]
      BY <1>0, <1>1, <1>2, <1>4
    <3> QED BY <1>3, <3>1 DEF ForgetsRightly
  <2> QED BY <1>0, <2>1, <2>2, <2>3
<1>5. CASE d = c
  <2> DEFINE h == recent[c]
             new_h == Recorded(c, p)
             first == Front(h)
  <2>1. recent'[c] = new_h
    BY <1>0
  <2>2. PICK drop \in 0 .. Len(h) :
           /\ new_h \in Seq(Entries)
           /\ Len(new_h) = Len(h) - drop + 1
           /\ Len(new_h) <= MaxHistory
           /\ \A k \in 1 .. Len(h) - drop : new_h[k] = h[k + drop]
           /\ new_h[Len(h) - drop + 1] = [prompt |-> p, at |-> now]
           /\ \/ drop = first - 1
              \/ drop = 1 /\ first = 1 /\ Len(new_h) = MaxHistory
    BY <1>0, RecordedIs
  <2>3. /\ first \in 1 .. Len(h) + 1
        /\ \A i \in 1 .. first - 1 : now - h[i].at > Window
    BY <1>0, FrontIs
  <2>4. Len(h) \in Nat /\ Len(h) <= MaxHistory /\ drop \in Nat /\ drop <= Len(h)
    BY <1>0
  <2>5. /\ \A k \in 1 .. Len(h) : /\ calls_of[k] \in 1 .. Len(asked)
                                  /\ asked[calls_of[k]].client = c
                                  /\ asked[calls_of[k]].prompt = h[k].prompt
                                  /\ asked[calls_of[k]].at = h[k].at
        /\ \A k, l \in 1 .. Len(h) : k < l => calls_of[k] < calls_of[l]
    BY <1>3, <1>5 DEF Remembers
  <2>6. \A j \in 1 .. Len(asked) :
          asked[j].client = c /\ (\A k \in 1 .. Len(h) : calls_of[k] # j) =>
            /\ \A k \in 1 .. Len(h) : j < calls_of[k]
            /\ now - asked[j].at > Window \/ Len(h) = MaxHistory
    BY <1>3, <1>5 DEF ForgetsRightly
  <2> HIDE DEF h, new_h, first
  <2> DEFINE m == Len(h) - drop + 1
             now_of == [k \in 1 .. m |-> IF k < m THEN calls_of[k + drop] ELSE n]
  <2>7. /\ m \in Nat \ {0}
        /\ \A k \in 1 .. m : k < m => k + drop \in 1 .. Len(h) /\ now_of[k] = calls_of[k + drop]
        /\ now_of[m] = n
    BY <2>4
  <2>8. /\ \A k \in 1 .. m : k < m => new_h[k] = h[k + drop]
        /\ new_h[m] = [prompt |-> p, at |-> now]
        /\ Len(new_h) = m
    BY <2>2, <2>4
  <2> HIDE DEF m, now_of
  <2>13. PICK new_of : new_of = now_of
    OBVIOUS
  <2>9. \A k \in 1 .. m :
          /\ new_of[k] \in 1 .. n
          /\ asked'[new_of[k]].client = c
          /\ asked'[new_of[k]].prompt = new_h[k].prompt
          /\ asked'[new_of[k]].at = new_h[k].at
    <3> SUFFICES ASSUME NEW k \in 1 .. m
                 PROVE  /\ new_of[k] \in 1 .. n
                        /\ asked'[new_of[k]].client = c
                        /\ asked'[new_of[k]].prompt = new_h[k].prompt
                        /\ asked'[new_of[k]].at = new_h[k].at
      OBVIOUS
    <3>1. CASE k < m
      <4>1. PICK o \in 1 .. Len(h) : o = k + drop
        BY <2>7, <2>13, <3>1
      <4>2. new_of[k] = calls_of[o] /\ new_h[k] = h[o]
        BY <2>7, <2>13, <2>8, <3>1, <4>1
      <4>3. calls_of[o] \in 1 .. Len(asked)
        BY <2>5
      <4>4. asked'[calls_of[o]] = asked[calls_of[o]] /\ calls_of[o] \in 1 .. n
        BY <1>0, <1>1, <1>2, <4>3
      <4> QED BY <2>5, <4>1, <4>2, <4>4
    <3>2. CASE k = m
      BY <1>0, <1>1, <1>2, <2>7, <2>13, <2>8, <3>2
    <3>3. k < m \/ k = m
      BY <2>7
    <3> QED BY <3>1, <3>2, <3>3
  <2>10. \A k, l \in 1 .. m : k < l => new_of[k] < new_of[l]
    <3> SUFFICES ASSUME NEW k \in 1 .. m, NEW l \in 1 .. m, k < l PROVE new_of[k] < new_of[l]
      OBVIOUS
    <3>1. k < m /\ k + drop \in 1 .. Len(h) /\ new_of[k] = calls_of[k + drop]
      BY <2>7, <2>13
    <3>2. CASE l < m
      <4>1. l + drop \in 1 .. Len(h) /\ new_of[l] = calls_of[l + drop]
        BY <2>7, <2>13, <3>2
      <4>2. PICK o \in 1 .. Len(h) : o = k + drop
        BY <3>1
      <4>3. PICK u \in 1 .. Len(h) : u = l + drop
        BY <4>1
      <4>4. o < u
        BY <2>4, <4>2, <4>3
      <4> QED BY <2>5, <3>1, <4>1, <4>2, <4>3, <4>4
    <3>3. CASE l = m
      <4>1. PICK o \in 1 .. Len(h) : o = k + drop
        BY <3>1
      <4> QED BY <1>0, <1>2, <2>5, <2>7, <2>13, <3>1, <3>3, <4>1
    <3> QED BY <2>7, <2>13, <3>2, <3>3
  <2>11. Remembers(c, new_of)'
    BY <1>1, <2>1, <2>8, <2>9, <2>10 DEF Remembers
  <2>12. ForgetsRightly(c, new_of)'
    <3> SUFFICES ASSUME NEW j \in 1 .. n, asked'[j].client = c,
                        \A k \in 1 .. m : new_of[k] # j
                 PROVE  /\ \A k \in 1 .. m : j < new_of[k]
                        /\ now - asked'[j].at > Window \/ m = MaxHistory
      BY <1>1, <2>1, <2>8 DEF ForgetsRightly
    <3>1. j # n /\ j \in 1 .. Len(asked)
      BY <1>0, <1>2, <2>7, <2>13
    <3>2. asked'[j] = asked[j] /\ asked[j].client = c /\ asked[j].at \in Nat /\ j < n
      BY <1>0, <1>1, <1>2, <3>1
    <3>3. CASE \A k \in 1 .. Len(h) : calls_of[k] # j
      <4>1. /\ \A k \in 1 .. Len(h) : j < calls_of[k]
            /\ now - asked[j].at > Window \/ Len(h) = MaxHistory
        BY <2>6, <3>1, <3>2, <3>3
      <4>2. \A k \in 1 .. m : j < new_of[k]
        BY <2>7, <2>13, <3>2, <4>1
      <4>3. CASE ~ (now - asked[j].at > Window)
        <5>1. Len(h) = MaxHistory /\ 1 \in 1 .. Len(h)
          BY <2>4, <4>1, <4>3
        <5>2. calls_of[1] \in 1 .. Len(asked) /\ j < calls_of[1]
              /\ asked[calls_of[1]].at = h[1].at
          BY <2>5, <4>1, <5>1
        <5>3. asked[j].at <= h[1].at /\ h[1].at \in Nat
          <6>1. j <= calls_of[1]
            BY <5>2
          <6> QED BY <1>0, <3>1, <5>2, <6>1 DEF GuardInv, InTime
        <5>4. first = 1
          <6>1. ~ (1 <= first - 1)
            <7> SUFFICES ASSUME 1 <= first - 1 PROVE FALSE
              OBVIOUS
            <7>1. 1 \in 1 .. first - 1
              BY <2>3, <2>4
            <7>2. now - h[1].at > Window
              BY <2>3, <7>1
            <7> QED BY <1>0, <3>2, <4>3, <5>3, <7>2
          <6> QED BY <2>3, <2>4, <6>1
        <5>5. m = MaxHistory
          BY <2>2, <2>4, <5>1, <5>4 DEF m
        <5> QED BY <4>2, <5>5
      <4> QED BY <3>2, <4>2, <4>3
    <3>4. CASE \E k \in 1 .. Len(h) : calls_of[k] = j
      <4>1. PICK o \in 1 .. Len(h) : calls_of[o] = j
        BY <3>4
      <4>2. o <= drop
        <5> SUFFICES ASSUME ~ (o <= drop) PROVE FALSE
          OBVIOUS
        <5>1. PICK k : k = o - drop
          OBVIOUS
        <5>2. k \in 1 .. m /\ k < m /\ k + drop = o
          BY <2>4, <5>1 DEF m
        <5> QED BY <2>7, <2>13, <4>1, <5>2
      <4>3. \A k \in 1 .. m : j < new_of[k]
        <5> SUFFICES ASSUME NEW k \in 1 .. m, k < m PROVE j < new_of[k]
          BY <2>7, <2>13, <3>2
        <5>1. PICK u \in 1 .. Len(h) : u = k + drop /\ new_of[k] = calls_of[u]
          BY <2>7, <2>13
        <5>2. o < u
          BY <2>4, <4>2, <5>1
        <5> QED BY <2>5, <4>1, <5>1, <5>2
      <4>4. now - asked[j].at > Window \/ m = MaxHistory
        <5>1. CASE drop = first - 1
          BY <2>3, <2>4, <2>5, <4>1, <4>2, <5>1
        <5>2. CASE Len(new_h) = MaxHistory
          BY <2>8, <5>2
        <5> QED BY <2>2, <5>1, <5>2
      <4> QED BY <3>2, <4>3, <4>4
    <3> QED BY <3>3, <3>4
  <2> QED BY <1>5, <2>1, <2>2, <2>11, <2>12
<1> QED BY <1>4, <1>5

LEMMA AskKeepsGuardInv ==
  ASSUME GuardInv, NEW r \in Requests, NEW q \in Questions, Ask(r, q)
  PROVE  GuardInv'
<1> DEFINE c == q.client
           p == q.prompt
           refused == IsLoop(c, p)
           n == Len(asked) + 1
           call == [client |-> c, prompt |-> p, at |-> now, refused |-> refused]
           Calls == [client : Clients, prompt : Prompts, at : Nat, refused : BOOLEAN]
<1>0. c \in Clients /\ p \in Prompts /\ refused \in BOOLEAN
  BY DEF Prompts, IsLoop
<1>1. /\ recent' = [recent EXCEPT ![c] = Recorded(c, p)] /\ now' = now
      /\ asked' = Append(asked, call)
  BY DEF Ask, Record
<1>2. /\ now \in Nat /\ asked \in Seq(Calls) /\ Len(asked) \in Nat
      /\ recent \in [Clients -> Seq(Entries)]
  BY DEF GuardInv, AskedTypes
<1> HIDE DEF c, p, refused
<1>3. call \in Calls /\ call.client = c /\ call.prompt = p /\ call.at = now
      /\ call.refused = refused
  BY <1>0, <1>2
<1> HIDE DEF call
<1>4. /\ asked' \in Seq(Calls) /\ Len(asked') = n
      /\ \A i \in 1 .. Len(asked) : asked'[i] = asked[i]
      /\ asked'[n] = call
  BY <1>1, <1>2, <1>3, AppendProperties
<1>5. \A d \in Clients :
        /\ recent'[d] \in Seq(Entries) /\ Len(recent'[d]) <= MaxHistory
        /\ \E calls_of : Remembers(d, calls_of)' /\ ForgetsRightly(d, calls_of)'
  BY <1>0, <1>1, StillRemembers DEF call
<1>6. AskedTypes'
  <2>1. recent' \in [Clients -> Seq(Entries)]
    <3>1. recent' = [d \in Clients |-> recent'[d]]
      BY <1>1, <1>2
    <3> QED BY <1>5, <3>1
  <2> QED BY <1>1, <1>2, <1>4, <1>5, <2>1 DEF AskedTypes
<1>7. InTime'
  <2>1. /\ \A i \in 1 .. Len(asked) : asked'[i].at \in 0 .. now
        /\ \A i, j \in 1 .. Len(asked) : i <= j => asked'[i].at <= asked'[j].at
        /\ asked'[n].at = now
    BY <1>3, <1>4 DEF GuardInv, InTime
  <2>2. \A i \in 1 .. n : i \in 1 .. Len(asked) \/ i = n
    BY <1>2
  <2>3. \A i, j \in 1 .. n : i <= j => asked'[i].at <= asked'[j].at
    <3> SUFFICES ASSUME NEW i \in 1 .. n, NEW j \in 1 .. n, i <= j
                 PROVE  asked'[i].at <= asked'[j].at
      OBVIOUS
    <3>1. CASE j \in 1 .. Len(asked)
      <4>1. i \in 1 .. Len(asked)
        BY <1>2, <3>1
      <4> QED BY <2>1, <3>1, <4>1
    <3>2. CASE j = n
      <4>1. asked'[j].at = now
        BY <2>1, <3>2
      <4>2. CASE i \in 1 .. Len(asked)
        <5>1. asked'[i].at \in 0 .. now
          BY <2>1, <4>2
        <5> QED BY <1>2, <4>1, <5>1
      <4>3. CASE i = n
        BY <1>2, <3>2, <4>1, <4>3
      <4> QED BY <2>2, <4>2, <4>3
    <3> QED BY <2>2, <3>1, <3>2
  <2>4. \A i \in 1 .. n : asked'[i].at \in 0 .. now
    BY <1>2, <2>1, <2>2
  <2> QED BY <1>1, <1>4, <2>3, <2>4 DEF InTime
<1>8. LoopExact'
  <2> SUFFICES ASSUME NEW i \in 1 .. n
               PROVE  asked'[i].refused
                        <=> Cardinality({j \in KnownTo(i)' : asked'[j].prompt = asked'[i].prompt}) + 1
                              >= Threshold
    <3>1. DOMAIN asked' = 1 .. n
      BY <1>4
    <3> QED BY <3>1 DEF LoopExact
  <2>1. CASE i \in 1 .. Len(asked)
    <3>1. \A j \in 1 .. i : asked'[j] = asked[j]
      BY <1>2, <1>4, <2>1
    <3>2. {j \in 1 .. i - 1 : asked'[j].client = asked'[i].client}
            = {j \in 1 .. i - 1 : asked[j].client = asked[i].client}
      BY <1>2, <2>1, <3>1
    <3> DEFINE mine == {j \in 1 .. i - 1 : asked[j].client = asked[i].client}
    <3>7. KnownTo(i)' = {j \in mine : /\ Cardinality({k \in mine : k > j}) < MaxHistory
                                      /\ asked'[i].at - asked'[j].at <= Window}
      BY <3>2 DEF KnownTo
    <3>8. \A j \in mine : j \in 1 .. i /\ i \in 1 .. i
      BY <2>1
    <3>9. KnownTo(i) = {j \in mine : /\ Cardinality({k \in mine : k > j}) < MaxHistory
                                     /\ asked[i].at - asked[j].at <= Window}
      BY DEF KnownTo
    <3> HIDE DEF mine
    <3>10. \A j \in mine : asked'[i].at - asked'[j].at = asked[i].at - asked[j].at
      BY <3>1, <3>8
    <3>3. KnownTo(i)' = KnownTo(i)
      BY <3>7, <3>9, <3>10
    <3>4. KnownTo(i) \subseteq 1 .. i - 1
      BY DEF KnownTo
    <3>5. {j \in KnownTo(i)' : asked'[j].prompt = asked'[i].prompt}
            = {j \in KnownTo(i) : asked[j].prompt = asked[i].prompt}
      <4>1. \A j \in KnownTo(i) : asked'[j] = asked[j] /\ asked'[i] = asked[i]
        BY <1>2, <2>1, <3>1, <3>4
      <4> QED BY <3>3, <4>1
    <3>6. asked'[i] = asked[i] /\ i \in DOMAIN asked
      BY <1>2, <1>4, <2>1
    <3> QED BY <3>5, <3>6 DEF GuardInv, LoopExact
  <2>2. CASE i = n
    <3>1. i - 1 = Len(asked)
      BY <1>2, <2>2
    <3>2. asked'[i].client = c /\ asked'[i].prompt = p /\ asked'[i].at = now
          /\ asked'[i].refused = refused
      BY <1>3, <1>4, <2>2
    <3> DEFINE mine == {j \in 1 .. Len(asked) : asked[j].client = c}
    <3>3. {j \in 1 .. i - 1 : asked'[j].client = asked'[i].client} = mine
      BY <1>4, <3>1, <3>2
    <3>4. KnownTo(i)' = {j \in mine : /\ Cardinality({k \in mine : k > j}) < MaxHistory
                                      /\ asked'[i].at - asked'[j].at <= Window}
      BY <3>3 DEF KnownTo
    <3>5. KnownTo(i)' = Counted(c)
      <4>1. \A j \in mine : asked'[i].at - asked'[j].at = now - asked[j].at
        BY <1>4, <3>2
      <4> HIDE DEF mine
      <4>2. KnownTo(i)' = {j \in mine : /\ Cardinality({k \in mine : k > j}) < MaxHistory
                                        /\ now - asked[j].at <= Window}
        BY <3>4, <4>1
      <4> QED BY <4>2 DEF Counted, mine
    <3>6. Counted(c) \subseteq 1 .. Len(asked)
      BY DEF Counted
    <3>7. {j \in KnownTo(i)' : asked'[j].prompt = asked'[i].prompt}
            = {j \in Counted(c) : asked[j].prompt = p}
      <4>1. \A j \in Counted(c) : asked'[j] = asked[j]
        BY <1>4, <3>6
      <4> QED BY <3>2, <3>5, <4>1
    <3>8. refused <=> Repeats(c, p) + 1 >= Threshold
      BY DEF refused, IsLoop
    <3>9. Repeats(c, p) = Cardinality({j \in Counted(c) : asked[j].prompt = p})
      BY <1>0, RepeatsAre
    <3> QED BY <3>2, <3>7, <3>8, <3>9
  <2> QED BY <1>2, <2>1, <2>2
<1> QED BY <1>5, <1>6, <1>7, <1>8 DEF GuardInv

LEMMA TickKeepsGuardInv == GuardInv /\ Tick => GuardInv'
<1> SUFFICES ASSUME GuardInv, Tick PROVE GuardInv'
  OBVIOUS
<1>1. now' = now + 1 /\ UNCHANGED <<recent, asked>>
  BY DEF Tick, LoopTick, books
<1>2. now \in Nat /\ AskedTypes'
  BY <1>1 DEF GuardInv, AskedTypes
<1>3. InTime'
  BY <1>1, <1>2 DEF GuardInv, InTime
<1>4. ASSUME NEW c \in Clients
      PROVE  \E calls_of : Remembers(c, calls_of)' /\ ForgetsRightly(c, calls_of)'
  <2>1. PICK calls_of : Remembers(c, calls_of) /\ ForgetsRightly(c, calls_of)
    BY DEF GuardInv
  <2>2. \A j \in 1 .. Len(asked) : asked[j].at \in Nat
    BY <1>2 DEF GuardInv, InTime
  <2>3. Remembers(c, calls_of)'
    BY <1>1, <2>1 DEF Remembers
  <2>4. ForgetsRightly(c, calls_of)'
    BY <1>1, <1>2, <2>1, <2>2 DEF ForgetsRightly
  <2> QED BY <2>3, <2>4
<1>5. LoopExact'
  BY <1>1 DEF GuardInv, LoopExact, KnownTo
<1> QED BY <1>2, <1>3, <1>4, <1>5 DEF GuardInv

LEMMA RestartKeepsGuardInv == GuardInv /\ Restart => GuardInv'
<1> SUFFICES ASSUME GuardInv, Restart PROVE GuardInv'
  OBVIOUS
<1>1. now' = now /\ asked' = <<>> /\ recent' = [c \in Clients |-> <<>>]
  BY DEF Restart
<1>2. Len(asked') = 0 /\ \A c \in Clients : recent'[c] = <<>> /\ Len(recent'[c]) = 0
  BY <1>1
<1>3. AskedTypes'
  BY <1>1, <1>2 DEF GuardInv, AskedTypes
<1>4. InTime'
  BY <1>2 DEF InTime
<1>5. \A c \in Clients : Remembers(c, <<>>)' /\ ForgetsRightly(c, <<>>)'
  BY <1>2 DEF Remembers, ForgetsRightly
<1>6. LoopExact'
  BY <1>1 DEF LoopExact
<1> QED BY <1>3, <1>4, <1>5, <1>6 DEF GuardInv

LEMMA GuardInvNext == GuardInv /\ [Next]_vars => GuardInv'
<1> SUFFICES ASSUME GuardInv, [Next]_vars PROVE GuardInv'
  OBVIOUS
<1>1. CASE UNCHANGED <<recent, now, asked>>
  <2>1. AskedTypes' /\ InTime'
    BY <1>1 DEF GuardInv, AskedTypes, InTime
  <2>2. \A c \in Clients : \E calls_of : Remembers(c, calls_of)' /\ ForgetsRightly(c, calls_of)'
    <3> SUFFICES ASSUME NEW c \in Clients
                 PROVE  \E calls_of : Remembers(c, calls_of)' /\ ForgetsRightly(c, calls_of)'
      OBVIOUS
    <3>1. PICK calls_of : Remembers(c, calls_of) /\ ForgetsRightly(c, calls_of)
      BY DEF GuardInv
    <3>2. Remembers(c, calls_of)'
      BY <1>1, <3>1 DEF Remembers
    <3>3. ForgetsRightly(c, calls_of)'
      BY <1>1, <3>1 DEF ForgetsRightly
    <3> QED BY <3>2, <3>3
  <2>3. LoopExact'
    BY <1>1 DEF GuardInv, LoopExact, KnownTo
  <2> QED BY <2>1, <2>2, <2>3 DEF GuardInv
<1>2. CASE UNCHANGED vars
  BY <1>1, <1>2 DEF vars, books
<1>3. ASSUME NEW r \in Requests, NEW q \in Questions,
             RateLimited(r, q) \/ AskWithoutPrompt(r, q)
      PROVE  GuardInv'
  BY <1>1, <1>3 DEF RateLimited, AskWithoutPrompt, books
<1>4. ASSUME NEW r \in Requests,
             HitExact(r) \/ HitSimilar(r) \/ Miss(r) \/ Answered(r) \/ Failed(r) \/ Drop(r)
      PROVE  GuardInv'
  BY <1>1, <1>4 DEF HitExact, HitSimilar, ServeRow, Miss, Answered, Failed, Drop, books
<1>5. ASSUME NEW r \in Requests,
             Store(r) \/ StoreFails(r) \/ RecordTelemetry(r) \/ Flush(r) \/ FlushFails(r)
      PROVE  GuardInv'
  BY <1>1, <1>5 DEF Store, StoreFails, RecordTelemetry, Flush, FlushFails, books
<1> QED
  BY <1>2, <1>3, <1>4, <1>5, AskKeepsGuardInv, TickKeepsGuardInv, RestartKeepsGuardInv DEF Next

THEOREM GuardInvHolds == Spec => []GuardInv
BY GuardInvInit, GuardInvNext, PTL DEF Spec

\* A client is turned away as looping exactly when this is so, however its
\* requests interleave with others' (guardrails.rs, check_and_record).
THEOREM LoopGuardIsExact == Spec => []LoopExact
<1>1. GuardInv => LoopExact
  BY DEF GuardInv
<1> QED BY <1>1, GuardInvHolds, PTL

\* The types, from the three invariants; only the clock's bound is its own.

ClockBounded == now \in 0 .. MaxTime

\* The types, out of the three invariants; only the clock's bound is not in
\* any of them.
THEOREM AnswersTypes == Spec => []TypeOK
<1>1. Init => ClockBounded
  BY DEF ClockBounded, Init, LoopInit
<1>2. ClockBounded /\ [Next]_vars => ClockBounded'
  <2> SUFFICES ASSUME now \in 0 .. MaxTime, [Next]_vars PROVE now' \in 0 .. MaxTime
    BY DEF ClockBounded
  <2>1. UNCHANGED now \/ Tick
    BY DEF Next, vars, RateLimited, AskWithoutPrompt, Ask, Record, HitExact, HitSimilar, ServeRow,
           Miss, Answered, Failed, Drop, Store, StoreFails, RecordTelemetry, Flush, FlushFails,
           Restart
  <2> QED BY <2>1 DEF Tick, LoopTick
<1>3. ClockBounded /\ CacheInv /\ FilesInv /\ GuardInv => TypeOK
  <2> SUFFICES ASSUME now \in 0 .. MaxTime, CacheInv, FilesInv, GuardInv PROVE TypeOK
    BY DEF ClockBounded
  <2>1. ASSUME NEW c \in Clients
        PROVE  /\ Len(recent[c]) <= MaxHistory
               /\ \A i \in DOMAIN recent[c] : recent[c][i].at \in 0 .. now
    <3>1. recent[c] \in Seq(Entries) /\ Len(recent[c]) <= MaxHistory
      BY DEF GuardInv, AskedTypes
    <3>2. PICK calls_of : Remembers(c, calls_of)
      BY DEF GuardInv
    <3>3. DOMAIN recent[c] = 1 .. Len(recent[c])
      BY <3>1
    <3> QED BY <3>1, <3>2, <3>3 DEF Remembers, GuardInv, InTime
  <2>2. \A row \in rows : row.response \in Requests
    BY DEF CacheInv, RowIsOwn
  <2>3. \A i \in DOMAIN buffer : buffer[i] \in Requests
    BY DEF FilesInv, FilesTypes
  <2>4. \A i \in DOMAIN written : written[i] \in Requests
    BY DEF FilesInv, FilesTypes
  <2>5. \A i \in DOMAIN pushed : pushed[i] \in Requests
    BY DEF FilesInv, FilesTypes
  <2>6. tasks \subseteq {"store", "record", "flush"} \X Requests
    BY DEF FilesInv, FilesTypes, TaskKinds
  <2> QED BY <2>1, <2>2, <2>3, <2>4, <2>5, <2>6 DEF TypeOK, CacheInv, HandlerTypes
<1> QED BY <1>1, <1>2, <1>3, CacheInvHolds, FilesInvHolds, GuardInvHolds, PTL DEF Spec

=============================================================================
