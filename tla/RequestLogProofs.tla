-------------------------- MODULE RequestLogProofs --------------------------
(***************************************************************************)
(* For any number of requests, clients, costs and lost rows: the trail and *)
(* the spend guard's books agree, and the reports with each other.         *)
(***************************************************************************)
EXTENDS RequestLog, FiniteSetTheorems, TLAPS

USE NothingAssumption, CostsAssumption

\* Where a request stands says what is kept for it, for its shadow, and
\* whether its row has been handed to the database.
Standing(r) ==
  /\ pc[r] \in {"idle", "begun", "cached"} => kept[r] = Nothing
  /\ pc[r] \in {"reserved", "answered", "failed"} => kept[r] \in Nat
  /\ pc[r] = "answered" => \E e \in Written : e.id = r /\ e.status = "success"
  /\ shadow[r] # "none" => pc[r] = "answered"
  /\ shadow[r] \in {"none", "spawned"} => shadow_kept[r] = Nothing

\* A row tells how its request ended and what is kept for it.
RowInOrder(e) ==
  /\ pc[e.id] \in {"answered", "cached", "failed"}
  /\ pc[e.id] = "cached" <=> e.from_cache
  /\ pc[e.id] = "failed" <=> e.status = "failed"
  /\ e.cost_cents = IF pc[e.id] = "cached" THEN 0 ELSE kept[e.id]
  /\ pc[e.id] = "failed" => kept[e.id] = 0
  /\ e.latency <=>
       pc[e.id] = "failed" \/ (pc[e.id] = "answered" /\ kind[e.id] \notin Streaming)
  /\ e.ttfb <=> pc[e.id] = "answered" /\ kind[e.id] \in Streaming

ComparisonInOrder(c) ==
  /\ pc[c.id] = "answered" /\ shadow[c.id] = "over"
  /\ c.primary = kept[c.id]
  /\ IF c.error THEN c.cost = Nothing /\ shadow_kept[c.id] \in {0, Nothing}
                ELSE c.cost = shadow_kept[c.id]

\* What a report has read is no more than the table has now, and still is all
\* there is if nothing came in between.
ReportsInOrder ==
  /\ IsFiniteSet(request_logs)
  /\ cache_stats \in [hits : Nat \cup {Nothing}, total : Nat \cup {Nothing}]
  /\ daily \in [successful : Nat \cup {Nothing}, providers : Nat \cup {Nothing}, calm : BOOLEAN]
  /\ cache_stats.hits # Nothing => cache_stats.hits <= Cardinality(Hits(request_logs))
  /\ cache_stats.total \notin {0, Nothing} => cache_stats.hits \in Nat /\ cache_stats.hits <= cache_stats.total
  /\ daily.successful # Nothing => daily.successful <= Cardinality(Successful(request_logs))
  /\ daily.successful # Nothing /\ daily.providers = Nothing /\ daily.calm
       => daily.successful = Cardinality(Successful(request_logs))
  /\ daily.providers # Nothing =>
       /\ daily.successful \in Nat /\ daily.successful <= daily.providers
       /\ daily.calm => daily.successful = daily.providers

\* The inductive invariant.  It is about rows written, under way and lost
\* alike, so that a row may arrive at any time or never.
IInv ==
  /\ TypeOK
  /\ \A r \in Requests : Standing(r)
  /\ \A e \in Written : RowInOrder(e)
  /\ \A a, b \in Written : a.id = b.id => a = b
  /\ \A c \in Comparisons : ComparisonInOrder(c)
  /\ ReportsInOrder

-----------------------------------------------------------------------------
(***************************************************************************)
(* Rows.                                                                   *)
(***************************************************************************)
LEMMA TwoTables == Log \cap Comparison = {}
BY DEF Log, Comparison

LEMMA ComparedTyped ==
  ASSUME NEW r \in Requests, kept[r] \in Nat, NEW cents \in Nat \cup {Nothing},
         NEW error \in BOOLEAN
  PROVE  LET c == Compared(r, cents, error) IN
           /\ c \in Comparison
           /\ c.id = r /\ c.primary = kept[r] /\ c.cost = cents /\ (c.error <=> error)
BY DEF Compared, Comparison

\* A row of either table that is handed to a task.
LEMMA Spawning ==
  ASSUME NEW row, Spawn(row), UNCHANGED tables, lost' = lost
  PROVE  /\ row \in Log => Written' = Written \cup {row} /\ Comparisons' = Comparisons
         /\ row \in Comparison => Comparisons' = Comparisons \cup {row} /\ Written' = Written
BY TwoTables DEF Spawn, tables, Written, Comparisons

LEMMA NothingWritten ==
  ASSUME inserts' = inserts, UNCHANGED tables, lost' = lost
  PROVE  Written' = Written /\ Comparisons' = Comparisons
BY DEF tables, Written, Comparisons

\* A row that arrives or is lost was written before.
LEMMA RowsStay ==
  ASSUME TypeOK, NEW row \in inserts, Insert(row) \/ InsertFails(row)
  PROVE  Written' = Written /\ Comparisons' = Comparisons
<1>1. row \in Log \cup Comparison /\ inserts' = inserts \ {row}
  BY DEF TypeOK, Insert, InsertFails
<1>2. request_logs \subseteq Log /\ shadow_comparisons \subseteq Comparison
  BY DEF TypeOK
<1>3. CASE InsertFails(row)
  BY <1>1, <1>3 DEF InsertFails, tables, Written, Comparisons
<1>4. CASE Insert(row) /\ row \in Log
  BY <1>1, <1>2, <1>4, TwoTables DEF Insert, Written, Comparisons
<1>5. CASE Insert(row) /\ row \notin Log
  BY <1>1, <1>2, <1>5, TwoTables DEF Insert, Written, Comparisons
<1> QED BY <1>3, <1>4, <1>5

LEMMA WrittenTyped ==
  ASSUME TypeOK
  PROVE  Written \subseteq Log /\ Comparisons \subseteq Comparison
BY DEF TypeOK, Written, Comparisons

LEMMA TheirIds ==
  /\ \A e \in Log : e.id \in Requests
  /\ \A c \in Comparison : c.id \in Requests
BY DEF Log, Comparison

-----------------------------------------------------------------------------
(***************************************************************************)
(* The handlers and their shadows.                                         *)
(***************************************************************************)

\* A step of a handler that has written nothing yet, with the rows it writes.
LEMMA HandlerLeaves ==
  ASSUME IInv, NEW r \in Requests, pc[r] \in {"idle", "begun", "reserved"},
         NEW next \in Places, pc' = [pc EXCEPT ![r] = next],
         kind' \in [Requests -> Kinds], kept' \in [Requests -> Nat \cup {Nothing}],
         shadow' \in [Requests -> {"none", "spawned", "calling", "over"}],
         \A q \in Requests \ {r} : kind'[q] = kind[q] /\ kept'[q] = kept[q] /\ shadow'[q] = shadow[q],
         client' = client, shadow_kept' = shadow_kept, UNCHANGED tables, UNCHANGED reports,
         lost' = lost,
         NEW fresh, fresh \subseteq Log, inserts' = inserts \cup fresh,
         \A e \in fresh : e.id = r /\ RowInOrder(e)',
         \A a, b \in fresh : a = b,
         Written' = Written \cup fresh, Comparisons' = Comparisons,
         Standing(r)'
  PROVE  IInv'
<1>1. TypeOK /\ Written \subseteq Log /\ Comparisons \subseteq Comparison
  BY WrittenTyped DEF IInv
<1>2. pc'[r] = next /\ \A q \in Requests \ {r} : pc'[q] = pc[q]
  BY <1>1 DEF TypeOK
<1>3. \A e \in Written : e.id \in Requests \ {r} /\ RowInOrder(e)
  BY <1>1, TheirIds DEF IInv, RowInOrder
<1>4. \A c \in Comparisons : c.id \in Requests \ {r} /\ ComparisonInOrder(c)
  BY <1>1, TheirIds DEF IInv, ComparisonInOrder
<1>5. \A a, b \in Written' : a.id = b.id => a = b
  BY <1>3 DEF IInv
<1>6. \A e \in Written' : RowInOrder(e)'
  <2>1. ASSUME NEW e \in Written PROVE RowInOrder(e)'
    BY <1>2, <1>3 DEF RowInOrder
  <2> QED BY <2>1
<1>7. \A c \in Comparisons' : ComparisonInOrder(c)'
  <2>1. ASSUME NEW c \in Comparisons PROVE ComparisonInOrder(c)'
    BY <1>2, <1>4 DEF ComparisonInOrder
  <2> QED BY <2>1
<1>8. ASSUME NEW q \in Requests \ {r} PROVE Standing(q)'
  BY <1>2 DEF IInv, Standing
<1>9. TypeOK'
  <2>1. pc' \in [Requests -> Places]
    BY <1>1 DEF TypeOK
  <2>2. request_logs' \cup {i \in inserts' : i \in Log} \subseteq Written'
    BY DEF Written
  <2>3. inserts' \cup lost' \subseteq Log \cup Comparison
    BY <1>1 DEF TypeOK
  <2> QED BY <1>1, <1>5, <2>1, <2>2, <2>3 DEF TypeOK, tables
<1>10. ReportsInOrder'
  BY DEF IInv, ReportsInOrder, tables, reports, Hits, Successful
<1> QED BY <1>5, <1>6, <1>7, <1>8, <1>9, <1>10 DEF IInv

\* A step of a shadow task.
LEMMA ShadowLeaves ==
  ASSUME IInv, NEW r \in Requests, shadow[r] \in {"spawned", "calling"},
         NEW next \in {"calling", "over"}, shadow' = [shadow EXCEPT ![r] = next],
         shadow_kept' \in [Requests -> Nat \cup {Nothing}],
         \A q \in Requests \ {r} : shadow_kept'[q] = shadow_kept[q],
         UNCHANGED handlers, UNCHANGED tables, UNCHANGED reports, lost' = lost,
         NEW fresh, fresh \subseteq Comparison, inserts' = inserts \cup fresh,
         \A c \in fresh : ComparisonInOrder(c)',
         Comparisons' = Comparisons \cup fresh, Written' = Written
  PROVE  IInv'
<1>1. TypeOK /\ Written \subseteq Log /\ Comparisons \subseteq Comparison
  BY WrittenTyped DEF IInv
<1>2. shadow'[r] = next /\ \A q \in Requests \ {r} : shadow'[q] = shadow[q]
  BY <1>1 DEF TypeOK
<1>3. \A e \in Written' : RowInOrder(e)'
  BY DEF IInv, RowInOrder, handlers
<1>4. \A c \in Comparisons : c.id \in Requests \ {r} /\ ComparisonInOrder(c)
  BY <1>1, TheirIds DEF IInv, ComparisonInOrder
<1>5. \A c \in Comparisons' : ComparisonInOrder(c)'
  <2>1. ASSUME NEW c \in Comparisons PROVE ComparisonInOrder(c)'
    BY <1>2, <1>4 DEF ComparisonInOrder, handlers
  <2> QED BY <2>1
<1>6. \A q \in Requests : Standing(q)'
  BY <1>2 DEF IInv, Standing, handlers
<1>7. TypeOK'
  <2>1. \A a, b \in request_logs' \cup {i \in inserts' : i \in Log} : a.id = b.id => a = b
    <3>1. {i \in inserts' : i \in Log} = {i \in inserts : i \in Log}
      BY TwoTables
    <3> QED BY <1>1, <3>1 DEF TypeOK, tables
  <2>2. shadow' \in [Requests -> {"none", "spawned", "calling", "over"}]
    BY <1>1 DEF TypeOK
  <2>3. inserts' \cup lost' \subseteq Log \cup Comparison
    BY <1>1 DEF TypeOK
  <2> QED BY <1>1, <2>1, <2>2, <2>3 DEF TypeOK, tables, handlers
<1>8. ReportsInOrder'
  BY DEF IInv, ReportsInOrder, tables, reports, Hits, Successful
<1> QED BY <1>3, <1>5, <1>6, <1>7, <1>8 DEF IInv

\* The steps that write no row.
LEMMA QuietKeepsIInv ==
  ASSUME IInv, NEW r \in Requests,
         \/ \E k \in Kinds : Begin(r, k)
         \/ TurnAway(r) \/ NotRouted(r) \/ GiveUp(r) \/ Drop(r)
         \/ \E e \in Estimates : Reserve(r, e)
  PROVE  IInv'
<1>1. TypeOK /\ Standing(r) /\ 0 \in Nat
  BY DEF IInv
<1>2. /\ client' = client /\ shadow' = shadow /\ shadow_kept' = shadow_kept
      /\ inserts' = inserts /\ lost' = lost /\ UNCHANGED tables /\ UNCHANGED reports
  BY DEF Begin, TurnAway, NotRouted, GiveUp, Drop, Reserve, shadows
<1>3. /\ pc[r] \in {"idle", "begun", "reserved"}
      /\ kind' \in [Requests -> Kinds] /\ kept' \in [Requests -> Nat \cup {Nothing}]
      /\ \A q \in Requests \ {r} : kind'[q] = kind[q] /\ kept'[q] = kept[q]
  <2>1. CASE \E k \in Kinds : Begin(r, k)
    BY <1>1, <2>1 DEF Begin, TypeOK
  <2>2. CASE TurnAway(r) \/ Drop(r)
    BY <1>1, <2>2 DEF TurnAway, Drop, TypeOK
  <2>3. CASE NotRouted(r) \/ GiveUp(r)
    BY <1>1, <2>3 DEF NotRouted, GiveUp, Keep, TypeOK
  <2>4. CASE \E e \in Estimates : Reserve(r, e)
    BY <1>1, <2>4 DEF Reserve, Keep, TypeOK
  <2> QED BY <2>1, <2>2, <2>3, <2>4
<1>4. shadow[r] = "none" /\ shadow_kept[r] = Nothing
  BY <1>1, <1>3 DEF Standing, TypeOK
<1>5. PICK next \in Places :
        /\ pc' = [pc EXCEPT ![r] = next]
        /\ next \in {"begun", "refused", "failed", "dropped", "reserved"}
        /\ next = "begun" => kept'[r] = Nothing
        /\ next \in {"failed", "reserved"} => kept'[r] \in Nat
  <2>1. CASE \E k \in Kinds : Begin(r, k)
    BY <1>1, <2>1 DEF Begin, Goto, Standing, Places
  <2>2. CASE TurnAway(r) \/ Drop(r)
    BY <2>2 DEF TurnAway, Drop, Goto, Places
  <2>3. CASE NotRouted(r) \/ GiveUp(r)
    BY <1>1, <2>3 DEF NotRouted, GiveUp, Goto, Keep, Places, TypeOK
  <2>4. CASE \E e \in Estimates : Reserve(r, e)
    BY <1>1, <2>4 DEF Reserve, Goto, Keep, Places, TypeOK
  <2> QED BY <2>1, <2>2, <2>3, <2>4
<1>6. Standing(r)'
  BY <1>1, <1>2, <1>4, <1>5 DEF Standing, TypeOK
<1>7. Written' = Written /\ Comparisons' = Comparisons
  BY <1>2, NothingWritten
<1>8. /\ shadow' \in [Requests -> {"none", "spawned", "calling", "over"}]
      /\ \A q \in Requests \ {r} : kind'[q] = kind[q] /\ kept'[q] = kept[q] /\ shadow'[q] = shadow[q]
  BY <1>1, <1>2, <1>3 DEF TypeOK
<1> DEFINE fresh == {}
<1>9. /\ fresh \subseteq Log /\ inserts' = inserts \cup fresh /\ Written' = Written \cup fresh
      /\ \A e \in fresh : e.id = r /\ RowInOrder(e)'
      /\ \A a, b \in fresh : a = b
  BY <1>2, <1>7
<1> HIDE DEF fresh
<1> QED BY <1>2, <1>3, <1>5, <1>6, <1>7, <1>8, <1>9, HandlerLeaves

\* The steps that write a row.
LEMMA ServingKeepsIInv ==
  ASSUME IInv, NEW r \in Requests, ServeCached(r)
  PROVE  IInv'
<1>1. TypeOK /\ Standing(r) /\ 0 \in Nat
  BY DEF IInv
<1>2. /\ pc[r] = "begun" /\ Spawn(FromCache(r)) /\ pc' = [pc EXCEPT ![r] = "cached"]
      /\ kind' = kind /\ kept' = kept /\ shadow' = shadow /\ client' = client
      /\ shadow_kept' = shadow_kept /\ UNCHANGED tables /\ UNCHANGED reports /\ lost' = lost
  BY DEF ServeCached, Goto, shadows
<1>3. PICK row :
        /\ row = FromCache(r)
        /\ row \in Log
        /\ row.id = r /\ row.status = "success" /\ row.cost_cents = 0
        /\ row.from_cache /\ ~row.latency /\ ~row.ttfb
  <2>1. PICK row : row = FromCache(r)
    OBVIOUS
  <2>2. row \in Log
    BY <1>1, <2>1 DEF FromCache, Entry, Log, TypeOK
  <2>3. /\ row.id = r /\ row.status = "success" /\ row.cost_cents = 0
        /\ row.from_cache /\ ~row.latency /\ ~row.ttfb
    BY <1>1, <2>1 DEF FromCache, Entry
  <2> QED BY <2>1, <2>2, <2>3
<1>4. pc'[r] = "cached" /\ kept[r] = Nothing /\ shadow[r] = "none" /\ shadow_kept[r] = Nothing
  BY <1>1, <1>2 DEF TypeOK, Standing
<1>5. Standing(r)'
  BY <1>2, <1>4 DEF Standing
<1>6. RowInOrder(row)'
  BY <1>2, <1>3, <1>4 DEF RowInOrder
<1>7. inserts' = inserts \cup {row} /\ Written' = Written \cup {row} /\ Comparisons' = Comparisons
  BY <1>2, <1>3, Spawning DEF Spawn
<1>8. /\ kind' \in [Requests -> Kinds] /\ kept' \in [Requests -> Nat \cup {Nothing}]
      /\ shadow' \in [Requests -> {"none", "spawned", "calling", "over"}]
      /\ "cached" \in Places /\ {row} \subseteq Log
  BY <1>1, <1>2, <1>3 DEF TypeOK, Places
<1> DEFINE fresh == {row}
<1>9. /\ fresh \subseteq Log /\ inserts' = inserts \cup fresh /\ Written' = Written \cup fresh
      /\ \A e \in fresh : e.id = r /\ RowInOrder(e)'
      /\ \A a, b \in fresh : a = b
  BY <1>3, <1>6, <1>7, <1>8
<1> HIDE DEF fresh
<1> QED BY <1>2, <1>5, <1>7, <1>8, <1>9, HandlerLeaves

LEMMA FailingKeepsIInv ==
  ASSUME IInv, NEW r \in Requests, CallFails(r)
  PROVE  IInv'
<1>1. TypeOK /\ Standing(r) /\ 0 \in Nat
  BY DEF IInv
<1>2. /\ pc[r] = "reserved" /\ Spawn(Errored(r)) /\ pc' = [pc EXCEPT ![r] = "failed"]
      /\ kept' = [kept EXCEPT ![r] = 0]
      /\ kind' = kind /\ shadow' = shadow /\ client' = client
      /\ shadow_kept' = shadow_kept /\ UNCHANGED tables /\ UNCHANGED reports /\ lost' = lost
  BY DEF CallFails, Goto, Keep, shadows
<1>3. PICK row :
        /\ row = Errored(r)
        /\ row \in Log
        /\ row.id = r /\ row.status = "failed" /\ row.cost_cents = 0
        /\ ~row.from_cache /\ row.latency /\ ~row.ttfb
  <2>1. PICK row : row = Errored(r)
    OBVIOUS
  <2>2. row \in Log
    BY <1>1, <2>1 DEF Errored, Entry, Log, TypeOK
  <2>3. /\ row.id = r /\ row.status = "failed" /\ row.cost_cents = 0
        /\ ~row.from_cache /\ row.latency /\ ~row.ttfb
    BY <1>1, <2>1 DEF Errored, Entry
  <2> QED BY <2>1, <2>2, <2>3
<1>4. pc'[r] = "failed" /\ kept'[r] = 0 /\ shadow[r] = "none" /\ shadow_kept[r] = Nothing
  BY <1>1, <1>2 DEF TypeOK, Standing
<1>5. Standing(r)'
  BY <1>1, <1>2, <1>4 DEF Standing
<1>6. RowInOrder(row)'
  BY <1>2, <1>3, <1>4 DEF RowInOrder
<1>7. inserts' = inserts \cup {row} /\ Written' = Written \cup {row} /\ Comparisons' = Comparisons
  BY <1>2, <1>3, Spawning DEF Spawn
<1>8. /\ kind' \in [Requests -> Kinds] /\ kept' \in [Requests -> Nat \cup {Nothing}]
      /\ shadow' \in [Requests -> {"none", "spawned", "calling", "over"}]
      /\ \A q \in Requests \ {r} : kind'[q] = kind[q] /\ kept'[q] = kept[q] /\ shadow'[q] = shadow[q]
      /\ "failed" \in Places /\ {row} \subseteq Log
  BY <1>1, <1>2, <1>3 DEF TypeOK, Places
<1> DEFINE fresh == {row}
<1>9. /\ fresh \subseteq Log /\ inserts' = inserts \cup fresh /\ Written' = Written \cup fresh
      /\ \A e \in fresh : e.id = r /\ RowInOrder(e)'
      /\ \A a, b \in fresh : a = b
  BY <1>3, <1>6, <1>7, <1>8
<1> HIDE DEF fresh
<1> QED BY <1>2, <1>5, <1>7, <1>8, <1>9, HandlerLeaves

LEMMA AnsweringKeepsIInv ==
  ASSUME IInv, NEW r \in Requests, NEW cents \in Actuals, NEW shadowed \in BOOLEAN,
         Answer(r, cents, shadowed)
  PROVE  IInv'
<1>1. TypeOK /\ Standing(r) /\ cents \in Nat
  BY DEF IInv
<1> DEFINE streamed == kind[r] \in Streaming
           direct == kind[r] \notin Streaming
<1>2. /\ pc[r] = "reserved" /\ Spawn(Answered(r, cents)) /\ pc' = [pc EXCEPT ![r] = "answered"]
      /\ kept' = [kept EXCEPT ![r] = cents]
      /\ shadow' = IF shadowed THEN [shadow EXCEPT ![r] = "spawned"] ELSE shadow
      /\ kind' = kind /\ client' = client
      /\ shadow_kept' = shadow_kept /\ UNCHANGED tables /\ UNCHANGED reports /\ lost' = lost
  BY DEF Answer, Goto, Keep
<1>3. Answered(r, cents) = Entry(r, "success", cents, FALSE, direct, streamed)
  BY DEF Answered
<1>4. streamed \in BOOLEAN /\ direct \in BOOLEAN
  OBVIOUS
<1>5. (streamed <=> kind[r] \in Streaming) /\ (direct <=> kind[r] \notin Streaming)
  OBVIOUS
<1> HIDE DEF streamed, direct
<1>6. PICK row :
        /\ row = Answered(r, cents)
        /\ row \in Log
        /\ row.id = r /\ row.status = "success" /\ row.cost_cents = cents
        /\ ~row.from_cache /\ (row.latency <=> direct) /\ (row.ttfb <=> streamed)
  <2>1. PICK row : row = Answered(r, cents)
    OBVIOUS
  <2>2. row \in Log
    BY <1>1, <1>3, <1>4, <2>1 DEF Entry, Log, TypeOK
  <2>3. /\ row.id = r /\ row.status = "success" /\ row.cost_cents = cents
        /\ ~row.from_cache /\ (row.latency <=> direct) /\ (row.ttfb <=> streamed)
    BY <1>1, <1>3, <1>4, <2>1 DEF Entry
  <2> QED BY <2>1, <2>2, <2>3
<1>7. /\ pc'[r] = "answered" /\ kept'[r] = cents /\ shadow_kept[r] = Nothing
      /\ shadow'[r] \in {"none", "spawned"}
  BY <1>1, <1>2 DEF TypeOK, Standing
<1>8. inserts' = inserts \cup {row} /\ Written' = Written \cup {row} /\ Comparisons' = Comparisons
  BY <1>2, <1>6, Spawning DEF Spawn
<1>9. Standing(r)'
  BY <1>1, <1>2, <1>6, <1>7, <1>8 DEF Standing
<1>10. RowInOrder(row)'
  BY <1>1, <1>2, <1>5, <1>6, <1>7 DEF RowInOrder
<1>11. /\ kind' \in [Requests -> Kinds] /\ kept' \in [Requests -> Nat \cup {Nothing}]
       /\ shadow' \in [Requests -> {"none", "spawned", "calling", "over"}]
       /\ \A q \in Requests \ {r} : kind'[q] = kind[q] /\ kept'[q] = kept[q] /\ shadow'[q] = shadow[q]
       /\ "answered" \in Places /\ {row} \subseteq Log
  BY <1>1, <1>2, <1>6 DEF TypeOK, Places
<1> DEFINE fresh == {row}
<1>12. /\ fresh \subseteq Log /\ inserts' = inserts \cup fresh /\ Written' = Written \cup fresh
       /\ \A e \in fresh : e.id = r /\ RowInOrder(e)'
       /\ \A a, b \in fresh : a = b
  BY <1>6, <1>8, <1>10, <1>11
<1> HIDE DEF fresh
<1> QED BY <1>2, <1>8, <1>9, <1>11, <1>12, HandlerLeaves

LEMMA ShadowKeepsIInv ==
  ASSUME IInv, NEW r \in Requests, ShadowStep(r)
  PROVE  IInv'
<1>1. TypeOK /\ Standing(r) /\ 0 \in Nat /\ Nothing \notin Nat
  BY DEF IInv
<1>2. /\ shadow[r] \in {"spawned", "calling"}
      /\ UNCHANGED handlers /\ UNCHANGED tables /\ UNCHANGED reports /\ lost' = lost
  BY DEF ShadowStep, ShadowSkips, ShadowReserves, ShadowAnswers, ShadowFails
<1>3. kept[r] \in Nat /\ pc[r] = "answered" /\ kept' = kept /\ pc' = pc
  BY <1>1, <1>2 DEF Standing, handlers
<1>4. CASE \E e \in Estimates : ShadowReserves(r, e)
  <2>1. PICK e \in Estimates : shadow_kept' = [shadow_kept EXCEPT ![r] = e]
    BY <1>4 DEF ShadowReserves
  <2>2. shadow' = [shadow EXCEPT ![r] = "calling"] /\ inserts' = inserts
    BY <1>4 DEF ShadowReserves
  <2>3. /\ shadow_kept' \in [Requests -> Nat \cup {Nothing}]
        /\ \A q \in Requests \ {r} : shadow_kept'[q] = shadow_kept[q]
    BY <1>1, <2>1 DEF TypeOK
  <2>4. Written' = Written /\ Comparisons' = Comparisons
    BY <1>2, <2>2, NothingWritten
  <2> DEFINE fresh == {}
  <2>5. /\ fresh \subseteq Comparison /\ inserts' = inserts \cup fresh
        /\ Comparisons' = Comparisons \cup fresh /\ \A c \in fresh : ComparisonInOrder(c)'
    BY <2>2, <2>4
  <2> HIDE DEF fresh
  <2> QED BY <1>2, <2>2, <2>3, <2>4, <2>5, ShadowLeaves
<1>5. ASSUME NEW cost \in Nat \cup {Nothing}, NEW error \in BOOLEAN,
             Spawn(Compared(r, cost, error)), ShadowOver(r),
             shadow_kept' \in [Requests -> Nat \cup {Nothing}],
             \A q \in Requests \ {r} : shadow_kept'[q] = shadow_kept[q],
             IF error THEN cost = Nothing /\ shadow_kept'[r] \in {0, Nothing}
                      ELSE cost = shadow_kept'[r]
      PROVE  IInv'
  <2>1. PICK row \in Comparison :
          /\ row = Compared(r, cost, error)
          /\ row.id = r /\ row.primary = kept[r] /\ row.cost = cost /\ (row.error <=> error)
    BY <1>3, ComparedTyped
  <2>2. inserts' = inserts \cup {row}
    BY <1>5, <2>1 DEF Spawn
  <2>3. Comparisons' = Comparisons \cup {row} /\ Written' = Written
    BY <1>2, <1>5, <2>1, Spawning
  <2>4. shadow' = [shadow EXCEPT ![r] = "over"] /\ shadow'[r] = "over"
    BY <1>1, <1>5 DEF ShadowOver, TypeOK
  <2>5. ComparisonInOrder(row)'
    BY <1>3, <1>5, <2>1, <2>4 DEF ComparisonInOrder
  <2> DEFINE fresh == {row}
  <2>6. /\ fresh \subseteq Comparison /\ inserts' = inserts \cup fresh
        /\ Comparisons' = Comparisons \cup fresh /\ \A c \in fresh : ComparisonInOrder(c)'
    BY <2>1, <2>2, <2>3, <2>5
  <2> HIDE DEF fresh
  <2> QED BY <1>2, <1>5, <2>2, <2>3, <2>4, <2>6, ShadowLeaves
<1>6. CASE ShadowSkips(r)
  <2>1. shadow_kept' = shadow_kept /\ shadow_kept[r] = Nothing
    BY <1>1, <1>6 DEF ShadowSkips, Standing
  <2>2. Spawn(Compared(r, Nothing, TRUE)) /\ ShadowOver(r)
    BY <1>6 DEF ShadowSkips
  <2>3. shadow_kept' \in [Requests -> Nat \cup {Nothing}]
    BY <1>1, <2>1 DEF TypeOK
  <2> QED BY <1>5, <2>1, <2>2, <2>3
<1>7. CASE ShadowFails(r)
  <2>1. shadow_kept' = [shadow_kept EXCEPT ![r] = 0]
    BY <1>7 DEF ShadowFails
  <2>2. Spawn(Compared(r, Nothing, TRUE)) /\ ShadowOver(r)
    BY <1>7 DEF ShadowFails
  <2>3. /\ shadow_kept' \in [Requests -> Nat \cup {Nothing}] /\ shadow_kept'[r] = 0
        /\ \A q \in Requests \ {r} : shadow_kept'[q] = shadow_kept[q]
    BY <1>1, <2>1 DEF TypeOK
  <2> QED BY <1>5, <2>2, <2>3
<1>8. CASE \E a \in Actuals : ShadowAnswers(r, a)
  <2>1. PICK a \in Actuals : /\ shadow_kept' = [shadow_kept EXCEPT ![r] = a]
                             /\ Spawn(Compared(r, a, FALSE)) /\ ShadowOver(r)
    BY <1>8 DEF ShadowAnswers
  <2>2. a \in Nat
    OBVIOUS
  <2>3. /\ shadow_kept' \in [Requests -> Nat \cup {Nothing}] /\ shadow_kept'[r] = a
        /\ \A q \in Requests \ {r} : shadow_kept'[q] = shadow_kept[q]
    BY <1>1, <2>1, <2>2 DEF TypeOK
  <2> QED BY <1>5, <2>1, <2>2, <2>3
<1> QED BY <1>4, <1>6, <1>7, <1>8 DEF ShadowStep

-----------------------------------------------------------------------------
(***************************************************************************)
(* The tables and the reports.                                             *)
(***************************************************************************)

\* What is counted, however many rows there are.
LEMMA Counts ==
  ASSUME IsFiniteSet(request_logs)
  PROVE  /\ Cardinality(request_logs) \in Nat
         /\ Cardinality(Hits(request_logs)) \in Nat
         /\ Cardinality(Successful(request_logs)) \in Nat
         /\ Cardinality(Hits(request_logs)) <= Cardinality(request_logs)
<1>1. Hits(request_logs) \subseteq request_logs /\ Successful(request_logs) \subseteq request_logs
  BY DEF Hits, Successful
<1> QED BY <1>1, FS_Subset, FS_CardinalityType

LEMMA CountsGrow ==
  ASSUME IsFiniteSet(request_logs), NEW row, request_logs' = request_logs \cup {row}
  PROVE  /\ IsFiniteSet(request_logs')
         /\ Cardinality(Hits(request_logs)) <= Cardinality(Hits(request_logs)')
         /\ Cardinality(Successful(request_logs)) <= Cardinality(Successful(request_logs)')
<1>1. IsFiniteSet(request_logs')
  BY FS_AddElement
<1>2. /\ Hits(request_logs) \subseteq Hits(request_logs)'
      /\ Hits(request_logs)' \subseteq request_logs'
      /\ Successful(request_logs) \subseteq Successful(request_logs)'
      /\ Successful(request_logs)' \subseteq request_logs'
  BY DEF Hits, Successful
<1>3. IsFiniteSet(Hits(request_logs)') /\ IsFiniteSet(Successful(request_logs)')
  BY <1>1, <1>2, FS_Subset
<1> QED BY <1>1, <1>2, <1>3, FS_Subset

LEMMA ArrivingKeepsReports ==
  ASSUME TypeOK, ReportsInOrder, NEW row \in inserts, Insert(row)
  PROVE  ReportsInOrder'
<1>1. /\ cache_stats' = cache_stats
      /\ daily' = [daily EXCEPT !.calm = @ /\ (row \notin Log \/ daily.providers # Nothing)]
  BY DEF Insert
<1>2. /\ IsFiniteSet(request_logs)
      /\ daily \in [successful : Nat \cup {Nothing}, providers : Nat \cup {Nothing}, calm : BOOLEAN]
      /\ cache_stats \in [hits : Nat \cup {Nothing}, total : Nat \cup {Nothing}]
  BY DEF ReportsInOrder
<1>3. /\ daily'.successful = daily.successful /\ daily'.providers = daily.providers
      /\ daily'.calm <=> daily.calm /\ (row \notin Log \/ daily.providers # Nothing)
      /\ daily' \in [successful : Nat \cup {Nothing}, providers : Nat \cup {Nothing}, calm : BOOLEAN]
  BY <1>1, <1>2
<1>4. CASE row \in Log
  <2>1. request_logs' = request_logs \cup {row}
    BY <1>4 DEF Insert
  <2>2. /\ IsFiniteSet(request_logs')
        /\ Cardinality(Hits(request_logs)) <= Cardinality(Hits(request_logs)')
        /\ Cardinality(Successful(request_logs)) <= Cardinality(Successful(request_logs)')
        /\ Cardinality(Hits(request_logs)) \in Nat /\ Cardinality(Hits(request_logs)') \in Nat
        /\ Cardinality(Successful(request_logs)) \in Nat
        /\ Cardinality(Successful(request_logs)') \in Nat
    <3>1. /\ IsFiniteSet(request_logs')
          /\ Cardinality(Hits(request_logs)) <= Cardinality(Hits(request_logs)')
          /\ Cardinality(Successful(request_logs)) <= Cardinality(Successful(request_logs)')
      BY <1>2, <2>1, CountsGrow
    <3>2. Cardinality(Hits(request_logs)') \in Nat /\ Cardinality(Successful(request_logs)') \in Nat
      <4>1. Hits(request_logs)' \subseteq request_logs' /\ Successful(request_logs)' \subseteq request_logs'
        BY DEF Hits, Successful
      <4> QED BY <3>1, <4>1, FS_Subset, FS_CardinalityType
    <3> QED BY <1>2, <3>1, <3>2, Counts
  <2>3. cache_stats.hits # Nothing => cache_stats.hits <= Cardinality(Hits(request_logs)')
    BY <1>2, <2>2 DEF ReportsInOrder
  <2>4. daily.successful # Nothing => daily.successful <= Cardinality(Successful(request_logs)')
    BY <1>2, <2>2 DEF ReportsInOrder
  <2> QED BY <1>1, <1>2, <1>3, <1>4, <2>2, <2>3, <2>4 DEF ReportsInOrder
<1>5. CASE row \notin Log
  <2>1. request_logs' = request_logs
    BY <1>5 DEF Insert
  <2>2. Hits(request_logs)' = Hits(request_logs) /\ Successful(request_logs)' = Successful(request_logs)
    BY <2>1 DEF Hits, Successful
  <2> QED BY <1>1, <1>2, <1>3, <1>5, <2>1, <2>2 DEF ReportsInOrder
<1> QED BY <1>4, <1>5

\* Rows, comparisons and requests, when no handler moves and nothing is written.
LEMMA TrailUntouched ==
  ASSUME IInv, UNCHANGED handlers, UNCHANGED shadows, Written' = Written,
         Comparisons' = Comparisons
  PROVE  /\ \A r \in Requests : Standing(r)'
         /\ \A e \in Written' : RowInOrder(e)'
         /\ \A a, b \in Written' : a.id = b.id => a = b
         /\ \A c \in Comparisons' : ComparisonInOrder(c)'
<1>1. \A r \in Requests : Standing(r)'
  BY DEF IInv, Standing, handlers, shadows
<1>2. \A e \in Written' : RowInOrder(e)'
  BY DEF IInv, RowInOrder, handlers, shadows
<1>3. \A a, b \in Written' : a.id = b.id => a = b
  BY DEF IInv
<1>4. \A c \in Comparisons' : ComparisonInOrder(c)'
  BY DEF IInv, ComparisonInOrder, handlers, shadows
<1> QED BY <1>1, <1>2, <1>3, <1>4

LEMMA InsertKeepsIInv ==
  ASSUME IInv, NEW row \in inserts, Insert(row) \/ InsertFails(row)
  PROVE  IInv'
<1>1. TypeOK /\ ReportsInOrder /\ UNCHANGED handlers /\ UNCHANGED shadows
      /\ inserts' = inserts \ {row} /\ row \in Log \cup Comparison
  BY DEF IInv, Insert, InsertFails, TypeOK
<1>2. Written' = Written /\ Comparisons' = Comparisons
  BY <1>1, RowsStay
<1>3. /\ \A r \in Requests : Standing(r)'
      /\ \A e \in Written' : RowInOrder(e)'
      /\ \A a, b \in Written' : a.id = b.id => a = b
      /\ \A c \in Comparisons' : ComparisonInOrder(c)'
  BY <1>1, <1>2, TrailUntouched
<1>4. TypeOK'
  <2>1. \A a, b \in request_logs' \cup {i \in inserts' : i \in Log} : a.id = b.id => a = b
    BY <1>3 DEF Written
  <2>2. request_logs' \subseteq Log /\ shadow_comparisons' \subseteq Comparison
    BY <1>1 DEF TypeOK, Insert, InsertFails, tables
  <2>3. inserts' \cup lost' \subseteq Log \cup Comparison
    BY <1>1 DEF TypeOK, Insert, InsertFails
  <2> QED BY <1>1, <2>1, <2>2, <2>3 DEF TypeOK, handlers, shadows
<1>5. ReportsInOrder'
  <2>1. CASE Insert(row)
    BY <1>1, <2>1, ArrivingKeepsReports
  <2>2. CASE InsertFails(row)
    BY <1>1, <2>2 DEF InsertFails, ReportsInOrder, tables, reports, Hits, Successful
  <2> QED BY <2>1, <2>2
<1> QED BY <1>3, <1>4, <1>5 DEF IInv

LEMMA ReportKeepsIInv ==
  ASSUME IInv, Report
  PROVE  IInv'
<1>1. /\ TypeOK /\ ReportsInOrder /\ UNCHANGED handlers /\ UNCHANGED shadows
      /\ inserts' = inserts /\ UNCHANGED tables /\ lost' = lost
  BY DEF IInv, Report, CountHits, CountTotal, DailySummary, DailyProviders
<1>2. Written' = Written /\ Comparisons' = Comparisons
  BY <1>1, NothingWritten
<1>3. /\ \A r \in Requests : Standing(r)'
      /\ \A e \in Written' : RowInOrder(e)'
      /\ \A a, b \in Written' : a.id = b.id => a = b
      /\ \A c \in Comparisons' : ComparisonInOrder(c)'
  BY <1>1, <1>2, TrailUntouched
<1>4. TypeOK'
  BY <1>1 DEF TypeOK, tables, handlers, shadows
<1> DEFINE hits == Cardinality(Hits(request_logs))
           all == Cardinality(request_logs)
           good == Cardinality(Successful(request_logs))
<1>5. /\ IsFiniteSet(request_logs) /\ hits \in Nat /\ all \in Nat /\ good \in Nat /\ hits <= all
      /\ Nothing \notin Nat
  BY <1>1, Counts DEF ReportsInOrder
<1>6. /\ IsFiniteSet(request_logs')
      /\ Cardinality(Hits(request_logs)') = hits
      /\ Cardinality(Successful(request_logs)') = good
  BY <1>1, <1>5 DEF tables, Hits, Successful
<1>7. ReportsInOrder'
  <2>1. CASE \E failing \in BOOLEAN : CountHits(failing)
    <3>1. PICK n \in Nat : n <= hits /\ cache_stats' = [hits |-> n, total |-> Nothing]
      BY <1>5, <2>1 DEF CountHits
    <3>2. daily' = daily
      BY <2>1 DEF CountHits
    <3> HIDE DEF hits, good
    <3> QED BY <1>1, <1>5, <1>6, <3>1, <3>2 DEF ReportsInOrder, hits, good
  <2>2. CASE \E failing \in BOOLEAN : CountTotal(failing)
    <3>1. PICK n \in {0, all} : cache_stats' = [cache_stats EXCEPT !.total = n]
      BY <1>5, <2>2 DEF CountTotal
    <3>2. daily' = daily /\ cache_stats.hits # Nothing
      BY <2>2 DEF CountTotal
    <3>3. cache_stats.hits \in Nat /\ cache_stats.hits <= hits
      BY <1>1, <3>2 DEF ReportsInOrder
    <3>4. cache_stats'.hits = cache_stats.hits /\ cache_stats'.total = n
          /\ cache_stats' \in [hits : Nat \cup {Nothing}, total : Nat \cup {Nothing}]
      BY <1>1, <1>5, <3>1 DEF ReportsInOrder
    <3>5. n # 0 => cache_stats.hits <= n
      BY <1>5, <3>1, <3>3
    <3> QED BY <1>1, <1>6, <3>2, <3>3, <3>4, <3>5 DEF ReportsInOrder
  <2>3. CASE DailySummary
    <3>1. /\ daily' = [successful |-> good, providers |-> Nothing, calm |-> TRUE]
          /\ cache_stats' = cache_stats
      BY <2>3 DEF DailySummary
    <3>2. daily' \in [successful : Nat \cup {Nothing}, providers : Nat \cup {Nothing}, calm : BOOLEAN]
      BY <1>5, <3>1
    <3>3. daily'.successful = good /\ daily'.providers = Nothing
      BY <3>1
    <3> HIDE DEF good
    <3> QED BY <1>1, <1>5, <1>6, <3>1, <3>2, <3>3 DEF ReportsInOrder, good
  <2>4. CASE DailyProviders
    <3>1. /\ daily' = [daily EXCEPT !.providers = good]
          /\ daily.successful # Nothing /\ daily.providers = Nothing
          /\ cache_stats' = cache_stats
      BY <2>4 DEF DailyProviders, ByProvider
    <3>2. /\ daily'.successful = daily.successful /\ daily'.providers = good
          /\ (daily'.calm <=> daily.calm)
          /\ daily' \in [successful : Nat \cup {Nothing}, providers : Nat \cup {Nothing}, calm : BOOLEAN]
      BY <1>1, <1>5, <3>1 DEF ReportsInOrder
    <3>3. /\ daily.successful \in Nat /\ daily.successful <= good
          /\ daily.calm => daily.successful = good
      BY <1>1, <3>1 DEF ReportsInOrder
    <3> QED BY <1>1, <1>5, <1>6, <3>1, <3>2, <3>3 DEF ReportsInOrder
  <2> QED BY <2>1, <2>2, <2>3, <2>4 DEF Report
<1> QED BY <1>3, <1>4, <1>7 DEF IInv

LEMMA InitIInv == Init => IInv
<1> SUFFICES ASSUME Init PROVE IInv
  OBVIOUS
<1>1. TypeOK
  BY DEF Init, TypeOK, Kinds, Places
<1>2. Written = {} /\ Comparisons = {}
  BY DEF Init, Written, Comparisons
<1>3. \A r \in Requests : Standing(r)
  BY DEF Init, Standing
<1>4. ReportsInOrder
  BY FS_EmptySet DEF Init, ReportsInOrder
<1> QED BY <1>1, <1>2, <1>3, <1>4 DEF IInv

LEMMA NextIInv == IInv /\ [Next]_vars => IInv'
<1> SUFFICES ASSUME IInv, [Next]_vars PROVE IInv'
  OBVIOUS
<1>1. ASSUME NEW r \in Requests, HandlerStep(r) PROVE IInv'
  BY <1>1, QuietKeepsIInv, ServingKeepsIInv, FailingKeepsIInv, AnsweringKeepsIInv DEF HandlerStep
<1>2. ASSUME NEW r \in Requests, ShadowStep(r) PROVE IInv'
  BY <1>2, ShadowKeepsIInv
<1>3. ASSUME NEW row \in inserts, Insert(row) \/ InsertFails(row) PROVE IInv'
  BY <1>3, InsertKeepsIInv
<1>4. CASE Report
  BY <1>4, ReportKeepsIInv
<1>5. CASE UNCHANGED vars
  <2>1. /\ UNCHANGED handlers /\ UNCHANGED shadows /\ UNCHANGED tables /\ UNCHANGED reports
        /\ inserts' = inserts /\ lost' = lost
    BY <1>5 DEF vars
  <2>2. TypeOK' /\ ReportsInOrder'
    BY <2>1 DEF IInv, TypeOK, ReportsInOrder, handlers, shadows, tables, reports, Hits, Successful
  <2>3. Written' = Written /\ Comparisons' = Comparisons
    BY <2>1, NothingWritten
  <2> QED BY <2>1, <2>2, <2>3, TrailUntouched DEF IInv
<1> QED BY <1>1, <1>2, <1>3, <1>4, <1>5 DEF Next

\* The invariant is inductive.
THEOREM IInvHolds == Spec => []IInv
<1> QED BY InitIInv, NextIInv, PTL DEF Spec

\* The types; among them that no request is ever given two rows, on which the
\* UNIQUE request_id of the table would fail.
THEOREM TypeCorrect == Spec => []TypeOK
<1>1. IInv => TypeOK
  BY DEF IInv
<1> QED BY <1>1, IInvHolds, PTL

\* Every row has the cost SpendGuard keeps for its request, every answer is in
\* a row, and every comparison agrees with both (record_request, record_error,
\* record_shadow_comparison and their callers).
THEOREM TrailFollowsMoney == Spec => []LogFollowsMoney
<1>1. ASSUME IInv PROVE LogFollowsMoney
  <2>1. Written \subseteq Log /\ Comparisons \subseteq Comparison
    BY <1>1, WrittenTyped DEF IInv
  <2>2. ASSUME NEW e \in Written
        PROVE  IF e.from_cache THEN e.cost_cents = 0 /\ kept[e.id] = Nothing
               ELSE e.cost_cents = kept[e.id] /\ (e.status = "failed" => kept[e.id] = 0)
    <3>1. RowInOrder(e) /\ Standing(e.id)
      BY <1>1, <2>1, TheirIds DEF IInv
    <3> QED BY <3>1 DEF RowInOrder, Standing
  <2>3. \A r \in Requests : pc[r] = "answered" => \E e \in Written : e.id = r /\ e.status = "success"
    BY <1>1 DEF IInv, Standing
  <2>4. ASSUME NEW c \in Comparisons
        PROVE  /\ IF c.error THEN c.cost = Nothing /\ shadow_kept[c.id] \in {0, Nothing}
                             ELSE c.cost = shadow_kept[c.id]
               /\ \E e \in Written : e.id = c.id /\ e.cost_cents = c.primary
    <3>1. ComparisonInOrder(c) /\ c.id \in Requests
      BY <1>1, <2>1, TheirIds DEF IInv
    <3>2. PICK e \in Written : e.id = c.id
      BY <2>3, <3>1 DEF ComparisonInOrder
    <3>3. RowInOrder(e)
      BY <1>1 DEF IInv
    <3>4. e.cost_cents = c.primary
      BY <3>1, <3>2, <3>3 DEF RowInOrder, ComparisonInOrder
    <3> QED BY <3>1, <3>2, <3>4 DEF ComparisonInOrder
  <2> QED BY <2>2, <2>3, <2>4 DEF LogFollowsMoney
<1> QED BY <1>1, IInvHolds, PTL

\* Whatever arrives between the queries of a report, its figures fit together,
\* and the overview's two latency samples are of different answers.
THEOREM ReportsAlwaysAddUp == Spec => []ReportsAddUp
<1>1. ASSUME IInv PROVE ReportsAddUp
  <2>1. request_logs \subseteq Written
    BY DEF Written
  <2>2. \A e \in request_logs : RowInOrder(e) /\ e.status \in {"success", "failed"}
    BY <1>1, <2>1, WrittenTyped DEF IInv, Log
  <2>3. SamplesDisjoint
    BY <2>2 DEF RowInOrder, SamplesDisjoint, Overview, Hits, Successful
  <2> QED BY <1>1, <2>3 DEF IInv, ReportsInOrder, ReportsAddUp
<1> QED BY <1>1, IInvHolds, PTL
=============================================================================
