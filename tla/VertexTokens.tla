---------------------------- MODULE VertexTokens ----------------------------
(***************************************************************************)
(* The OAuth tokens of the Vertex connector (src/vertex.rs): a DashMap of  *)
(* slots, one per connection, each an async mutex around the token last    *)
(* fetched; auth, which evicts, enters, locks, looks and fetches; and the  *)
(* two callers of auth: complete, which tries again after a 401, and       *)
(* vertex_stream_parts for a stream, which does not.  Google and the clock *)
(* go on while a caller waits, and a caller may be dropped at any await.   *)
(*                                                                         *)
(* DashMap is external: shards, each under a reader-writer lock of its own *)
(* that BLOCKS the thread.  Its calls are atomic but for the eviction,     *)
(* where the iterator's read guard outlives the call (edition 2021 drops   *)
(* the temporaries of an `if let` at its end): `remove` is then a second   *)
(* step that waits for the write lock of the shard the caller reads.       *)
(***************************************************************************)
EXTENDS Integers, Sequences, FiniteSets, SequencesExt

CONSTANTS
  Requests,
  Connections,      \* [project, account]: where to, and who signs
  ApiKeyConnection, \* a connection with api_key= instead of an account
  ShardOf(_),       \* the shard a cache key lives in
  MaxEntries,       \* MAX_CACHE_ENTRIES
  Skew,             \* REFRESH_SKEW_SECS
  Lifetimes,        \* expires_in of the tokens Google issues
  Nobody,
  MaxTime           \* bound of the runs: the clock

ASSUME NobodyAssumption == Nobody \notin Requests /\ Nobody \notin Nat
ASSUME NumbersAssumption ==
  MaxEntries \in Nat \ {0} /\ Skew \in Nat /\ Lifetimes \subseteq Nat /\ MaxTime \in Nat
ASSUME ConnectionsAssumption == ApiKeyConnection \notin Connections

VARIABLES
  tokens,   \* the map: cache keys to slots
  cached,   \* what each slot holds: a token and when it counts as expired
  lock,     \* each slot's mutex: the queue of callers, its head has it
  reading,  \* the shard whose read guard a caller holds across calls
  clock,
  pc, conn, streams,     \* where a caller is, its connection, its kind
  retrying, \* callers in their second round, with force_refresh
  slot,     \* the slot a caller has cloned
  asked,    \* `now`, read under the mutex
  bearer,   \* the token a caller was given, or that is on its way to it
  issued,   \* history: tokens Google has issued
  rejected  \* history: what issued was when a caller's first 401 came

map_vars == <<tokens, cached, lock, reading>>
call_vars == <<conn, streams, slot, asked, bearer, retrying>>
history == <<issued, rejected>>
vars == <<map_vars, clock, pc, call_vars, history>>

\* A slot is known by the call of auth that made it, so no two are alike.
Slots == Requests \X BOOLEAN
ThisCall(r) == <<r, r \in retrying>>

\* Project, location and secret are hashed into the key.
CacheKey(c) == c

Key(r) == CacheKey(conn[r])
CacheKeys == {CacheKey(c) : c \in Connections}

Places == { "idle", "sizing", "evicting", "entering", "locking", "posting",
            "issued", "ready", "sent", "answered", "refused", "failed" }
Ended == {"answered", "refused", "failed"}

\* A token is honoured for `life` seconds from when it was issued.
Token == [account : {c.account : c \in Connections}, serial : Nat, from : Nat, life : Lifetimes]
Entry == [token : Token, expires_at : Nat]

TypeOK ==
  /\ tokens \in UNION {[K -> Slots] : K \in SUBSET CacheKeys}
  /\ cached \in [Slots -> Entry \cup {Nobody}]
  /\ lock \in [Slots -> Seq(Requests)]
  /\ reading \in [Requests -> {ShardOf(k) : k \in CacheKeys} \cup {Nobody}]
  /\ clock \in Nat
  /\ pc \in [Requests -> Places]
  /\ conn \in [Requests -> Connections \cup {ApiKeyConnection}]
  /\ streams \subseteq Requests /\ retrying \subseteq Requests \ streams
  /\ slot \in [Requests -> Slots]
  /\ asked \in [Requests -> Nat]
  /\ bearer \in [Requests -> Token \cup {Nobody}]
  /\ issued \in Nat
  /\ rejected \in [Requests -> Nat]

Init ==
  /\ tokens = [k \in {} |-> Nobody]
  /\ cached = [s \in Slots |-> Nobody]
  /\ lock = [s \in Slots |-> <<>>]
  /\ reading = [r \in Requests |-> Nobody]
  /\ clock = 0
  /\ pc = [r \in Requests |-> "idle"]
  /\ conn = [r \in Requests |-> ApiKeyConnection]
  /\ streams = {} /\ retrying = {}
  /\ slot = [r \in Requests |-> <<r, FALSE>>]
  /\ asked = [r \in Requests |-> 0]
  /\ bearer = [r \in Requests |-> Nobody]
  /\ issued = 0
  /\ rejected = [r \in Requests |-> 0]

Goto(r, place) == pc' = [pc EXCEPT ![r] = place]

\* The call is over, and its locals are gone.
End(r, how) ==
  /\ pc' = [pc EXCEPT ![r] = how]
  /\ slot' = [slot EXCEPT ![r] = <<r, FALSE>>]
  /\ asked' = [asked EXCEPT ![r] = 0]
  /\ bearer' = [bearer EXCEPT ![r] = Nobody]
  /\ rejected' = [rejected EXCEPT ![r] = 0]
  /\ UNCHANGED <<conn, streams, retrying, issued>>

-----------------------------------------------------------------------------
(***************************************************************************)
(* auth.                                                                   *)
(***************************************************************************)

\* parse_connection has succeeded; an API key needs no token.
Begin(r, c, streaming) ==
  /\ pc[r] = "idle"
  /\ conn' = [conn EXCEPT ![r] = c]
  /\ streams' = IF streaming THEN streams \cup {r} ELSE streams
  /\ Goto(r, IF c = ApiKeyConnection THEN "ready" ELSE "sizing")
  /\ UNCHANGED <<map_vars, clock, slot, asked, bearer, retrying, history>>

MustEvict(r) ==
  Cardinality(DOMAIN tokens) >= MaxEntries /\ Key(r) \notin DOMAIN tokens

Roomy(r) ==
  /\ pc[r] = "sizing" /\ ~MustEvict(r)
  /\ Goto(r, "entering")
  /\ UNCHANGED <<map_vars, clock, call_vars, history>>

\* iter().next(): some entry's shard is read, and stays read.
PickVictim(r, k) ==
  /\ pc[r] = "sizing" /\ MustEvict(r) /\ k \in DOMAIN tokens
  /\ reading' = [reading EXCEPT ![r] = ShardOf(k)]
  /\ Goto(r, "evicting")
  /\ UNCHANGED <<tokens, cached, lock, clock, call_vars, history>>

\* Nobody reads the shard: a write lock of it can be had.
Writable(shard) == \A q \in Requests : reading[q] # shard

\* MUTANT of Entered: insert in place of entry().or_insert_with().
Entered_Replaces(r) ==
  [k \in DOMAIN tokens \cup {Key(r)} |-> IF k = Key(r) THEN ThisCall(r) ELSE tokens[k]]

\* entry().or_insert_with() makes a slot only for a key that has none.
Entered(r) ==
  IF Key(r) \in DOMAIN tokens
    THEN tokens
    ELSE [k \in DOMAIN tokens \cup {Key(r)} |->
            IF k = Key(r) THEN ThisCall(r) ELSE tokens[k]]

\* entry() and, after an eviction, remove() take the write lock of a shard.
\* The shard to remove from is the one the caller itself is reading, so from
\* "evicting" there is no step; what remains is entry().
Enter(r) ==
  /\ pc[r] = "entering"
  /\ Writable(ShardOf(Key(r)))
  /\ tokens' = Entered(r)
  /\ slot' = [slot EXCEPT ![r] = tokens'[Key(r)]]
  /\ lock' = [lock EXCEPT ![slot'[r]] = Append(@, r)]
  /\ Goto(r, "locking")
  /\ UNCHANGED <<cached, reading, clock, conn, streams, asked, bearer, retrying, history>>

HasLock(r) == lock[slot[r]] # <<>> /\ Head(lock[slot[r]]) = r

\* The mutex guard is dropped, or the caller leaves the queue for it.
Unlocked(r) == [lock EXCEPT ![slot[r]] = RemoveFirst(@, r)]

\* Is the slot's token served at this time?
Fresh(entry, now) == entry # Nobody /\ entry.expires_at > now + Skew

\* MUTANT of Reusable: force_refresh is not looked at.
Reusable_Always(r) == Fresh(cached[slot[r]], clock)

Reusable(r) == r \notin retrying /\ Fresh(cached[slot[r]], clock)

Reuse(r) ==
  /\ pc[r] = "locking" /\ HasLock(r) /\ Reusable(r)
  /\ bearer' = [bearer EXCEPT ![r] = cached[slot[r]].token]
  /\ lock' = Unlocked(r)
  /\ Goto(r, "ready")
  /\ UNCHANGED <<tokens, cached, reading, clock, conn, streams, slot, asked, retrying, history>>

\* The assertion is signed and the POST sent, under the mutex.
Post(r) ==
  /\ pc[r] = "locking" /\ HasLock(r) /\ ~Reusable(r)
  /\ asked' = [asked EXCEPT ![r] = clock]
  /\ Goto(r, "posting")
  /\ UNCHANGED <<map_vars, clock, conn, streams, slot, bearer, retrying, history>>

\* Google issues a token; its answer is on the way.
Issue(r, life) ==
  /\ pc[r] = "posting"
  /\ bearer' = [bearer EXCEPT ![r] =
       [account |-> conn[r].account, serial |-> issued + 1, from |-> clock, life |-> life]]
  /\ issued' = issued + 1
  /\ Goto(r, "issued")
  /\ UNCHANGED <<map_vars, clock, conn, streams, slot, asked, retrying, rejected>>

\* MUTANT of ExpiresAt: it counts from when the answer is read.
ExpiresAt_Late(r) == clock + bearer[r].life

\* expires_in counts from the time read before the POST.
ExpiresAt(r) == asked[r] + bearer[r].life

Store(r) ==
  /\ pc[r] = "issued"
  /\ cached' = [cached EXCEPT ![slot[r]] = [token |-> bearer[r], expires_at |-> ExpiresAt(r)]]
  /\ lock' = Unlocked(r)
  /\ asked' = [asked EXCEPT ![r] = 0]
  /\ Goto(r, "ready")
  /\ UNCHANGED <<tokens, reading, clock, conn, streams, slot, bearer, retrying, history>>

\* MUTANT of FetchFails: the client is built without a timeout.
FetchFails_NoTimeout(r) ==
  /\ pc[r] = "issued"
  /\ lock' = Unlocked(r)
  /\ End(r, "failed")
  /\ UNCHANGED <<tokens, cached, reading, clock>>

\* An invalid private key, a send error, the client's timeout, a status other
\* than 2xx, an answer that is no token: the slot stays as it was.
FetchFails(r) ==
  /\ pc[r] \in {"posting", "issued"}
  /\ lock' = Unlocked(r)
  /\ End(r, "failed")
  /\ UNCHANGED <<tokens, cached, reading, clock>>

-----------------------------------------------------------------------------
(***************************************************************************)
(* The callers.                                                            *)
(***************************************************************************)

\* The request proper; on a stream after its wait for a permit.
Send(r) ==
  /\ pc[r] = "ready"
  /\ Goto(r, "sent")
  /\ UNCHANGED <<map_vars, clock, call_vars, history>>

\* A 401 that complete answers with auth(connection, true).
TriesAgain(r) == conn[r] # ApiKeyConnection /\ r \notin streams \cup retrying

Retry(r) ==
  /\ pc[r] = "sent" /\ TriesAgain(r)
  /\ retrying' = retrying \cup {r}
  /\ rejected' = [rejected EXCEPT ![r] = issued]
  /\ bearer' = [bearer EXCEPT ![r] = Nobody]
  /\ Goto(r, "sizing")
  /\ UNCHANGED <<map_vars, clock, conn, streams, slot, asked, issued>>

\* A 401 that goes to the client.
Refuse(r) ==
  /\ pc[r] = "sent" /\ ~TriesAgain(r)
  /\ End(r, "refused")
  /\ UNCHANGED <<map_vars, clock>>

\* Any other answer.
Answer(r) ==
  /\ pc[r] = "sent"
  /\ End(r, "answered")
  /\ UNCHANGED <<map_vars, clock>>

\* A send error; or the handler is dropped, at one of its awaits: the mutex,
\* the POST, a stream's permit, the request.  A blocked thread drops nothing.
Drop(r) ==
  /\ \/ pc[r] \in {"locking", "posting", "issued", "sent"}
     \/ pc[r] = "ready" /\ r \in streams
  /\ lock' = Unlocked(r)
  /\ End(r, "failed")
  /\ UNCHANGED <<tokens, cached, reading, clock>>

Tick ==
  /\ clock < MaxTime
  /\ clock' = clock + 1
  /\ UNCHANGED <<map_vars, pc, call_vars, history>>

AuthStep(r) == Roomy(r) \/ (\E k \in DOMAIN tokens : PickVictim(r, k)) \/ Enter(r)
LockedStep(r) == Reuse(r) \/ Post(r) \/ Store(r) \/ FetchFails(r)
CallerStep(r) == Send(r) \/ Retry(r) \/ Refuse(r) \/ Answer(r)

Next ==
  \/ \E r \in Requests, c \in Connections \cup {ApiKeyConnection}, s \in BOOLEAN : Begin(r, c, s)
  \/ \E r \in Requests : AuthStep(r) \/ LockedStep(r) \/ CallerStep(r) \/ Drop(r)
  \/ \E r \in Requests, life \in Lifetimes : Issue(r, life)
  \/ Tick

Spec == Init /\ [][Next]_vars

\* Threads run, the HTTP client ends every POST by its timeout, and requests
\* are sent and answered.  Nothing makes Google issue tokens.
Fairness ==
  \A r \in Requests :
    WF_vars(AuthStep(r)) /\ WF_vars(LockedStep(r)) /\ WF_vars(CallerStep(r))
FairSpec == Spec /\ Fairness

-----------------------------------------------------------------------------

\* A caller is given a token of its own service account only, whoever made
\* the slot, filled it, or is waiting for it (the cache key of
\* parse_connection, the slot of auth).
OwnToken == \A r \in Requests : bearer[r] # Nobody => bearer[r].account = conn[r].account

\* Two tokens for one connection are never being fetched at once: the mutex is
\* held across the POST, and a key keeps its slot.
OneFetch ==
  \A q, r \in Requests :
    /\ pc[q] \in {"posting", "issued"} /\ pc[r] \in {"posting", "issued"}
    /\ Key(q) = Key(r)
    => q = r

\* The second attempt is made with a token issued after the first was turned
\* down, whatever other callers put into the slot meanwhile.
RetryIsNew ==
  \A r \in retrying : bearer[r] # Nobody => bearer[r].serial > rejected[r]

\* A token served from the cache is honoured for more than the margin to come,
\* however long its fetch took and its caller waited.
ServedFresh ==
  [][\A r \in Requests :
       pc[r] = "locking" /\ pc'[r] = "ready"
         => bearer'[r].from + bearer'[r].life > clock + Skew]_vars

\* Nobody waits for a token's mutex for ever: whoever has it is fetching under
\* a timeout, and waits for no shard.
LockWaitEnds == \A r \in Requests : pc[r] = "locking" ~> pc[r] # "locking"

\* README.md:155 "exchanges the service-account assertion for a short-lived
\* OAuth token": every call of auth comes back.  The code: the caller that
\* must evict waits for itself, and others for it.
AuthReturns ==
  \A r \in Requests : pc[r] = "sizing" ~> pc[r] \in {"ready", "sent"} \cup Ended

\* README.md:155 "retries once after a 401".  The code: not on a stream.
RefusedTwice ==
  \A r \in Requests : pc[r] = "refused" /\ conn[r] # ApiKeyConnection => r \in retrying

=============================================================================
