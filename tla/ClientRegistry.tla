--------------------------- MODULE ClientRegistry ---------------------------
(***************************************************************************)
(* Who is a client and at what tier: the client_tiers table, the sync task *)
(* of src/client_registry.rs that carries it into the ApiKeyStore of       *)
(* src/auth.rs and into the RateLimiter, and the requests that meanwhile   *)
(* authenticate, look up their tier and register themselves at the default *)
(* one if they find none.                                                  *)
(*                                                                         *)
(* The sync applies the tiers row by row, each through status and the two  *)
(* locks of register, and installs the auth snapshot last.                 *)
(***************************************************************************)
EXTENDS RateLimiter

CONSTANTS
  Arrivals,             \* concurrent requests; a slot is reused when one ends
  TierNames,            \* what ROUTERFUEL_CLIENT_TIERS may call a tier
  NoKey,                \* not a key
  NoRow                 \* not in the table

ASSUME NoKeyAssumption == NoKey \notin Keys

\* The table has a CHECK on its tier column; the environment has none.
Row == [tier : Tiers, active : BOOLEAN]

ASSUME NoRowAssumption == NoRow \notin Row

VARIABLES
  rows,                 \* the client_tiers table
  env_keys,             \* ApiKeyStore.env_keys: immutable after init
  db_keys,              \* ApiKeyStore.db_keys: the last good snapshot
  serving,              \* load_all_tiers is done, axum::serve runs
  sync,                 \* where the sync task stands
  pulled,               \* the rows its query returned
  todo,                 \* those it has not applied yet
  registering,          \* the key it is calling register for
  at,                   \* where each request stands
  key                   \* the key each request came with

sync_vars == <<sync, pulled, todo, registering>>
store_vars == <<env_keys, db_keys, serving>>
request_vars == <<at, key>>
registry_vars == <<limiter_vars, rows, store_vars, sync_vars, request_vars>>

SyncPlaces == {"asleep", "applying", "limiter", "tier"}
Places == {"idle", "authenticated", "defaulting", "halfway", "checking"}

RegistryTypeOK ==
  /\ LimiterTypeOK
  /\ rows \in [Keys -> Row \cup {NoRow}]
  /\ env_keys \subseteq Keys
  /\ db_keys \in [Keys -> {"unknown", "active", "revoked"}]
  /\ serving \in BOOLEAN
  /\ sync \in SyncPlaces
  /\ pulled \in [Keys -> Row \cup {NoRow}]
  /\ todo \subseteq Keys
  /\ registering \in Keys \cup {NoKey}
  /\ at \in [Arrivals -> Places]
  /\ key \in [Arrivals -> Keys \cup {NoKey}]

\* parse_tier: a name nobody knows is Pro, which main makes the default too.
ParseTier(name) == IF name \in Tiers THEN name ELSE DefaultTier

\* load_tiers_from_env: some keys are registered before anybody is served.
EnvRegistries ==
  { [k \in Keys |-> IF named[k] = NoTier THEN NoTier ELSE ParseTier(named[k])] :
      named \in [Keys -> TierNames \cup {NoTier}] }

\* The environment is read: ROUTERFUEL_API_KEYS into the store, and
\* ROUTERFUEL_CLIENT_TIERS into the rate limiter.  The table may hold anything.
RegistryInit ==
  /\ limiters \in EnvRegistries
  /\ tiers = limiters
  /\ rows \in [Keys -> Row \cup {NoRow}]
  /\ env_keys \in SUBSET Keys
  /\ db_keys = [k \in Keys |-> "unknown"]
  /\ serving = FALSE
  /\ sync = "asleep"
  /\ pulled = [k \in Keys |-> NoRow]
  /\ todo = {}
  /\ registering = NoKey
  /\ at = [r \in Arrivals |-> "idle"]
  /\ key = [r \in Arrivals |-> NoKey]

-----------------------------------------------------------------------------
(***************************************************************************)
(* The table, as an operator or a signup application edits it.             *)
(***************************************************************************)
Provision(k, row) ==
  /\ rows[k] # row
  /\ rows' = [rows EXCEPT ![k] = row]
  /\ UNCHANGED <<limiter_vars, store_vars, sync_vars, request_vars>>

-----------------------------------------------------------------------------
(***************************************************************************)
(* sync_clients_from_db                                                    *)
(***************************************************************************)

\* The query returns all rows, the inactive ones too.
Pull ==
  /\ sync = "asleep"
  /\ sync' = "applying"
  /\ pulled' = rows
  /\ todo' = {k \in Keys : rows[k] # NoRow}
  /\ UNCHANGED <<limiter_vars, rows, store_vars, registering, request_vars>>

\* MUTANT of PullFails: a failed query counts as an empty table.
PullFails_EmptiesStore ==
  /\ sync = "asleep"
  /\ serving' = TRUE
  /\ db_keys' = [k \in Keys |-> "unknown"]
  /\ UNCHANGED <<limiter_vars, rows, env_keys, sync_vars, request_vars>>

\* The query fails, or there is no table: the snapshot stays.  After the first
\* attempt the server starts in any case.
PullFails ==
  /\ sync = "asleep"
  /\ serving' = TRUE
  /\ UNCHANGED <<limiter_vars, rows, env_keys, db_keys, sync_vars, request_vars>>

\* MUTANT of PassOver: a client registered at any tier is left alone.
PassOver_Registered(k) ==
  /\ sync = "applying"
  /\ k \in todo
  /\ pulled[k].active => Status(k) # NoTier
  /\ todo' = todo \ {k}
  /\ UNCHANGED <<limiter_vars, rows, store_vars, sync, pulled, registering, request_vars>>

\* A row whose tier is the registered one, or an inactive one, is passed over:
\* register would reset the client's bucket.
PassOver(k) ==
  /\ sync = "applying"
  /\ k \in todo
  /\ pulled[k].active => Status(k) = ParseTier(pulled[k].tier)
  /\ todo' = todo \ {k}
  /\ UNCHANGED <<limiter_vars, rows, store_vars, sync, pulled, registering, request_vars>>

\* Any other is registered: limiter first, ...
StartRegister(k) ==
  /\ sync = "applying"
  /\ k \in todo
  /\ pulled[k].active
  /\ Status(k) # ParseTier(pulled[k].tier)
  /\ sync' = "limiter"
  /\ registering' = k
  /\ UNCHANGED <<limiter_vars, rows, store_vars, pulled, todo, request_vars>>

SyncLimiter ==
  /\ sync = "limiter"
  /\ InsertLimiter(registering, ParseTier(pulled[registering].tier))
  /\ sync' = "tier"
  /\ UNCHANGED <<rows, store_vars, pulled, todo, registering, request_vars>>

\* ... tier second.
SyncTier ==
  /\ sync = "tier"
  /\ InsertTier(registering, ParseTier(pulled[registering].tier))
  /\ sync' = "applying"
  /\ todo' = todo \ {registering}
  /\ registering' = NoKey
  /\ UNCHANGED <<rows, store_vars, pulled, request_vars>>

\* What the snapshot says of a key.
Standing(row) ==
  IF row = NoRow THEN "unknown"
  ELSE IF row.active THEN "active" ELSE "revoked"

\* MUTANT of Install: the snapshot is swapped in before the tiers are applied.
Install_First ==
  /\ sync = "applying"
  /\ db_keys' = [k \in Keys |-> Standing(pulled[k])]
  /\ serving' = TRUE
  /\ sync' = IF todo = {} THEN "asleep" ELSE sync
  /\ UNCHANGED <<limiter_vars, rows, env_keys, pulled, todo, registering, request_vars>>

\* replace_db_keys, once every row has been applied.
Install ==
  /\ sync = "applying"
  /\ todo = {}
  /\ db_keys' = [k \in Keys |-> Standing(pulled[k])]
  /\ serving' = TRUE
  /\ sync' = "asleep"
  /\ UNCHANGED <<limiter_vars, rows, env_keys, pulled, todo, registering, request_vars>>

-----------------------------------------------------------------------------
(***************************************************************************)
(* A request: api_key_middleware, then RateLimiter::check.                 *)
(***************************************************************************)

\* MUTANT of Accepts: the environment is asked first.
Accepts_EnvFirst(k) == k \in env_keys \/ db_keys[k] = "active"

\* validate_identity: the table's word, and the environment's only for a key
\* the table has never heard of.
Accepts(k) ==
  \/ db_keys[k] = "active"
  \/ db_keys[k] = "unknown" /\ k \in env_keys

MoveTo(r, place) ==
  /\ at' = [at EXCEPT ![r] = place]
  /\ UNCHANGED <<rows, store_vars, sync_vars, key>>

Authenticate(r, k) ==
  /\ serving
  /\ at[r] = "idle"
  /\ Accepts(k)
  /\ key' = [key EXCEPT ![r] = k]
  /\ at' = [at EXCEPT ![r] = "authenticated"]
  /\ UNCHANGED <<limiter_vars, rows, store_vars, sync_vars>>

\* check reads the tier, and lets go of the lock.
LookUpTier(r) ==
  /\ at[r] = "authenticated"
  /\ MoveTo(r, IF Status(key[r]) = NoTier THEN "defaulting" ELSE "checking")
  /\ UNCHANGED limiter_vars

\* A client without one is registered at the default.
DefaultLimiter(r) ==
  /\ at[r] = "defaulting"
  /\ InsertLimiter(key[r], DefaultTier)
  /\ MoveTo(r, "halfway")

DefaultTierNoted(r) ==
  /\ at[r] = "halfway"
  /\ InsertTier(key[r], DefaultTier)
  /\ MoveTo(r, "checking")

\* check_limit, whatever governor says: the request is served or refused.  The
\* limiter is there by then (RegisteredBeforeServed), so the tier the caller
\* read, for which a missing one would be built, makes no difference.
CheckLimit(r) ==
  /\ at[r] = "checking"
  /\ LimitAt(key[r], DefaultTier)
  /\ MoveTo(r, "idle")

-----------------------------------------------------------------------------
SyncStep ==
  \/ \E k \in Keys : PassOver(k) \/ StartRegister(k)
  \/ SyncLimiter \/ SyncTier \/ Install

RequestStep(r) ==
  LookUpTier(r) \/ DefaultLimiter(r) \/ DefaultTierNoted(r) \/ CheckLimit(r)

RegistryNext ==
  \/ \E k \in Keys, row \in Row \cup {NoRow} : Provision(k, row)
  \/ Pull \/ PullFails \/ SyncStep
  \/ \E r \in Arrivals : RequestStep(r) \/ \E k \in Keys : Authenticate(r, k)

RegistrySpec == RegistryInit /\ [][RegistryNext]_registry_vars

(***************************************************************************)
(* Fairness: the sync task ticks and finishes what it began, and the       *)
(* database is not down for ever: of the attempts, some succeed.  Requests *)
(* run on.  Nothing is assumed of when they arrive or the table is edited. *)
(***************************************************************************)
FairRegistry ==
  /\ RegistrySpec
  /\ SF_registry_vars(Pull)
  /\ WF_registry_vars(SyncStep)
  /\ \A r \in Arrivals : WF_registry_vars(RequestStep(r))

-----------------------------------------------------------------------------
(***************************************************************************)
(* Properties                                                              *)
(***************************************************************************)

\* A key that only the table knows is at its tier before its first request is
\* let in: it never registers itself at the default one, however its requests
\* meet the sync, and whoever reaches check_limit finds a limiter.
RegisteredBeforeServed ==
  \A r \in Arrivals :
    /\ at[r] \in {"defaulting", "halfway"} => key[r] \in env_keys
    /\ at[r] = "checking" => limiters[key[r]] # NoTier

\* A key whose row stays inactive is locked out for good, though it may be in
\* the environment and syncs may fail in between ("an explicit active = false
\* row is a real revocation that the env var cannot override", auth.rs:21).
RevocationTakesEffect ==
  \A k \in Keys :
    <>[](rows[k] # NoRow /\ ~rows[k].active) => <>[]~Accepts(k)

\* A key whose row stays active is let in for good, without a restart and
\* through any number of failed syncs.
ProvisioningTakesEffect ==
  \A k \in Keys : <>[](rows[k] # NoRow /\ rows[k].active) => <>[]Accepts(k)

\* A tier that stays in the table becomes the registered one for good, though
\* requests register the client at the default tier meanwhile.
TierTakesEffect ==
  \A k \in Keys, t \in Tiers :
    <>[](rows[k] = [tier |-> t, active |-> TRUE]) => <>[](tiers[k] = t)

\* No call of register for k is under way.
Settled(k) ==
  /\ registering # k
  /\ \A r \in Arrivals : key[r] = k => at[r] \notin {"defaulting", "halfway"}

\* `tiers` is "which tier each client is currently registered at"
\* (rate_limiter.rs:73): the limiter that throttles the client is of that
\* tier.  The code does not keep it: two registers that overlap can leave one
\* caller's limiter with the other's tier, and the sync, which compares tiers
\* only, never mends it.
QuotaFollowsTier == \A k \in Keys : Settled(k) => limiters[k] = tiers[k]
=============================================================================
