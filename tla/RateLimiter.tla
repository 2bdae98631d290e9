---------------------------- MODULE RateLimiter -----------------------------
(***************************************************************************)
(* The two maps of src/rate_limiter.rs and the critical sections on them.  *)
(* `limiters` holds the governor limiter that really throttles a client,   *)
(* `tiers` the tier the client is registered at; each has its own RwLock,  *)
(* so register is two steps here.  Of a limiter only the tier it was built *)
(* for is kept: how governor counts requests is external.                  *)
(***************************************************************************)
CONSTANTS
  Keys,                 \* SHA-256 hashes of API keys: the client ids
  Tiers,                \* free, pro, enterprise
  DefaultTier,          \* the tier of clients nobody registered (pro)
  NoTier                \* not registered

ASSUME DefaultTierAssumption == DefaultTier \in Tiers
ASSUME NoTierAssumption == NoTier \notin Tiers

VARIABLES
  limiters,             \* the tier each client's limiter was built for
  tiers                 \* the tier each client is registered at

limiter_vars == <<limiters, tiers>>

Registry == [Keys -> Tiers \cup {NoTier}]

LimiterTypeOK == limiters \in Registry /\ tiers \in Registry

-----------------------------------------------------------------------------
\* register, first lock: the client's limiter is replaced ...
InsertLimiter(k, t) ==
  /\ limiters' = [limiters EXCEPT ![k] = t]
  /\ UNCHANGED tiers

\* ... and second lock: its tier is noted.
InsertTier(k, t) ==
  /\ tiers' = [tiers EXCEPT ![k] = t]
  /\ UNCHANGED limiters

\* check_limit: a missing limiter is built for the tier the caller knows.
LimitAt(k, t) ==
  /\ limiters' = [limiters EXCEPT ![k] = IF @ = NoTier THEN t ELSE @]
  /\ UNCHANGED tiers

\* status
Status(k) == tiers[k]
=============================================================================
