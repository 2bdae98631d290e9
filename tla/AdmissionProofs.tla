--------------------------- MODULE AdmissionProofs ---------------------------
(***************************************************************************)
(* What may turn a request away, each for every value of its constants:    *)
(*   - who its client is and at what tier (ClientRegistry);                *)
(*   - what the client may still spend (SpendWindow);                      *)
(*   - whether the provider is up (Connectors).                            *)
(* The three share no state, so each has an invariant of its own.          *)
(***************************************************************************)
EXTENDS ClientRegistry, SpendWindow, Connectors, TLAPS

-----------------------------------------------------------------------------
(***************************************************************************)
(* ClientRegistry: a key only the table knows is at its tier before its    *)
(* first request is let in, and whoever reaches check_limit finds a        *)
(* limiter.                                                                *)
(***************************************************************************)
USE DefaultTierAssumption, NoTierAssumption, NoKeyAssumption, NoRowAssumption

\* register inserts the limiter before the tier.
LimiterPrecedesTier ==
  \A k \in Keys : tiers[k] # NoTier => limiters[k] # NoTier

\* The snapshot is installed after the tiers were applied.
TierPrecedesKey ==
  \A k \in Keys : db_keys[k] = "active" => tiers[k] # NoTier

\* The sync has registered every active row that it is through with.
SyncInOrder ==
  /\ \A k \in todo : pulled[k] # NoRow
  /\ sync # "asleep" =>
       \A k \in Keys \ todo :
         pulled[k] # NoRow /\ pulled[k].active => tiers[k] # NoTier
  /\ sync \in {"limiter", "tier"} => registering \in todo
  /\ sync = "tier" => limiters[registering] # NoTier

\* What a request knows of its key where it stands.
RequestInOrder(r) ==
  /\ at[r] # "idle" => key[r] \in Keys
  /\ at[r] = "authenticated" => key[r] \in env_keys \/ tiers[key[r]] # NoTier
  /\ at[r] \in {"defaulting", "halfway"} => key[r] \in env_keys
  /\ at[r] \in {"halfway", "checking"} => limiters[key[r]] # NoTier

\* The inductive invariant: RegisteredBeforeServed only speaks of requests,
\* and what keeps it is the order of the steps on the other side, the sync's.
RegistryInv ==
  /\ RegistryTypeOK
  /\ LimiterPrecedesTier
  /\ TierPrecedesKey
  /\ SyncInOrder
  /\ \A r \in Arrivals : RequestInOrder(r)

LEMMA RegistryInvInit == RegistryInit => RegistryInv
<1> SUFFICES ASSUME RegistryInit PROVE RegistryInv
  OBVIOUS
<1>1. limiters \in Registry
  BY DEF RegistryInit, EnvRegistries, ParseTier, Registry
<1> QED
  BY <1>1 DEF RegistryInit, RegistryInv, RegistryTypeOK, LimiterTypeOK, LimiterPrecedesTier, TierPrecedesKey,
              SyncInOrder, RequestInOrder, SyncPlaces, Places

\* Both maps only ever gain entries, so what was registered stays so.
LEMMA RegistryGrows ==
  ASSUME RegistryTypeOK, NEW k \in Keys, NEW t \in Tiers,
         InsertLimiter(k, t) \/ InsertTier(k, t) \/ LimitAt(k, t)
  PROVE  /\ LimiterTypeOK'
         /\ \A j \in Keys : limiters[j] # NoTier => limiters'[j] # NoTier
         /\ \A j \in Keys : tiers[j] # NoTier => tiers'[j] # NoTier
         /\ InsertLimiter(k, t) => limiters'[k] # NoTier /\ tiers' = tiers
         /\ InsertTier(k, t) => tiers'[k] # NoTier /\ limiters' = limiters
         /\ InsertTier(k, t) => \A j \in Keys \ {k} : tiers'[j] = tiers[j]
         /\ LimitAt(k, t) => tiers' = tiers
  BY DEF InsertLimiter, InsertTier, LimitAt, RegistryTypeOK, LimiterTypeOK, Registry

\* A request that moves on after a step on the maps.
LEMMA RequestStepKeepsRegistryInv ==
  ASSUME RegistryInv, NEW r \in Arrivals, RequestStep(r)
  PROVE  RegistryInv'
<1> USE DEF RegistryInv, RequestInOrder
<1>1. CASE LookUpTier(r)
  <2>1. /\ key[r] \in Keys
        /\ key[r] \in env_keys \/ tiers[key[r]] # NoTier
        /\ tiers[key[r]] # NoTier => limiters[key[r]] # NoTier
    BY <1>1 DEF LookUpTier, LimiterPrecedesTier
  <2>2. PICK place \in {"defaulting", "checking"} :
          /\ at' = [at EXCEPT ![r] = place]
          /\ place = "defaulting" => key[r] \in env_keys
          /\ place = "checking" => limiters[key[r]] # NoTier
    BY <1>1, <2>1 DEF LookUpTier, MoveTo, Status
  <2>3. UNCHANGED <<limiter_vars, rows, store_vars, sync_vars, key>>
    BY <1>1 DEF LookUpTier, MoveTo
  <2>4. RegistryTypeOK'
    BY <2>2, <2>3 DEF RegistryTypeOK, LimiterTypeOK, Places, limiter_vars, store_vars, sync_vars
  <2>5. LimiterPrecedesTier' /\ TierPrecedesKey' /\ SyncInOrder'
    BY <2>3 DEF LimiterPrecedesTier, TierPrecedesKey, SyncInOrder, limiter_vars,
                store_vars, sync_vars
  <2>6. ASSUME NEW q \in Arrivals PROVE RequestInOrder(q)'
    <3>1. at \in [Arrivals -> Places] /\ RequestInOrder(q)
      BY DEF RegistryTypeOK
    <3>2. key' = key /\ env_keys' = env_keys /\ tiers' = tiers /\ limiters' = limiters
      BY <2>3 DEF limiter_vars, store_vars
    <3>3. CASE q = r
      BY <2>1, <2>2, <3>1, <3>2, <3>3
    <3>4. CASE q # r
      BY <2>2, <3>1, <3>2, <3>4
    <3> QED BY <3>3, <3>4
  <2> QED BY <2>4, <2>5, <2>6
<1>2. CASE DefaultLimiter(r)
  <2>1. key[r] \in Keys /\ at[r] = "defaulting" /\ InsertLimiter(key[r], DefaultTier)
    BY <1>2 DEF DefaultLimiter
  <2>2. /\ LimiterTypeOK'
        /\ \A j \in Keys : limiters[j] # NoTier => limiters'[j] # NoTier
        /\ limiters'[key[r]] # NoTier /\ tiers' = tiers
    BY <2>1, RegistryGrows
  <2> QED
    BY <1>2, <2>1, <2>2 DEF DefaultLimiter, MoveTo, RegistryTypeOK, Places, LimiterPrecedesTier,
                            TierPrecedesKey, SyncInOrder, store_vars, sync_vars
<1>3. CASE DefaultTierNoted(r)
  <2>1. key[r] \in Keys /\ at[r] = "halfway" /\ InsertTier(key[r], DefaultTier)
    BY <1>3 DEF DefaultTierNoted
  <2>2. /\ LimiterTypeOK'
        /\ \A j \in Keys : tiers[j] # NoTier => tiers'[j] # NoTier
        /\ limiters' = limiters
        /\ \A j \in Keys \ {key[r]} : tiers'[j] = tiers[j]
    BY <2>1, RegistryGrows
  <2> QED
    BY <1>3, <2>1, <2>2 DEF DefaultTierNoted, MoveTo, RegistryTypeOK, Places, LimiterPrecedesTier,
                            TierPrecedesKey, SyncInOrder, store_vars, sync_vars
<1>4. CASE CheckLimit(r)
  <2>1. key[r] \in Keys /\ at[r] = "checking" /\ LimitAt(key[r], DefaultTier)
    BY <1>4 DEF CheckLimit
  <2>2. /\ LimiterTypeOK'
        /\ \A j \in Keys : limiters[j] # NoTier => limiters'[j] # NoTier
        /\ tiers' = tiers
    BY <2>1, RegistryGrows
  <2> QED
    BY <1>4, <2>1, <2>2 DEF CheckLimit, MoveTo, RegistryTypeOK, Places, LimiterPrecedesTier,
                            TierPrecedesKey, SyncInOrder, store_vars, sync_vars
<1> QED BY <1>1, <1>2, <1>3, <1>4 DEF RequestStep

\* A step of the sync task.
LEMMA SyncStepKeepsRegistryInv ==
  ASSUME RegistryInv, SyncStep
  PROVE  RegistryInv'
<1> USE DEF RegistryInv, RequestInOrder
<1>1. ASSUME NEW k \in Keys, PassOver(k) PROVE RegistryInv'
  <2>1. pulled[k].active => tiers[k] # NoTier
    BY <1>1 DEF PassOver, Status, ParseTier, RegistryTypeOK, SyncInOrder, Row
  <2> QED
    BY <1>1, <2>1 DEF PassOver, RegistryTypeOK, LimiterTypeOK, LimiterPrecedesTier,
                      TierPrecedesKey, SyncInOrder, limiter_vars, store_vars, request_vars
<1>2. ASSUME NEW k \in Keys, StartRegister(k) PROVE RegistryInv'
  BY <1>2 DEF StartRegister, RegistryTypeOK, LimiterTypeOK, SyncPlaces, LimiterPrecedesTier,
              TierPrecedesKey, SyncInOrder, limiter_vars, store_vars, request_vars
<1>3. ASSUME sync \in {"limiter", "tier"}
      PROVE  registering \in Keys /\ ParseTier(pulled[registering].tier) \in Tiers
  BY <1>3 DEF SyncInOrder, RegistryTypeOK, Row, ParseTier
<1>4. CASE SyncLimiter
  <2>1. /\ LimiterTypeOK'
        /\ \A j \in Keys : limiters[j] # NoTier => limiters'[j] # NoTier
        /\ limiters'[registering] # NoTier /\ tiers' = tiers
    BY <1>3, <1>4, RegistryGrows DEF SyncLimiter
  <2> QED
    BY <1>4, <2>1 DEF SyncLimiter, RegistryTypeOK, SyncPlaces, LimiterPrecedesTier,
                      TierPrecedesKey, SyncInOrder, store_vars, request_vars
<1>5. CASE SyncTier
  <2>1. /\ LimiterTypeOK'
        /\ \A j \in Keys : tiers[j] # NoTier => tiers'[j] # NoTier
        /\ tiers'[registering] # NoTier /\ limiters' = limiters
        /\ \A j \in Keys \ {registering} : tiers'[j] = tiers[j]
    BY <1>3, <1>5, RegistryGrows DEF SyncTier
  <2>2. RegistryTypeOK'
    BY <1>5, <2>1 DEF SyncTier, RegistryTypeOK, SyncPlaces, store_vars, request_vars
  <2>3. LimiterPrecedesTier'
    BY <1>3, <1>5, <2>1 DEF SyncTier, LimiterPrecedesTier, SyncInOrder
  <2>4. TierPrecedesKey'
    BY <1>5, <2>1 DEF SyncTier, TierPrecedesKey, store_vars
  <2>5. SyncInOrder'
    BY <1>3, <1>5, <2>1 DEF SyncTier, SyncInOrder
  <2>6. \A r \in Arrivals : RequestInOrder(r)'
    BY <1>5, <2>1 DEF SyncTier, store_vars, request_vars
  <2> QED BY <2>2, <2>3, <2>4, <2>5, <2>6
<1>6. CASE Install
  BY <1>6 DEF Install, Standing, RegistryTypeOK, LimiterTypeOK, SyncPlaces, LimiterPrecedesTier,
              TierPrecedesKey, SyncInOrder, limiter_vars, request_vars
<1> QED BY <1>1, <1>2, <1>4, <1>5, <1>6 DEF SyncStep

LEMMA RegistryInvNext == RegistryInv /\ [RegistryNext]_registry_vars => RegistryInv'
<1> SUFFICES ASSUME RegistryInv, [RegistryNext]_registry_vars PROVE RegistryInv'
  OBVIOUS
<1> USE DEF RegistryInv, RequestInOrder
<1>1. ASSUME NEW k \in Keys, NEW row \in Row \cup {NoRow}, Provision(k, row) PROVE RegistryInv'
  BY <1>1 DEF Provision, RegistryTypeOK, LimiterTypeOK, LimiterPrecedesTier, TierPrecedesKey,
              SyncInOrder, limiter_vars, store_vars, sync_vars, request_vars
<1>2. CASE Pull
  BY <1>2 DEF Pull, RegistryTypeOK, LimiterTypeOK, SyncPlaces, LimiterPrecedesTier,
              TierPrecedesKey, SyncInOrder, limiter_vars, store_vars, request_vars
<1>3. CASE PullFails
  BY <1>3 DEF PullFails, RegistryTypeOK, LimiterTypeOK, LimiterPrecedesTier, TierPrecedesKey,
              SyncInOrder, limiter_vars, sync_vars, request_vars
<1>4. ASSUME NEW r \in Arrivals, NEW k \in Keys, Authenticate(r, k) PROVE RegistryInv'
  <2>1. k \in env_keys \/ tiers[k] # NoTier
    BY <1>4 DEF Authenticate, Accepts, TierPrecedesKey
  <2> QED
    BY <1>4, <2>1 DEF Authenticate, RegistryTypeOK, LimiterTypeOK, Places, LimiterPrecedesTier,
                      TierPrecedesKey, SyncInOrder, limiter_vars, store_vars, sync_vars
<1>5. CASE UNCHANGED registry_vars
  BY <1>5 DEF registry_vars, RegistryTypeOK, LimiterTypeOK, LimiterPrecedesTier, TierPrecedesKey,
              SyncInOrder, limiter_vars, store_vars, sync_vars, request_vars
<1> QED
  BY <1>1, <1>2, <1>3, <1>4, <1>5, SyncStepKeepsRegistryInv, RequestStepKeepsRegistryInv DEF RegistryNext

\* The inductive invariant holds in every reachable state.
THEOREM RegistryInvHolds == RegistrySpec => []RegistryInv
  BY RegistryInvInit, RegistryInvNext, PTL DEF RegistrySpec

\* Every variable keeps its type.
THEOREM RegistryTypes == RegistrySpec => []RegistryTypeOK
<1>1. RegistryInv => RegistryTypeOK BY DEF RegistryInv
<1> QED BY <1>1, RegistryInvHolds, PTL

\* However requests meet the sync, a table-only key is never registered at the
\* default tier by its own request, and check_limit always finds a limiter.
THEOREM ServedOnlyRegistered == RegistrySpec => []RegisteredBeforeServed
<1>1. RegistryInv => RegisteredBeforeServed
  BY DEF RegistryInv, RequestInOrder, RegisteredBeforeServed
<1> QED BY <1>1, RegistryInvHolds, PTL

-----------------------------------------------------------------------------
(***************************************************************************)
(* SpendWindow: how far the running total and the bill of a window can     *)
(* exceed the cap, and that the books do not disturb the ledger.           *)
(***************************************************************************)
USE CapAssumption, WindowAssumption, EstimatesAssumption, ActualsAssumption,
    NotHeldAssumption

\* Every call of this window, settled or not, is in the running total, but for
\* what earlier windows gave back to it.  SpentWithinCap and this give
\* WindowBill, which is not inductive by itself: it says nothing of `spent`,
\* the only variable try_reserve looks at.
Covered == reported + committed <= spent + credit

SpendInv == WindowTypeOK /\ SpentWithinCap /\ Covered

\* What max(0.0) leaves of a reconciliation: a natural number, no lower than
\* the difference asks for, and higher only by what the cost was too high.
LEMMA AdjustedBounds ==
  ASSUME spent \in Nat, NEW est \in Nat, NEW actual \in Nat
  PROVE  /\ Adjusted(est, actual) \in Nat
         /\ Adjusted(est, actual) >= spent + actual - est
         /\ actual > est => Adjusted(est, actual) = spent + (actual - est)
         /\ actual <= est => Adjusted(est, actual) <= spent
  BY DEF Adjusted

LEMMA SpendInvInit == WindowInit => SpendInv
  BY DEF WindowInit, LedgerInit, GuardInit, SpendInv, WindowTypeOK, LedgerTypeOK, GuardTypeOK,
         SpentWithinCap, Covered

\* try_reserve, accepted (the estimate taken) or refused (nothing taken), in
\* the running window or in a new one.
LEMMA TryKeepsSpendInv ==
  ASSUME SpendInv, NEW r \in Requests, NEW est \in Estimates,
         Accepted(r, est) \/ Refused(r, est)
  PROVE  SpendInv'
<1> USE DEF SpendInv, WindowTypeOK, LedgerTypeOK, GuardTypeOK
<1>1. PICK taken \in Nat : /\ spent' = SpentNow + taken
                           /\ taken > 0 => SpentNow + taken <= CapCents
                           /\ BooksOpened(taken)
  <2>1. CASE Accepted(r, est)
    <3>1. /\ spent' = SpentNow + est
          /\ SpentNow + est <= CapCents
          /\ BooksOpened(est)
      BY <2>1 DEF Accepted, Reserve, TryReserveOk, FitsCap
    <3> QED BY <3>1
  <2>2. CASE Refused(r, est)
    <3>1. spent' = SpentNow /\ BooksOpened(0)
      BY <2>2 DEF Refused, Refuse, TryReserveRefused
    <3>2. SpentNow + 0 = SpentNow
      BY DEF SpentNow
    <3> QED BY <3>1, <3>2
  <2> QED BY <2>1, <2>2
<1>2. held' \in [Requests -> Estimates \cup {NotHeld}]
  BY DEF Accepted, Refused, Reserve, Refuse
<1>3. window_age' \in 0 .. Window + 1
  BY DEF Accepted, Refused, Reserve, Refuse, TryReserveOk, TryReserveRefused, OpenWindow
<1>4. stale' \subseteq Requests
  BY <1>1 DEF BooksOpened, Outstanding
<1>5. CASE WindowExpired
  BY <1>1, <1>2, <1>3, <1>4, <1>5 DEF BooksOpened, SpentNow, SpentWithinCap, Covered
<1>6. CASE ~WindowExpired
  BY <1>1, <1>2, <1>3, <1>4, <1>6 DEF BooksOpened, SpentNow, SpentWithinCap, Covered
<1> QED BY <1>5, <1>6

\* reconcile and release, of a reservation from this window or an earlier one.
LEMMA SettlingKeepsSpendInv ==
  ASSUME SpendInv, NEW r \in Requests, NEW actual \in Nat,
         held[r] # NotHeld,
         Reconcile(held[r], actual),
         held' = [held EXCEPT ![r] = NotHeld],
         BooksSettled(r, actual)
  PROVE  SpendInv'
<1> USE DEF SpendInv, WindowTypeOK, LedgerTypeOK, GuardTypeOK
<1> DEFINE est == held[r]
<1>1. est \in Nat
  OBVIOUS
<1>2. spent' = Adjusted(est, actual) /\ window_age' = window_age
  BY DEF Reconcile
<1>3. /\ spent' \in Nat
      /\ spent' >= spent + actual - est
      /\ actual > est => spent' = spent + (actual - est)
      /\ actual <= est => spent' <= spent
  BY <1>1, <1>2, AdjustedBounds
<1>4. /\ overrun' \in Nat
      /\ actual > est => overrun' = overrun + (actual - est)
      /\ actual <= est => overrun' = overrun
  BY <1>1 DEF BooksSettled
<1>5. SpentWithinCap'
  <2>1. spent \in Nat /\ overrun \in Nat /\ spent <= CapCents + overrun
    BY DEF SpentWithinCap
  <2>2. CASE actual > est
    <3>1. spent' = spent + (actual - est) /\ overrun' = overrun + (actual - est)
      BY <2>2, <1>3, <1>4
    <3> QED BY <1>1, <1>3, <2>1, <3>1 DEF SpentWithinCap
  <2>3. CASE ~(actual > est)
    <3>1. actual <= est
      BY <1>1, <2>3
    <3>2. spent' <= spent /\ overrun' = overrun
      BY <1>3, <1>4, <3>1
    <3> QED BY <1>3, <2>1, <3>2 DEF SpentWithinCap
  <2> QED BY <2>2, <2>3
<1>6. reported' \in Nat /\ committed' \in Int /\ credit' \in Nat /\ stale' \subseteq Requests
  BY <1>1 DEF BooksSettled
<1>7. Covered'
  <2>1. CASE r \in stale
    BY <1>1, <1>3, <2>1 DEF BooksSettled, Covered
  <2>2. CASE r \notin stale
    BY <1>1, <1>3, <2>2 DEF BooksSettled, Covered
  <2> QED BY <2>1, <2>2
<1>8. LedgerTypeOK'
  BY <1>2, <1>3
<1> QED BY <1>4, <1>5, <1>6, <1>7, <1>8

LEMMA SpendInvNext == SpendInv /\ [WindowNext]_window_vars => SpendInv'
<1> SUFFICES ASSUME SpendInv, [WindowNext]_window_vars PROVE SpendInv'
  OBVIOUS
<1>1. ASSUME NEW r \in Requests, Try(r) PROVE SpendInv'
  BY <1>1, TryKeepsSpendInv DEF Try
<1>2. ASSUME NEW r \in Requests, NEW actual \in Actuals, Reconciled(r, actual) PROVE SpendInv'
  BY <1>2, SettlingKeepsSpendInv DEF Reconciled, Settle
<1>3. ASSUME NEW r \in Requests, Released(r) PROVE SpendInv'
  BY <1>3, SettlingKeepsSpendInv DEF Released, GiveBack, Release
<1>4. ASSUME NEW r \in Requests, Dropped(r) PROVE SpendInv'
  BY <1>4 DEF Dropped, Abandon, guard_vars, SpendInv, WindowTypeOK, LedgerTypeOK, GuardTypeOK,
              SpentWithinCap, Covered
<1>5. CASE WindowTick
  BY <1>5 DEF WindowTick, LedgerTick, GuardTick, WindowExpired, books, SpendInv, WindowTypeOK,
              LedgerTypeOK, GuardTypeOK, SpentWithinCap, Covered
<1>6. CASE UNCHANGED window_vars
  BY <1>6 DEF window_vars, ledger_vars, guard_vars, books, SpendInv, WindowTypeOK, LedgerTypeOK,
              GuardTypeOK, SpentWithinCap, Covered
<1> QED BY <1>1, <1>2, <1>3, <1>4, <1>5, <1>6 DEF WindowNext, Finish

\* The inductive invariant holds in every reachable state.
THEOREM SpendInvHolds == WindowSpec => []SpendInv
  BY SpendInvInit, SpendInvNext, PTL DEF WindowSpec

\* Every variable keeps its type: in particular max(0.0) keeps the running
\* total from going below zero whatever is released late.
THEOREM SpendTypes == WindowSpec => []WindowTypeOK
<1>1. SpendInv => WindowTypeOK BY DEF SpendInv
<1> QED BY <1>1, SpendInvHolds, PTL

\* No interleaving of reservations gets the running total over the cap: only
\* costs above their estimates do, and by no more than that; and none gets it
\* below zero.
THEOREM CapHolds == WindowSpec => []SpentWithinCap
<1>1. SpendInv => SpentWithinCap BY DEF SpendInv
<1> QED BY <1>1, SpendInvHolds, PTL

\* The ceiling the guard really gives: a window's bill exceeds the cap by no
\* more than low estimates and what earlier windows gave back.
THEOREM WindowBillHolds == WindowSpec => []WindowBill
<1>1. SpendInv => WindowBill
  BY DEF SpendInv, WindowTypeOK, LedgerTypeOK, GuardTypeOK, SpentWithinCap, Covered, WindowBill
<1> QED BY <1>1, SpendInvHolds, PTL

-----------------------------------------------------------------------------
\* What r's reservation of this window, if it has one, holds.
HeldNow == [r \in Requests |-> IF held[r] = NotHeld \/ r \in stale THEN 0 ELSE held[r]]

\* f sums up the amounts of sets of requests.
Sums(f, amounts) ==
  /\ f[{}] = 0
  /\ \A S \in SUBSET Requests : \A r \in Requests \ S : f[S \cup {r}] = f[S] + amounts[r]

\* committed is at least what this window's open reservations hold together, so
\* settling one never takes it below zero: what NoPhantomSpend needs where
\* max(0.0) lifts the running total.
Covers(total, amounts) ==
  \E f \in [SUBSET Requests -> Nat] : Sums(f, amounts) /\ f[Requests] <= total

Backed == Covers(committed, HeldNow)

LEMMA HeldNowType ==
  ASSUME WindowTypeOK
  PROVE  HeldNow \in [Requests -> Nat]
BY DEF WindowTypeOK, LedgerTypeOK, HeldNow

\* Where one amount changes, a total that grows by no less still covers them.
LEMMA CoversChange ==
  ASSUME NEW amounts \in [Requests -> Nat], NEW total \in Int, Covers(total, amounts),
         NEW r \in Requests, NEW n \in Nat,
         NEW later \in Int, later - n >= total - amounts[r],
         NEW changed, changed = [amounts EXCEPT ![r] = n]
  PROVE  Covers(later, changed)
<1>1. PICK f \in [SUBSET Requests -> Nat] : Sums(f, amounts) /\ f[Requests] <= total
  BY DEF Covers
<1> DEFINE others == Requests \ {r}
           after(S) == IF r \in S THEN f[S \ {r}] + n ELSE f[S]
           sets == SUBSET Requests
           g == [S \in sets |-> after(S)]
<1>2. f[Requests] = f[others] + amounts[r] /\ f[others] \in Nat
  <2>1. others \in SUBSET Requests /\ r \in Requests \ others /\ others \cup {r} = Requests
    OBVIOUS
  <2> QED BY <1>1, <2>1 DEF Sums
<1>3. g \in [sets -> Nat]
  <2>1. ASSUME NEW S \in SUBSET Requests PROVE f[S] \in Nat /\ f[S \ {r}] \in Nat
    <3>1. S \ {r} \in SUBSET Requests
      OBVIOUS
    <3> QED BY <3>1
  <2>2. ASSUME NEW S \in sets
        PROVE  after(S) \in Nat
    <3>1. f[S] \in Nat /\ f[S \ {r}] \in Nat
      BY <2>1
    <3>2. f[S \ {r}] + n \in Nat
      BY <3>1
    <3> QED BY <3>1, <3>2, Zenon
  <2> HIDE DEF after, sets
  <2> QED BY <2>2
<1>4. g[Requests] = f[others] + n
  OBVIOUS
<1>5. g[{}] = 0
  BY <1>1 DEF Sums
<1>6. ASSUME NEW S \in SUBSET Requests, NEW q \in Requests \ S
      PROVE  g[S \cup {q}] = g[S] + changed[q]
  <2>1. S \cup {q} \in SUBSET Requests
    OBVIOUS
  <2>2. CASE q = r
    <3>1. (S \cup {q}) \ {r} = S /\ changed[q] = n
      BY <2>2
    <3> QED BY <2>1, <2>2, <3>1
  <2>3. CASE q # r /\ r \in S
    <3>1. /\ (S \cup {q}) \ {r} = (S \ {r}) \cup {q}
          /\ S \ {r} \in SUBSET Requests
          /\ q \in Requests \ (S \ {r})
          /\ changed[q] = amounts[q]
      BY <2>3
    <3>2. f[(S \ {r}) \cup {q}] = f[S \ {r}] + amounts[q]
      BY <1>1, <3>1 DEF Sums
    <3>3. g[S \cup {q}] = f[(S \ {r}) \cup {q}] + n /\ g[S] = f[S \ {r}] + n
      BY <2>1, <2>3, <3>1
    <3>4. f[S \ {r}] \in Nat /\ amounts[q] \in Nat
      BY <3>1
    <3> QED BY <3>1, <3>2, <3>3, <3>4
  <2>4. CASE q # r /\ r \notin S
    <3>1. r \notin S \cup {q} /\ changed[q] = amounts[q]
      BY <2>4
    <3>2. f[S \cup {q}] = f[S] + amounts[q]
      BY <1>1 DEF Sums
    <3> QED BY <2>1, <2>4, <3>1, <3>2
  <2> QED BY <2>2, <2>3, <2>4
<1>7. Sums(g, changed)
  BY <1>5, <1>6 DEF Sums
<1> HIDE DEF g, others
<1>8. g[Requests] <= later
  BY <1>1, <1>2, <1>4
<1> QED BY <1>3, <1>7, <1>8 DEF Covers

\* What covers anything is not negative.
LEMMA CoversNat ==
  ASSUME NEW amounts, NEW total \in Int, Covers(total, amounts)
  PROVE  total >= 0
<1>1. PICK f \in [SUBSET Requests -> Nat] : f[Requests] <= total
  BY DEF Covers
<1>2. f[Requests] \in Nat
  OBVIOUS
<1> QED BY <1>1, <1>2

\* Where nothing is held, nothing need be committed.
LEMMA NothingCovered == Covers(0, [r \in Requests |-> 0])
<1> DEFINE f == [S \in SUBSET Requests |-> 0]
           none == [r \in Requests |-> 0]
<1>1. f \in [SUBSET Requests -> Nat] /\ f[Requests] = 0
  OBVIOUS
<1>2. Sums(f, none)
  BY DEF Sums
<1> HIDE DEF f, none
<1>3. Covers(0, none)
  BY <1>1, <1>2 DEF Covers
<1> QED BY <1>3 DEF none

\* A step that changes what one request holds, and `committed` by no less.
LEMMA BackedStep ==
  ASSUME WindowTypeOK, Backed, NEW r \in Requests, NEW n \in Nat,
         HeldNow' = [HeldNow EXCEPT ![r] = n],
         committed' \in Int, committed' - n >= committed - HeldNow[r]
  PROVE  Backed' /\ committed' >= 0
<1>1. HeldNow \in [Requests -> Nat] /\ committed \in Int
  BY HeldNowType DEF WindowTypeOK
<1>2. Covers(committed', HeldNow')
  BY <1>1, CoversChange DEF Backed
<1> QED BY <1>2, CoversNat DEF Backed

\* ... and one that leaves both alone.
LEMMA BackedUnchanged ==
  ASSUME WindowTypeOK, Backed, HeldNow' = HeldNow, committed' = committed
  PROVE  Backed' /\ committed' >= 0
<1>1. Covers(committed', HeldNow') /\ committed' \in Int
  BY DEF Backed, WindowTypeOK
<1> QED BY <1>1, CoversNat DEF Backed

\* A new window knows of one reservation, or of none.
LEMMA BackedAnew ==
  ASSUME NEW r \in Requests, NEW n \in Nat,
         HeldNow' = [[q \in Requests |-> 0] EXCEPT ![r] = n],
         committed' = n
  PROVE  Backed'
<1> DEFINE none == [q \in Requests |-> 0]
<1>1. Covers(0, none)
  BY NothingCovered
<1>2. none \in [Requests -> Nat] /\ none[r] = 0
  OBVIOUS
<1>3. HeldNow' = [none EXCEPT ![r] = n]
  OBVIOUS
<1> HIDE DEF none
<1>4. Covers(n, HeldNow')
  BY <1>1, <1>2, <1>3, CoversChange
<1> QED BY <1>4 DEF Backed

PhantomInv == Backed /\ NoPhantomSpend

\* try_reserve charges an accepted estimate to the total and to the books.
LEMMA TryKeepsPhantomInv ==
  ASSUME SpendInv, PhantomInv, NEW r \in Requests, NEW est \in Estimates,
         Accepted(r, est) \/ Refused(r, est)
  PROVE  PhantomInv'
<1> USE DEF SpendInv, WindowTypeOK, LedgerTypeOK, GuardTypeOK
<1>1. PICK taken \in Nat : /\ spent' = SpentNow + taken
                           /\ BooksOpened(taken)
                           /\ held[r] = NotHeld
                           /\ \/ held' = [held EXCEPT ![r] = est] /\ taken = est
                              \/ held' = held /\ taken = 0
  <2>1. CASE Accepted(r, est)
    <3>1. /\ spent' = SpentNow + est /\ BooksOpened(est)
          /\ held[r] = NotHeld /\ held' = [held EXCEPT ![r] = est]
      BY <2>1 DEF Accepted, Reserve, TryReserveOk
    <3> QED BY <3>1
  <2>2. CASE Refused(r, est)
    <3>1. /\ spent' = SpentNow /\ BooksOpened(0)
          /\ held[r] = NotHeld /\ held' = held
      BY <2>2 DEF Refused, Refuse, TryReserveRefused
    <3>2. SpentNow + 0 = SpentNow
      BY DEF SpentNow
    <3> QED BY <3>1, <3>2
  <2> QED BY <2>1, <2>2
<1>2. CASE WindowExpired
  <2>1. /\ stale' = Outstanding /\ reported' = 0 /\ committed' = taken /\ overrun' = 0
        /\ spent' = taken
    BY <1>1, <1>2 DEF BooksOpened, SpentNow
  <2>2. HeldNow' = [[q \in Requests |-> 0] EXCEPT ![r] = taken]
    <3>1. ASSUME NEW q \in Requests, q # r
          PROVE  held'[q] = NotHeld \/ q \in stale'
      BY <1>1, <2>1, <3>1 DEF Outstanding
    <3>2. IF held'[r] = NotHeld \/ r \in stale' THEN taken = 0 ELSE held'[r] = taken
      BY <1>1, <2>1 DEF Outstanding
    <3> QED BY <3>1, <3>2 DEF HeldNow
  <2>3. Backed'
    BY <2>1, <2>2, BackedAnew
  <2> QED BY <2>1, <2>3 DEF PhantomInv, NoPhantomSpend
<1>3. CASE ~WindowExpired
  <2>1. /\ stale' = stale /\ reported' = reported /\ overrun' = overrun
        /\ committed' = committed + taken
        /\ spent' = spent + taken
    BY <1>1, <1>3 DEF BooksOpened, SpentNow
  <2>2. HeldNow[r] = 0
    BY <1>1 DEF HeldNow
  <2>3. Backed'
    <3>1. CASE held' = held /\ taken = 0
      <4>1. HeldNow' = HeldNow /\ committed' = committed
        BY <2>1, <3>1 DEF HeldNow
      <4> QED BY <4>1, BackedUnchanged DEF PhantomInv
    <3>2. CASE held' = [held EXCEPT ![r] = est] /\ taken = est
      <4>1. PICK n \in Nat : n <= taken /\ HeldNow' = [HeldNow EXCEPT ![r] = n]
        <5> DEFINE n == IF r \in stale THEN 0 ELSE est
        <5>1. n \in Nat /\ n <= taken
          BY <3>2
        <5>2. HeldNow' = [HeldNow EXCEPT ![r] = n]
          BY <2>1, <3>2 DEF HeldNow
        <5> QED BY <5>1, <5>2
      <4>2. committed' \in Int /\ committed' - n >= committed - HeldNow[r]
        BY <1>1, <2>1, <2>2, <4>1
      <4> QED BY <4>1, <4>2, BackedStep DEF PhantomInv
    <3> QED BY <1>1, <3>1, <3>2
  <2> QED BY <2>1, <2>3 DEF PhantomInv, NoPhantomSpend
<1> QED BY <1>2, <1>3

\* reconcile and release: where max(0.0) lifts the total to zero, the books
\* are not below zero either.
LEMMA SettlingKeepsPhantomInv ==
  ASSUME SpendInv, PhantomInv, NEW r \in Requests, NEW actual \in Nat,
         held[r] # NotHeld,
         Reconcile(held[r], actual),
         held' = [held EXCEPT ![r] = NotHeld],
         BooksSettled(r, actual)
  PROVE  PhantomInv'
<1> USE DEF SpendInv, WindowTypeOK, LedgerTypeOK, GuardTypeOK
<1>1. held[r] \in Nat
  OBVIOUS
<1>2. \/ spent' = spent + actual - held[r]
      \/ spent' = 0
  BY DEF Reconcile, Adjusted
<1>3. stale' = stale \ {r}
  BY DEF BooksSettled
<1>4. CASE r \in stale
  <2>1. HeldNow' = HeldNow
    BY <1>3, <1>4 DEF HeldNow
  <2>2. committed' = committed /\ reported' = reported
    BY <1>4 DEF BooksSettled
  <2>3. Backed' /\ committed' >= 0
    BY <2>1, <2>2, BackedUnchanged DEF PhantomInv
  <2>4. overrun' \in Nat /\ overrun' - overrun >= actual - held[r]
    BY <1>1 DEF BooksSettled
  <2> QED BY <1>1, <1>2, <2>2, <2>3, <2>4 DEF PhantomInv, NoPhantomSpend
<1>5. CASE r \notin stale
  <2>1. HeldNow' = [HeldNow EXCEPT ![r] = 0] /\ HeldNow[r] = held[r]
    BY <1>3, <1>5 DEF HeldNow
  <2>2. committed' = committed - held[r] /\ reported' = reported + actual
    BY <1>5 DEF BooksSettled
  <2>5. committed' \in Int /\ committed' - 0 >= committed - HeldNow[r]
    BY <1>1, <2>1, <2>2
  <2>3. Backed' /\ committed' >= 0
    BY <2>1, <2>5, BackedStep DEF PhantomInv
  <2>4. overrun' \in Nat /\ overrun' >= overrun
    BY <1>1 DEF BooksSettled
  <2> QED BY <1>1, <1>2, <2>2, <2>3, <2>4 DEF PhantomInv, NoPhantomSpend
<1> QED BY <1>4, <1>5

LEMMA PhantomInvNext ==
  ASSUME SpendInv, PhantomInv, [WindowNext]_window_vars
  PROVE  PhantomInv'
<1>1. ASSUME NEW r \in Requests, Try(r) PROVE PhantomInv'
  BY <1>1, TryKeepsPhantomInv DEF Try
<1>2. ASSUME NEW r \in Requests, NEW actual \in Actuals, Reconciled(r, actual)
      PROVE  PhantomInv'
  BY <1>2, SettlingKeepsPhantomInv DEF Reconciled, Settle
<1>3. ASSUME NEW r \in Requests, Released(r) PROVE PhantomInv'
  BY <1>3, SettlingKeepsPhantomInv DEF Released, GiveBack, Release
<1>4. ASSUME NEW r \in Requests, Dropped(r) PROVE PhantomInv'
  <2>1. /\ held' = [held EXCEPT ![r] = NotHeld] /\ stale' = stale \ {r}
        /\ UNCHANGED <<spent, reported, committed, overrun>>
    BY <1>4 DEF Dropped, Abandon, guard_vars
  <2>2. HeldNow' = [HeldNow EXCEPT ![r] = 0]
    BY <2>1 DEF HeldNow, SpendInv, WindowTypeOK, LedgerTypeOK
  <2>3. committed' \in Int /\ committed' - 0 >= committed - HeldNow[r]
    BY <2>1, HeldNowType DEF SpendInv, WindowTypeOK
  <2>4. Backed'
    BY <2>2, <2>3, BackedStep DEF SpendInv, PhantomInv
  <2> QED BY <2>1, <2>4 DEF PhantomInv, NoPhantomSpend
<1>5. CASE WindowTick \/ UNCHANGED window_vars
  <2>1. UNCHANGED <<spent, held, stale, reported, committed, overrun>>
    BY <1>5 DEF WindowTick, LedgerTick, GuardTick, books, window_vars, ledger_vars, guard_vars
  <2>2. HeldNow' = HeldNow
    BY <2>1 DEF HeldNow, SpendInv, WindowTypeOK, LedgerTypeOK
  <2>3. Backed'
    BY <2>1, <2>2, BackedUnchanged DEF SpendInv, PhantomInv
  <2> QED BY <2>1, <2>3 DEF PhantomInv, NoPhantomSpend
<1> QED BY <1>1, <1>2, <1>3, <1>4, <1>5 DEF WindowNext, Finish

\* No client is charged twice: the total is never more than the window's calls
\* cost or may cost, and what calls of earlier windows cost above their estimate.
THEOREM NoPhantomCharge == WindowSpec => []NoPhantomSpend
<1>1. WindowInit => PhantomInv
  <2> SUFFICES ASSUME WindowInit PROVE PhantomInv
    OBVIOUS
  <2>1. HeldNow = [r \in Requests |-> 0]
    BY DEF WindowInit, LedgerInit, HeldNow
  <2>2. committed = 0 /\ spent = 0 /\ reported = 0 /\ overrun = 0
    BY DEF WindowInit, LedgerInit, GuardInit
  <2>3. Backed
    BY <2>1, <2>2, NothingCovered DEF Backed
  <2> QED BY <2>2, <2>3 DEF PhantomInv, NoPhantomSpend
<1>2. PhantomInv => NoPhantomSpend
  BY DEF PhantomInv
<1> QED BY <1>1, <1>2, SpendInvHolds, PhantomInvNext, PTL DEF WindowSpec

-----------------------------------------------------------------------------
\* The books are history variables: under them the ledger runs unchanged, so
\* what holds of the running total here holds of SpendLedger.
THEOREM BooksAreHistory == WindowSpec => LedgerSpec
<1>1. WindowInit => LedgerInit
  BY DEF WindowInit
<1>2. [WindowNext]_window_vars => [LedgerNext]_ledger_vars
  <2> SUFFICES ASSUME [WindowNext]_window_vars PROVE [LedgerNext]_ledger_vars
    OBVIOUS
  <2>1. ASSUME NEW r \in Requests, Try(r) PROVE LedgerNext
    BY <2>1 DEF Try, Accepted, Refused, LedgerNext
  <2>2. ASSUME NEW r \in Requests, Finish(r) PROVE LedgerNext
    BY <2>2 DEF Finish, Reconciled, Released, Dropped, LedgerNext
  <2>3. CASE WindowTick
    BY <2>3 DEF WindowTick, LedgerNext
  <2>4. CASE UNCHANGED window_vars
    BY <2>4 DEF window_vars
  <2> QED BY <2>1, <2>2, <2>3, <2>4 DEF WindowNext
<1> QED BY <1>1, <1>2, PTL DEF WindowSpec, LedgerSpec

-----------------------------------------------------------------------------
(***************************************************************************)
(* Connectors: the breaker's fields stay consistent, a half-open period's  *)
(* trial is the call that began it, and the connectors implement           *)
(* ProviderGate.                                                           *)
(***************************************************************************)
USE ThresholdAssumption, ResetAssumption, NoCallAssumption

\* The inductive invariant.  BreakerConsistent is what makes the HalfOpen
\* branches of is_open that let a caller through unreachable.
BreakerInv == TypeOK /\ BreakerConsistent /\ HolderIsTrial

LEMMA BreakerInvInit == Init => BreakerInv
<1> SUFFICES ASSUME Init PROVE BreakerInv
  OBVIOUS
<1> USE DEF Init, BreakerInit
<1>1. circuit \in CircuitState /\ probe_in_flight \in BOOLEAN
      /\ (circuit = "HalfOpen" <=> probe_in_flight)
  BY Zenon DEF CircuitState
<1>2. /\ failures \in 0 .. FAILURE_THRESHOLD
      /\ since_opened \in NotOpened .. RESET_TIMEOUT + 1
      /\ failures < FAILURE_THRESHOLD
  BY DEF NotOpened
<1>3. phase \in [Calls -> Phases]
  BY DEF Phases
<1> QED BY <1>1, <1>2, <1>3 DEF BreakerInv, TypeOK, BreakerTypeOK, BreakerConsistent, HolderIsTrial

\* record_success and record_failure keep the breaker's fields well typed and
\* consistent from whatever state they are applied in.
LEMMA RecordKeepsBreaker ==
  ASSUME BreakerTypeOK, BreakerConsistent, RecordSuccess \/ RecordFailure
  PROVE  BreakerTypeOK' /\ BreakerConsistent'
<1>1. CASE RecordSuccess
  <2>1. /\ circuit' = "Closed"
        /\ failures' = 0
        /\ since_opened' = NotOpened
        /\ since_opened' \in NotOpened .. RESET_TIMEOUT + 1
    BY <1>1 DEF RecordSuccess, BreakerTypeOK, BreakerConsistent, CircuitState, NotOpened
  <2>2. probe_in_flight' = FALSE
    BY <1>1, Zenon DEF RecordSuccess, BreakerTypeOK, BreakerConsistent
  <2>3. probe_in_flight' \in BOOLEAN /\ (circuit' = "HalfOpen" <=> probe_in_flight')
    BY <2>1, <2>2, Zenon
  <2>4. failures' \in 0 .. FAILURE_THRESHOLD /\ failures' < FAILURE_THRESHOLD
    BY <2>1
  <2> QED BY <2>1, <2>3, <2>4 DEF BreakerTypeOK, BreakerConsistent, CircuitState
<1>2. CASE RecordFailure
  <2>1. /\ failures' \in 0 .. FAILURE_THRESHOLD
        /\ since_opened' \in NotOpened .. RESET_TIMEOUT + 1
        /\ circuit' \in {"Closed", "Open"}
        /\ circuit' = "Closed" <=> failures' < FAILURE_THRESHOLD
        /\ circuit' = "Closed" <=> since_opened' = NotOpened
    BY <1>2 DEF RecordFailure, OneMoreFailure, BreakerTypeOK, BreakerConsistent,
                CircuitState, NotOpened
  <2>2. probe_in_flight' = FALSE
    BY <1>2, Zenon DEF RecordFailure, BreakerTypeOK, BreakerConsistent
  <2>3. probe_in_flight' \in BOOLEAN /\ (circuit' = "HalfOpen" <=> probe_in_flight')
    BY <2>1, <2>2, Zenon
  <2> QED BY <2>1, <2>3 DEF BreakerTypeOK, BreakerConsistent, CircuitState
<1> QED BY <1>1, <1>2

\* A reporting call ends the half-open period, so no holder stays behind.
LEMMA ReportKeepsBreakerInv ==
  ASSUME BreakerInv, NEW c \in Calls, RecordSuccess \/ RecordFailure, Report(c)
  PROVE  BreakerInv'
<1>1. BreakerTypeOK' /\ BreakerConsistent'
  BY RecordKeepsBreaker DEF BreakerInv, TypeOK
<1>2. circuit' # "HalfOpen"
  BY DEF RecordSuccess, RecordFailure, BreakerInv, TypeOK, BreakerTypeOK, CircuitState
<1>3. trial_holder' = NoCall
  BY <1>2 DEF Report
<1> QED BY <1>1, <1>3 DEF BreakerInv, TypeOK, Phases, HolderIsTrial, Report

\* A call that ends in silence touches nothing of the breaker.
LEMMA SilenceKeepsBreakerInv ==
  ASSUME BreakerInv, NEW c \in Calls, LeaveSilently(c)
  PROVE  BreakerInv'
  BY DEF LeaveSilently, BreakerInv, TypeOK, BreakerTypeOK, BreakerConsistent, HolderIsTrial,
         breaker_vars, Phases

LEMMA BreakerInvNext == BreakerInv /\ [Next]_vars => BreakerInv'
<1> SUFFICES ASSUME BreakerInv, [Next]_vars PROVE BreakerInv'
  OBVIOUS
<1>1. ASSUME NEW c \in Calls, AskBreaker(c) PROVE BreakerInv'
  BY <1>1 DEF AskBreaker, ReadVerdict, BreakerInv, TypeOK, BreakerTypeOK, BreakerConsistent,
              HolderIsTrial, CircuitState, breaker_vars, Phases
<1>2. ASSUME NEW c \in Calls, WinTrial(c) PROVE BreakerInv'
  BY <1>2 DEF WinTrial, ClaimTrial, BreakerInv, TypeOK, BreakerTypeOK, BreakerConsistent,
              HolderIsTrial, CircuitState, Phases
<1>3. ASSUME NEW c \in Calls, ArriveLate(c) PROVE BreakerInv'
  BY <1>3 DEF ArriveLate, ClaimLate, BreakerInv, TypeOK, BreakerTypeOK, BreakerConsistent,
              HolderIsTrial, breaker_vars, Phases
<1>4. ASSUME NEW c \in Calls, End(c) PROVE BreakerInv'
  BY <1>4, ReportKeepsBreakerInv, SilenceKeepsBreakerInv DEF End, Succeed, Fail, EndUnrecorded, Drop
<1>5. CASE Tick
  BY <1>5 DEF Tick, BreakerTick, BreakerInv, TypeOK, BreakerTypeOK, BreakerConsistent,
              HolderIsTrial, NotOpened
<1>6. CASE UNCHANGED vars
  BY <1>6 DEF vars, breaker_vars, BreakerInv, TypeOK, BreakerTypeOK, BreakerConsistent,
              HolderIsTrial
<1> QED BY <1>1, <1>2, <1>3, <1>4, <1>5, <1>6 DEF Next

\* The inductive invariant holds in every reachable state.
THEOREM BreakerInvHolds == Spec => []BreakerInv
  BY BreakerInvInit, BreakerInvNext, PTL DEF Spec

\* Every variable keeps its type.
THEOREM BreakerTypes == Spec => []TypeOK
<1>1. BreakerInv => TypeOK BY DEF BreakerInv
<1> QED BY <1>1, BreakerInvHolds, PTL

\* The fields of ProviderState tell one story, for any number of stragglers
\* reporting in any order.
THEOREM BreakerStaysConsistent == Spec => []BreakerConsistent
<1>1. BreakerInv => BreakerConsistent BY DEF BreakerInv
<1> QED BY <1>1, BreakerInvHolds, PTL

\* While a half-open period has a holder, that call is in flight.
THEOREM HolderStaysTrial == Spec => []HolderIsTrial
<1>1. BreakerInv => HolderIsTrial BY DEF BreakerInv
<1> QED BY <1>1, BreakerInvHolds, PTL

-----------------------------------------------------------------------------
\* The abstract state the refinement mapping shows.
GateMode == CASE circuit = "Closed"   -> "up"
              [] circuit = "Open"     -> "down"
              [] circuit = "HalfOpen" -> "probation"

Admitted == {c \in Calls : phase[c] = "admitted"}

\* A call whose report or silence ends it is one End step of the gate.
LEMMA EndIsGateEnd ==
  ASSUME BreakerInv, NEW c \in Calls, End(c)
  PROVE  Gate!End(c)
<1> USE DEF GateMode, Admitted
<1>1. phase[c] = "admitted" /\ phase' = [phase EXCEPT ![c] = "idle"]
  BY DEF End, Succeed, Fail, EndUnrecorded, Drop, Report, LeaveSilently
<1>2. c \in Admitted /\ Admitted' = Admitted \ {c}
  BY <1>1 DEF BreakerInv, TypeOK, Phases
<1>3. GateMode' \in {GateMode, "up", "down"}
  <2>1. circuit' \in {circuit, "Closed", "Open"}
    BY DEF End, Succeed, Fail, EndUnrecorded, Drop, LeaveSilently, breaker_vars,
           RecordSuccess, RecordFailure
  <2>2. circuit' = circuit => GateMode' = GateMode
    OBVIOUS
  <2>3. circuit' = "Closed" => GateMode' = "up"
    OBVIOUS
  <2>4. circuit' = "Open" => GateMode' = "down"
    OBVIOUS
  <2> QED BY <2>1, <2>2, <2>3, <2>4
<1> QED BY <1>2, <1>3 DEF Gate!End

\* Every step of the connectors is a step of the gate or leaves it alone.
LEMMA StepRefinesGate ==
  ASSUME BreakerInv, [Next]_vars
  PROVE  [Gate!GateNext]_(Gate!gate_vars)
<1> USE DEF GateMode, Admitted
<1>1. ASSUME NEW c \in Calls, AskBreaker(c), ReadVerdict = "allow"
      PROVE  Gate!AdmitFreely(c)
  <2>1. circuit = "Closed"
    BY <1>1 DEF ReadVerdict, BreakerInv, TypeOK, BreakerTypeOK, BreakerConsistent, CircuitState
  <2>2. circuit' = circuit /\ phase' = [phase EXCEPT ![c] = "admitted"]
    BY <1>1 DEF AskBreaker, breaker_vars
  <2>3. Admitted' = Admitted \cup {c}
    BY <2>2 DEF BreakerInv, TypeOK, Phases
  <2> QED BY <2>1, <2>2, <2>3 DEF Gate!AdmitFreely
<1>2. ASSUME NEW c \in Calls, AskBreaker(c), ReadVerdict # "allow"
      PROVE  UNCHANGED Gate!gate_vars
  <2>1. circuit' = circuit
    BY <1>2 DEF AskBreaker, breaker_vars
  <2>2. ReadVerdict \in {"claim", "block"}
    BY <1>2 DEF ReadVerdict, BreakerInv, TypeOK, BreakerTypeOK, CircuitState
  <2>3. phase[c] = "idle" /\ phase' \in {[phase EXCEPT ![c] = "claiming"],
                                         [phase EXCEPT ![c] = "idle"]}
    BY <1>2, <2>2 DEF AskBreaker
  <2>4. Admitted' = Admitted
    BY <2>3 DEF BreakerInv, TypeOK, Phases
  <2> QED BY <2>1, <2>4 DEF Gate!gate_vars
<1>3. ASSUME NEW c \in Calls, WinTrial(c) PROVE Gate!AdmitTrial(c)
  <2>1. circuit = "Open" /\ circuit' = "HalfOpen"
    BY <1>3 DEF WinTrial, ClaimTrial
  <2>2. Admitted' = Admitted \cup {c}
    BY <1>3 DEF WinTrial, BreakerInv, TypeOK, Phases
  <2> QED BY <2>1, <2>2 DEF Gate!AdmitTrial
<1>4. ASSUME NEW c \in Calls, ArriveLate(c), LateVerdict = "allow"
      PROVE  Gate!AdmitFreely(c)
  <2>1. circuit = "Closed"
    BY <1>4 DEF ArriveLate, ClaimLate, LateVerdict, BreakerInv, TypeOK, BreakerTypeOK,
                BreakerConsistent, CircuitState
  <2>2. circuit' = circuit /\ phase' = [phase EXCEPT ![c] = "admitted"]
    BY <1>4 DEF ArriveLate, ClaimLate, breaker_vars
  <2>3. Admitted' = Admitted \cup {c}
    BY <2>2 DEF BreakerInv, TypeOK, Phases
  <2> QED BY <2>1, <2>2, <2>3 DEF Gate!AdmitFreely
<1>5. ASSUME NEW c \in Calls, ArriveLate(c), LateVerdict # "allow"
      PROVE  UNCHANGED Gate!gate_vars
  <2>1. circuit' = circuit /\ phase[c] = "claiming"
        /\ phase' = [phase EXCEPT ![c] = "idle"]
    BY <1>5 DEF ArriveLate, ClaimLate, breaker_vars
  <2>2. Admitted' = Admitted
    BY <2>1 DEF BreakerInv, TypeOK, Phases
  <2> QED BY <2>1, <2>2 DEF Gate!gate_vars
<1>6. CASE Tick
  BY <1>6 DEF Tick, BreakerTick, Gate!gate_vars
<1>7. CASE UNCHANGED vars
  BY <1>7 DEF vars, breaker_vars, Gate!gate_vars
<1> QED
  BY <1>1, <1>2, <1>3, <1>4, <1>5, <1>6, <1>7, EndIsGateEnd DEF Next, Gate!GateNext

\* The two-phase breaker with its connectors implements the gate: one
\* admission per half-open period, none while the circuit is open.
THEOREM ConnectorsImplementGate == Spec => ImplementsGate
<1>1. Init => Gate!GateInit
  BY DEF Init, BreakerInit, Gate!GateInit
<1> QED BY <1>1, BreakerInvHolds, StepRefinesGate, PTL DEF Spec, ImplementsGate, Gate!GateSpec
=============================================================================
